----------------------------- MODULE EngineConns -----------------------------
(***************************************************************************)
(* The connections of an lsquic engine (lsquic_engine.c): which queues     *)
(* hold one, the reference flags that say so, and when it is destroyed.    *)
(*                                                                         *)
(* One thread calls the engine.  A call is a number of steps here, between *)
(* which the callbacks of the connections may add a connection to the      *)
(* advisory tick time queue or, in a client, make another; `phase` is the  *)
(* loop the call is in.  The heaps are sets, as their keys only order the  *)
(* connections; the lists of one call are sets for the same reason.  Which *)
(* connection is tickable, due, has a packet or is refused by the socket   *)
(* is left open.  The connections that answer stray packets                *)
(* (lsquic_pr_queue.c) hold no references and are left out, and so is      *)
(* LSCONN_SKIP_ON_PROC, which nothing sets.                                *)
(***************************************************************************)
EXTENDS Integers, FiniteSets

CONSTANT Conns     \* the objects connections are made in

RefFlags ==
  {"HASHED", "HAS_OUTGOING", "TICKABLE", "TICKED", "CLOSING", "ATTQ"}

VARIABLES
  phase,     \* the loop the engine is in, "idle" between two calls
  canSend,   \* ENPUB_CAN_SEND
  flags,     \* which of ENG_SERVER and ENG_COOLDOWN the engine has
  life,      \* of each object: "unborn", "alive" or "gone"
  ref,       \* the flags of CONN_REF_FLAGS each connection has
  mini,      \* the connections with LSCONN_MINI
  immed,     \* those with LSCONN_IMMED_CLOSE
  n_conns, nalloc,                  \* connections; elements a heap has room for
  hash, out, tickable, attq,        \* the queues that outlast a call
  closed, ticked, fresh,            \* closed_conns, ticked_conns, new_full_conns
  active, inactive, batch,          \* the lists of conns_out_iter, and the batch
  spoiled    \* auxiliary: what the engine relies on has failed (see below)

engineVars == <<phase, canSend, flags>>
connVars == <<life, ref, mini, immed, n_conns, nalloc>>
queueVars == <<hash, out, tickable, attq>>
passVars == <<closed, ticked, fresh>>
sendVars == <<active, inactive, batch>>
vars == <<engineVars, connVars, queueVars, passVars, sendVars, spoiled>>

Alive(c) == life[c] = "alive"
Live == {c \in Conns : Alive(c)}
IsServer == "SERVER" \in flags

Init ==
  /\ phase = "idle" /\ canSend = TRUE /\ flags \in SUBSET {"SERVER"}
  /\ life = [c \in Conns |-> "unborn"]
  /\ ref = [c \in Conns |-> {}]
  /\ mini = {} /\ immed = {}
  /\ n_conns = 0 /\ nalloc = 0
  /\ hash = {} /\ out = {} /\ tickable = {} /\ attq = {}
  /\ closed = {} /\ ticked = {} /\ fresh = {}
  /\ active = {} /\ inactive = {} /\ batch = {}
  /\ spoiled = FALSE

\* The destructor has begun, or the program is undefined.
Over == {"undefined", "dtor_out", "dtor_tickable", "dtor_hash", "dtor_attq", "destroyed"}

-------------------------------------------------------------------------------
(* References.                                                             *)

\* Connection c is left with the references kept; without any it is destroyed.
Keep(c, kept) ==
  /\ ref' = [ref EXCEPT ![c] = kept]
  /\ life' = IF kept = {} THEN [life EXCEPT ![c] = "gone"] ELSE life
  /\ n_conns' = IF kept = {} THEN n_conns - 1 ELSE n_conns

\* The room the heaps have after maybe_grow_conn_heaps.
Grown ==
  IF n_conns < nalloc THEN nalloc ELSE IF nalloc = 0 THEN 4 ELSE nalloc * 2

\* A connection is made in c, and others' references become those of refs.
Make(c, refs) ==
  /\ life' = [life EXCEPT ![c] = "alive"]
  /\ ref' = refs
  /\ n_conns' = n_conns + 1
  /\ nalloc' = Grown

\* A connection that could not be hashed is destroyed at once.  One that is
\* tickable by then (its constructor has run callbacks, or written to the
\* crypto stream, outside of a processing call) stays in the heap: spoiled.
Discard(c, others) ==
  /\ nalloc' = Grown
  /\ \/ tickable' = tickable \cup others /\ UNCHANGED <<life, spoiled>>
     \/ /\ phase = "idle"
        /\ life' = [life EXCEPT ![c] = "gone"]
        /\ tickable' = tickable \cup others \cup {c}
        /\ spoiled' = TRUE

-------------------------------------------------------------------------------
(* Calls from outside: new connections, packets, users.                    *)

\* lsquic_engine_connect, which callbacks may call too.
connect(c) ==
  /\ ~IsServer /\ phase \notin Over
  /\ life[c] = "unborn"
  /\ Make(c, [ref EXCEPT ![c] = {"HASHED", "TICKABLE"}])
  /\ hash' = hash \cup {c}
  /\ tickable' = tickable \cup {c}
  /\ UNCHANGED <<engineVars, mini, immed, out, attq, passVars, sendVars, spoiled>>

connect_fails(c) ==
  /\ ~IsServer /\ phase \notin Over
  /\ life[c] = "unborn"
  /\ Discard(c, {})
  /\ UNCHANGED <<engineVars, ref, mini, immed, n_conns, hash, out, attq, passVars, sendVars>>

\* process_packet_in, for a connection that is found in the hash or, by the
\* token of a stateless reset, in enp_srst_hash, where it stays until it is
\* destroyed.
packet_in(c) ==
  /\ phase = "idle"
  /\ Alive(c) /\ (c \in hash \/ c \notin mini)
  /\ tickable' = tickable \cup {c}
  /\ ref' = [ref EXCEPT ![c] = @ \cup {"TICKABLE"}]
  /\ UNCHANGED <<engineVars, life, mini, immed, n_conns, nalloc, hash, out, attq,
                 passVars, sendVars, spoiled>>

\* A packet that starts a connection on a server.
packet_in_new_mini(c) ==
  /\ IsServer /\ phase = "idle" /\ "COOLDOWN" \notin flags
  /\ life[c] = "unborn"
  /\ Make(c, [ref EXCEPT ![c] = {"HASHED", "TICKABLE"}])
  /\ mini' = mini \cup {c}
  /\ hash' = hash \cup {c}
  /\ tickable' = tickable \cup {c}
  /\ UNCHANGED <<engineVars, immed, out, attq, passVars, sendVars, spoiled>>

\* The packet completes the handshake of mini connection m: promote_mini_conn.
packet_in_promotes(m, c) ==
  /\ IsServer /\ phase = "idle"
  /\ m \in hash \cap mini
  /\ life[c] = "unborn"
  /\ Make(c, [ref EXCEPT ![m] = (@ \cup {"TICKABLE"}) \ {"ATTQ", "HASHED"},
                         ![c] = {"HASHED", "TICKABLE"}])
  /\ hash' = (hash \ {m}) \cup {c}
  /\ tickable' = tickable \cup {m, c}
  /\ attq' = attq \ {m}
  /\ UNCHANGED <<engineVars, mini, immed, out, passVars, sendVars, spoiled>>

\* The full connection cannot be made or hashed: LSCONN_PROMOTE_FAIL.
packet_in_promotion_fails(m, c) ==
  /\ IsServer /\ phase = "idle"
  /\ m \in hash \cap mini
  /\ life[c] = "unborn"
  /\ Discard(c, {m})
  /\ ref' = [ref EXCEPT ![m] = @ \cup {"TICKABLE"}]
  /\ UNCHANGED <<engineVars, mini, immed, n_conns, hash, out, attq, passVars, sendVars>>

\* lsquic_engine_add_conn_to_tickable: not from within a processing call.
add_conn_to_tickable(c) ==
  /\ phase = "idle"
  /\ Alive(c) /\ c \notin mini /\ "TICKABLE" \notin ref[c]
  /\ tickable' = tickable \cup {c}
  /\ ref' = [ref EXCEPT ![c] = @ \cup {"TICKABLE"}]
  /\ UNCHANGED <<engineVars, life, mini, immed, n_conns, nalloc, hash, out, attq,
                 passVars, sendVars, spoiled>>

\* lsquic_engine_add_conn_to_attq, at any time.  A connection that is in the
\* queue is put in again with its new time, which cannot fail: its slot and
\* its element have just been given back.
add_conn_to_attq(c) ==
  /\ phase \notin Over
  /\ Alive(c) /\ c \notin mini /\ ref[c] \cap {"TICKABLE", "ATTQ"} = {}
  /\ attq' = attq \cup {c}
  /\ ref' = [ref EXCEPT ![c] = @ \cup {"ATTQ"}]
  /\ UNCHANGED <<engineVars, life, mini, immed, n_conns, nalloc, hash, out, tickable,
                 passVars, sendVars, spoiled>>

\* lsquic_engine_cooldown and drop_all_mini_conns.
start_cooldown ==
  /\ phase = "idle"
  /\ flags' = flags \cup {"COOLDOWN"}
  /\ phase' = IF IsServer THEN "cooldown" ELSE "idle"
  /\ UNCHANGED <<canSend, connVars, queueVars, passVars, sendVars, spoiled>>

drop_mini_conn(c) ==
  /\ phase = "cooldown"
  /\ c \in hash \cap mini
  /\ hash' = hash \ {c}
  /\ Keep(c, ref[c] \ {"HASHED"})
  /\ UNCHANGED <<engineVars, mini, immed, nalloc, out, tickable, attq,
                 passVars, sendVars, spoiled>>

cooldown_done ==
  /\ phase = "cooldown"
  /\ hash \cap mini = {}
  /\ phase' = "idle"
  /\ UNCHANGED <<canSend, flags, connVars, queueVars, passVars, sendVars, spoiled>>

-------------------------------------------------------------------------------
(* lsquic_engine_process_conns.                                            *)

process_conns ==
  /\ phase = "idle"
  /\ phase' = "attq"
  /\ UNCHANGED <<canSend, flags, connVars, queueVars, passVars, sendVars, spoiled>>

\* The connections whose advisory time has come become tickable.
pop_attq(c) ==
  /\ phase = "attq"
  /\ c \in attq
  /\ attq' = attq \ {c}
  /\ LET kept == ref[c] \ {"ATTQ"} IN
       /\ Keep(c, IF kept = {} THEN {} ELSE kept \cup {"TICKABLE"})
       /\ tickable' = IF kept = {} THEN tickable ELSE tickable \cup {c}
  /\ UNCHANGED <<engineVars, mini, immed, nalloc, hash, out, passVars, sendVars, spoiled>>

\* process_connections begins; after a while it sends again in any case.
attq_done ==
  /\ phase = "attq"
  /\ phase' = "tick"
  /\ canSend' \in {canSend, TRUE}
  /\ UNCHANGED <<flags, connVars, queueVars, passVars, sendVars, spoiled>>

\* The connections are sent from when there is anything to send.
AfterTicks == IF canSend /\ out # {} THEN "sending" ELSE "closed"

\* What conn_iter_next_tickable leaves of the references of a connection.
Popped(c) == ref[c] \ {"TICKABLE", "ATTQ"}

\* The references of a connection that had kept when it ticked.
AfterTick(kept, st) ==
  LET sends == IF "SEND" \in st THEN kept \cup {"HAS_OUTGOING"} ELSE kept
  IN IF "CLOSE" \in st THEN (sends \ {"HASHED"}) \cup {"CLOSING"} ELSE sends \cup {"TICKED"}

\* What process_connections does with the result st of ci_tick.  A connection
\* that is out of the hash has returned TICK_CLOSE before, and is relied on
\* to return it again.
HandleTick(c, kept, st) ==
  /\ out' = IF "SEND" \in st THEN out \cup {c} ELSE out
  /\ closed' = IF "CLOSE" \in st THEN closed \cup {c} ELSE closed
  /\ ticked' = IF "CLOSE" \in st THEN ticked ELSE ticked \cup {c}
  /\ spoiled' = IF "CLOSE" \in st \/ "HASHED" \in kept THEN spoiled ELSE TRUE

Unhashed(c, st) == IF "CLOSE" \in st THEN {c} ELSE {}

tick(c) ==
  /\ phase = "tick"
  /\ c \in tickable /\ Alive(c) /\ Popped(c) # {}
  /\ \E st \in SUBSET {"SEND", "CLOSE"} :
       /\ HandleTick(c, Popped(c), st)
       /\ ref' = [ref EXCEPT ![c] = AfterTick(Popped(c), st)]
       /\ hash' = hash \ Unhashed(c, st)
  /\ tickable' = tickable \ {c}
  /\ attq' = attq \ {c}
  /\ UNCHANGED <<engineVars, life, mini, immed, n_conns, nalloc, fresh, sendVars>>

\* TICK_PROMOTE: a full connection is made beside the mini one, which closes.
\* If it cannot be made this is a tick with CLOSE, the room the heaps may have
\* been given for it left out.
tick_promotes(m, c) ==
  /\ IsServer /\ phase = "tick"
  /\ m \in tickable \cap mini /\ Alive(m) /\ Popped(m) # {}
  /\ life[c] = "unborn"
  /\ \E st \in SUBSET {"SEND", "CLOSE"} :
       /\ "CLOSE" \in st
       /\ HandleTick(m, Popped(m), st)
       /\ Make(c, [ref EXCEPT ![m] = AfterTick(Popped(m), st), ![c] = {"HASHED"}])
  /\ hash' = (hash \ {m}) \cup {c}
  /\ fresh' = fresh \cup {c}
  /\ tickable' = tickable \ {m}
  /\ attq' = attq \ {m}
  /\ UNCHANGED <<engineVars, mini, immed, sendVars>>

\* A connection nothing else refers to is destroyed when it leaves the heap.
\* conn_iter_next_tickable returns NULL for it: the loop goes on with the new
\* connections, or ends, whatever is left in the heap.
last_reference(c) ==
  /\ phase = "tick"
  /\ c \in tickable /\ Alive(c) /\ Popped(c) = {}
  /\ tickable' = tickable \ {c}
  /\ attq' = attq \ {c}
  /\ Keep(c, {})
  /\ phase' = IF fresh = {} THEN AfterTicks ELSE "fresh"
  /\ UNCHANGED <<canSend, flags, mini, immed, nalloc, hash, out, passVars, sendVars, spoiled>>

\* next_new_full_conn, when the iterator has returned NULL.
tick_new_full(c) ==
  /\ phase = "fresh" \/ (phase = "tick" /\ tickable = {})
  /\ c \in fresh
  /\ fresh' = fresh \ {c}
  /\ phase' = "tick"
  /\ \E st \in SUBSET {"SEND", "CLOSE"} :
       /\ HandleTick(c, ref[c], st)
       /\ ref' = [ref EXCEPT ![c] = AfterTick(ref[c], st)]
       /\ hash' = hash \ Unhashed(c, st)
  /\ UNCHANGED <<canSend, flags, life, mini, immed, n_conns, nalloc, tickable, attq, sendVars>>

ticks_done ==
  /\ phase = "tick" /\ tickable = {} /\ fresh = {}
  /\ phase' = AfterTicks
  /\ UNCHANGED <<canSend, flags, connVars, queueVars, passVars, sendVars, spoiled>>

\* The heap holds the address of a connection that was destroyed.
stale_tickable ==
  /\ phase \in {"tick", "dtor_tickable"}
  /\ \E c \in tickable : ~Alive(c)
  /\ phase' = "undefined"
  /\ UNCHANGED <<canSend, flags, connVars, queueVars, passVars, sendVars, spoiled>>

-------------------------------------------------------------------------------
(* send_packets_out, from process_connections or from                      *)
(* lsquic_engine_send_unsent_packets.                                      *)

\* Once the socket takes packets again, connections of the hash may have
\* become tickable: check_tickable_conns_again.
send_unsent_packets ==
  /\ phase = "idle"
  /\ phase' = "sending"
  /\ canSend' = TRUE
  /\ \E again \in SUBSET (hash \ tickable) :
       /\ canSend => again = {}
       /\ tickable' = tickable \cup again
       /\ ref' = [c \in Conns |-> IF c \in again THEN ref[c] \cup {"TICKABLE"} ELSE ref[c]]
  /\ UNCHANGED <<flags, life, mini, immed, n_conns, nalloc, hash, out, attq,
                 passVars, sendVars, spoiled>>

\* coi_next: the heap first, then round and round the active list.
Next_out(c) == c \in out \/ (out = {} /\ c \in active)

\* Mistake: the list of ticked connections keeps it.
CloseNow_still_ticked(c) ==
  /\ immed' = immed \cup {c}
  /\ closed' = closed \cup {c}
  /\ hash' = hash \ {c}
  /\ ref' = [ref EXCEPT ![c] = (@ \cup {"CLOSING"}) \ {"HASHED", "TICKED"}]
  /\ UNCHANGED ticked

\* close_conn_immediately.  Nothing is destroyed: CLOSING is set first.
CloseNow(c) ==
  LET gone == IF "CLOSING" \in ref[c] THEN {"TICKED"} ELSE {"HASHED", "TICKED"} IN
  /\ immed' = immed \cup {c}
  /\ closed' = closed \cup {c}
  /\ hash' = IF "HASHED" \in gone THEN hash \ {c} ELSE hash
  /\ ticked' = ticked \ {c}
  /\ ref' = [ref EXCEPT ![c] = (@ \cup {"CLOSING"}) \ gone]

\* The connection has no packet to send: coi_deactivate.
batched_all(c) ==
  /\ phase = "sending" /\ Next_out(c)
  /\ out' = out \ {c}
  /\ active' = active \ {c}
  /\ inactive' = inactive \cup {c}
  /\ UNCHANGED <<engineVars, connVars, hash, tickable, attq, passVars, batch, spoiled>>

\* Its packet cannot be encrypted: ENCPA_BADCRYPT.
bad_crypt(c) ==
  /\ phase = "sending" /\ Next_out(c)
  /\ CloseNow(c)
  /\ out' = out \ {c}
  /\ active' = active \ {c}
  /\ inactive' = inactive \cup {c}
  /\ UNCHANGED <<engineVars, life, mini, n_conns, nalloc, tickable, attq, fresh, batch, spoiled>>

\* Its packet is put in the batch, or (ENCPA_NOMEM) sending ends here.
batch_packet(c) ==
  /\ phase = "sending" /\ Next_out(c)
  /\ out' = out \ {c}
  /\ active' = active \cup {c}
  /\ \/ batch' = batch \cup {c} /\ UNCHANGED phase
     \/ phase' = "flush" /\ UNCHANGED batch
  /\ UNCHANGED <<canSend, flags, connVars, hash, tickable, attq, passVars, inactive, spoiled>>

out_done ==
  /\ phase = "sending" /\ out = {} /\ active = {}
  /\ phase' = "flush"
  /\ UNCHANGED <<canSend, flags, connVars, queueVars, passVars, sendVars, spoiled>>

\* send_batch, of a full batch or of the last one: the socket takes all of
\* it.  The deadline may end the sending.
batch_sent ==
  /\ phase \in {"sending", "flush"}
  /\ batch' = {}
  /\ phase' \in IF phase = "flush" THEN {"reheap"} ELSE {"sending", "reheap"}
  /\ UNCHANGED <<canSend, flags, connVars, queueVars, passVars, active, inactive, spoiled>>

\* The socket takes a part: the packets of `back` go back to their
\* connections, which are active again.  An error other than EAGAIN closes a
\* connection of the batch.
NotSent(back) ==
  /\ phase \in {"sending", "flush"}
  /\ back \subseteq batch
  /\ canSend' \in {canSend, FALSE}
  /\ active' = active \cup back
  /\ inactive' = inactive \ back
  /\ batch' = {}
  /\ phase' = "reheap"

batch_refused ==
  /\ \E back \in SUBSET batch : NotSent(back)
  /\ UNCHANGED <<flags, connVars, queueVars, passVars, spoiled>>

batch_fails(c) ==
  /\ c \in batch
  /\ \E back \in SUBSET batch : NotSent(back)
  /\ CloseNow(c)
  /\ UNCHANGED <<flags, life, mini, n_conns, nalloc, out, tickable, attq, fresh, spoiled>>

\* coi_reheap: "Closed connection gets one shot at sending packets".
reheap_active(c) ==
  /\ phase = "reheap"
  /\ c \in active
  /\ active' = active \ {c}
  /\ \/ /\ ref[c] # {"HAS_OUTGOING"} /\ c \notin immed
        /\ out' = out \cup {c}
        /\ UNCHANGED <<ref, life, n_conns>>
     \/ /\ ref[c] = {"HAS_OUTGOING"} \/ c \in immed
        /\ Keep(c, ref[c] \ {"HAS_OUTGOING"})
        /\ UNCHANGED out
  /\ UNCHANGED <<engineVars, mini, immed, nalloc, hash, tickable, attq, passVars,
                 inactive, batch, spoiled>>

reheap_inactive(c) ==
  /\ phase = "reheap"
  /\ active = {} /\ c \in inactive
  /\ inactive' = inactive \ {c}
  /\ Keep(c, ref[c] \ {"HAS_OUTGOING"})
  /\ UNCHANGED <<engineVars, mini, immed, nalloc, queueVars, passVars, active, batch, spoiled>>

reheap_done ==
  /\ phase = "reheap" /\ active = {} /\ inactive = {}
  /\ phase' = "closed"
  /\ UNCHANGED <<canSend, flags, connVars, queueVars, passVars, sendVars, spoiled>>

-------------------------------------------------------------------------------
(* The end of either call (in lsquic_engine_send_unsent_packets the list   *)
(* of ticked connections is empty).                                        *)

drop_closed(c) ==
  /\ phase = "closed"
  /\ c \in closed
  /\ closed' = closed \ {c}
  /\ Keep(c, ref[c] \ {"CLOSING"})
  /\ UNCHANGED <<engineVars, mini, immed, nalloc, queueVars, ticked, fresh, sendVars, spoiled>>

closed_done ==
  /\ phase = "closed" /\ closed = {}
  /\ phase' = "ticked"
  /\ UNCHANGED <<canSend, flags, connVars, queueVars, passVars, sendVars, spoiled>>

\* A connection that has ticked is tickable again, or has a next time, or
\* neither (no time, or no memory for it).
untick(c) ==
  /\ phase = "ticked"
  /\ c \in ticked
  /\ ticked' = ticked \ {c}
  /\ LET kept == ref[c] \ {"TICKED"} IN
       /\ kept # {}
       /\ \/ /\ "TICKABLE" \notin kept
             /\ tickable' = tickable \cup {c}
             /\ ref' = [ref EXCEPT ![c] = kept \cup {"TICKABLE"}]
             /\ UNCHANGED attq
          \/ /\ "ATTQ" \notin kept
             /\ attq' = attq \cup {c}
             /\ ref' = [ref EXCEPT ![c] = kept \cup {"ATTQ"}]
             /\ UNCHANGED tickable
          \/ ref' = [ref EXCEPT ![c] = kept] /\ UNCHANGED <<tickable, attq>>
  /\ UNCHANGED <<engineVars, life, mini, immed, n_conns, nalloc, hash, out, closed, fresh,
                 sendVars, spoiled>>

\* The connection goes with its last reference, and is used after that.
untick_destroys(c) ==
  /\ phase = "ticked"
  /\ c \in ticked /\ ref[c] = {"TICKED"}
  /\ ticked' = ticked \ {c}
  /\ Keep(c, {})
  /\ phase' = "undefined"
  /\ UNCHANGED <<canSend, flags, mini, immed, nalloc, queueVars, closed, fresh,
                 sendVars, spoiled>>

ticked_done ==
  /\ phase = "ticked" /\ ticked = {}
  /\ phase' = "idle"
  /\ UNCHANGED <<canSend, flags, connVars, queueVars, passVars, sendVars, spoiled>>

-------------------------------------------------------------------------------
(* lsquic_engine_destroy: every queue is emptied in its turn.              *)

engine_destroy ==
  /\ \/ phase = "idle" /\ phase' = "dtor_out"
     \/ phase = "dtor_out" /\ out = {} /\ phase' = "dtor_tickable"
     \/ phase = "dtor_tickable" /\ tickable = {} /\ phase' = "dtor_hash"
     \/ phase = "dtor_hash" /\ hash = {} /\ phase' = "dtor_attq"
     \/ phase = "dtor_attq" /\ attq = {} /\ phase' = "destroyed"
  /\ UNCHANGED <<canSend, flags, connVars, queueVars, passVars, sendVars, spoiled>>

dtor_out(c) ==
  /\ phase = "dtor_out" /\ c \in out
  /\ out' = out \ {c}
  /\ Keep(c, ref[c] \ {"HAS_OUTGOING"})
  /\ UNCHANGED <<engineVars, mini, immed, nalloc, hash, tickable, attq, passVars, sendVars, spoiled>>

dtor_tickable(c) ==
  /\ phase = "dtor_tickable" /\ c \in tickable /\ Alive(c)
  /\ tickable' = tickable \ {c}
  /\ Keep(c, ref[c] \ {"TICKABLE"})
  /\ UNCHANGED <<engineVars, mini, immed, nalloc, hash, out, attq, passVars, sendVars, spoiled>>

\* force_close_conn
dtor_hash(c) ==
  /\ phase = "dtor_hash" /\ c \in hash
  /\ hash' = hash \ {c}
  /\ attq' = attq \ {c}
  /\ Keep(c, ref[c] \ {"ATTQ", "HASHED"})
  /\ UNCHANGED <<engineVars, mini, immed, nalloc, out, tickable, passVars, sendVars, spoiled>>

dtor_attq(c) ==
  /\ phase = "dtor_attq" /\ c \in attq
  /\ attq' = attq \ {c}
  /\ Keep(c, ref[c] \ {"ATTQ"})
  /\ UNCHANGED <<engineVars, mini, immed, nalloc, hash, out, tickable, passVars, sendVars, spoiled>>

-------------------------------------------------------------------------------
Outside(c) ==
  \/ connect(c) \/ connect_fails(c)
  \/ packet_in(c) \/ packet_in_new_mini(c)
  \/ \E m \in Conns : packet_in_promotes(m, c) \/ packet_in_promotion_fails(m, c)
  \/ add_conn_to_tickable(c) \/ add_conn_to_attq(c)
  \/ drop_mini_conn(c)

Process(c) ==
  \/ pop_attq(c)
  \/ tick(c) \/ last_reference(c) \/ tick_new_full(c)
  \/ \E m \in Conns : tick_promotes(m, c)

Send(c) ==
  \/ batched_all(c) \/ bad_crypt(c) \/ batch_packet(c) \/ batch_fails(c)
  \/ reheap_active(c) \/ reheap_inactive(c)

Finish(c) ==
  \/ drop_closed(c) \/ untick(c) \/ untick_destroys(c)
  \/ dtor_out(c) \/ dtor_tickable(c) \/ dtor_hash(c) \/ dtor_attq(c)

Turn ==
  \/ start_cooldown \/ cooldown_done
  \/ process_conns \/ attq_done \/ ticks_done \/ stale_tickable
  \/ send_unsent_packets \/ out_done \/ batch_sent \/ batch_refused \/ reheap_done
  \/ closed_done \/ ticked_done
  \/ engine_destroy

Next ==
  \/ \E c \in Conns : Outside(c) \/ Process(c) \/ Send(c) \/ Finish(c)
  \/ Turn

Spec == Init /\ [][Next]_vars

-------------------------------------------------------------------------------
(* Properties.                                                             *)

Phases ==
  {"idle", "cooldown", "attq", "tick", "fresh", "sending", "flush", "reheap",
   "closed", "ticked"} \cup Over

TypeOK ==
  /\ phase \in Phases
  /\ canSend \in BOOLEAN /\ flags \subseteq {"SERVER", "COOLDOWN"} /\ spoiled \in BOOLEAN
  /\ life \in [Conns -> {"unborn", "alive", "gone"}]
  /\ ref \in [Conns -> SUBSET RefFlags]
  /\ mini \subseteq Conns /\ immed \subseteq Conns
  /\ n_conns \in Int /\ nalloc \in Int
  /\ hash \subseteq Conns /\ out \subseteq Conns
  /\ tickable \subseteq Conns /\ attq \subseteq Conns
  /\ closed \subseteq Conns /\ ticked \subseteq Conns /\ fresh \subseteq Conns
  /\ active \subseteq Conns /\ inactive \subseteq Conns /\ batch \subseteq Conns

\* lsquic_engine.c 157-194: a reference flag is set exactly while the queue it
\* stands for holds the connection, whatever path the connection takes.
FlagsAreQueues ==
  \A c \in Conns :
    /\ "HASHED" \in ref[c] <=> c \in hash
    /\ "HAS_OUTGOING" \in ref[c] <=> c \in out \cup active \cup inactive
    /\ "TICKABLE" \in ref[c] <=> c \in tickable
    /\ "ATTQ" \in ref[c] <=> c \in attq
    /\ "CLOSING" \in ref[c] <=> c \in closed
    /\ "TICKED" \in ref[c] <=> c \in ticked

\* lsquic_engine.c 179: "The idea is to destroy the connection when it is no
\* longer referenced", not before, and not later.
AliveIsReferenced == \A c \in Conns : Alive(c) <=> ref[c] # {}

\* The lists a connection with outgoing packets is in exclude each other, and
\* one that has a packet in the batch is in a list of the iterator.
OutgoingInv ==
  /\ out \cap active = {} /\ out \cap inactive = {} /\ active \cap inactive = {}
  /\ batch \subseteq active \cup inactive

\* Which loop works on which list.
PhaseInv ==
  /\ closed # {} => phase \in {"tick", "fresh", "sending", "flush", "reheap", "closed"}
  /\ ticked # {} => phase \in {"tick", "fresh", "sending", "flush", "reheap", "closed", "ticked"}
  /\ fresh # {} => phase \in {"tick", "fresh"}
  /\ active \cup inactive # {} => phase \in {"sending", "flush", "reheap"}
  /\ batch # {} => phase \in {"sending", "flush"}
  /\ phase \in {"dtor_tickable", "dtor_hash", "dtor_attq", "destroyed"} => out = {}
  /\ phase \in {"dtor_hash", "dtor_attq", "destroyed"} => tickable = {}
  /\ phase \in {"dtor_attq", "destroyed"} => hash = {}
  /\ phase = "destroyed" => attq = {}

\* A connection ends a tick in one of two lists, in the hash or out of it.
TickInv ==
  /\ closed \cap hash = {}
  /\ ticked \subseteq hash /\ ticked \cap tickable = {}
  /\ fresh \subseteq hash /\ fresh \cap (ticked \cup closed \cup tickable \cup out) = {}
  /\ phase \in {"tick", "fresh"} => closed \cap tickable = {}

\* A connection closed for an error of the socket is out of the hash, and has
\* packets only until the sending is over.
ImmedInv ==
  /\ immed \cap (hash \cup out) = {}
  /\ \A c \in immed : life[c] # "unborn"

\* The engine counts its connections, and its heaps have room for each.
CountInv ==
  /\ IsFiniteSet(Live) /\ n_conns = Cardinality(Live)
  /\ n_conns <= nalloc

EngineInv ==
  /\ FlagsAreQueues /\ AliveIsReferenced /\ OutgoingInv /\ PhaseInv
  /\ TickInv /\ ImmedInv /\ CountInv
  /\ phase # "undefined"

\* The inductive invariant, as long as what the engine relies on holds.
ConnsInv == TypeOK /\ (spoiled \/ EngineInv)

\* No queue holds, and no loop comes to, a connection that was destroyed; and
\* a connection that is alive is in a queue, so that it will be destroyed.
ReferencedLive ==
  spoiled \/ /\ phase # "undefined"
             /\ Live = hash \cup out \cup active \cup inactive \cup tickable \cup attq
                         \cup closed \cup ticked

\* lsquic_engine_destroy: assert(0 == engine->n_conns).
DestroyedIsEmpty == phase = "destroyed" => spoiled \/ (Live = {} /\ n_conns = 0)

\* lsquic_mh_insert: assert(heap->mh_nelem < heap->mh_nalloc).  What is in the
\* lists of the iterator goes back to the heap of outgoing connections.
HeapsHaveRoom ==
  spoiled \/ /\ Cardinality(tickable) <= nalloc
             /\ Cardinality(out \cup active \cup inactive) <= nalloc
===============================================================================
