------------------------------ MODULE QuicControl ------------------------------
(***************************************************************************)
(* The control block (contrl_ctx_t) between the program's threads, which   *)
(* call quic_run, quic_connect and quic_close, and the thread that runs    *)
(* the QUIC engine (lsquic/quic_interface_v2.c).  A caller puts a command  *)
(* in a slot under the block's mutex and polls the status, without it, for *)
(* as long as it has patience; the engine thread looks at the slot in      *)
(* every turn of its event loop, and the engine's callbacks set the        *)
(* status.                                                                 *)
(*                                                                         *)
(* The program calls quic_run once, from one thread, and the rest when     *)
(* quic_run has returned, whatever it has returned: as the test at the end *)
(* of the file does.  Connections are numbered in the order of their       *)
(* creation, and a number stands for the pointer to one; 0 is NULL.        *)
(***************************************************************************)
EXTENDS Integers

CONSTANTS
  Callers,         \* the program's threads
  Main,            \* the one that calls quic_run
  MAX_STREAM_COUNT,
  MaxConns,        \* bound: connections made
  RunMayTimeOut,   \* whether the engine may take more than 2 s to start
  Nobody           \* the owner of a free mutex

Engine == "engine"
Conns == 1..MaxConns
NoStream == -1

ASSUME ControlAssumption ==
  /\ Main \in Callers
  /\ MAX_STREAM_COUNT = 1
  /\ MaxConns \in Nat
  /\ RunMayTimeOut \in BOOLEAN
  /\ Nobody # Engine

VARIABLES
  cmd, status, conn, runing, mutex,   \* the control block
  pc, call,       \* each caller: where it is, and in which call
  epc, reading,      \* the engine thread, and the command it acts on
  timer,             \* whether the loop has the timer's event
  stream_id,         \* the number the next stream gets
  life,              \* what has become of each connection
  stream,            \* the number of its stream
  made,              \* how many connections have been made
  refused            \* auxiliary: sendmsg has refused the last packet of one

blockVars == <<cmd, status, conn, runing, mutex>>
callerVars == <<pc, call>>
engineVars == <<epc, reading, timer>>
connVars == <<stream_id, life, stream, made, refused>>
vars == <<blockVars, callerVars, engineVars, connVars>>

Commands == {"NONE", "START", "CONNECT", "CLOSE"}
Statuses == {"NONE", "RUNING", "CLOSE", "CONNECTED"}

\* The status each call waits for.
Awaited == [run |-> "RUNING", connect |-> "CONNECTED", close |-> "CLOSE"]

\* "open": the engine has it; "closing": lsquic_conn_close was called; "unsent":
\* closed, out of the engine's hash, but its last packet is still to be sent;
\* "gone": destroyed.
Lives == {"unborn", "open", "closing", "unsent", "gone"}
Hashed(n) == life[n] \in {"open", "closing"}
Closed(n) == life[n] \in {"closing", "unsent"}
Alive(n) == life[n] \in {"open", "closing", "unsent"}

Init ==
  /\ cmd = "NONE" /\ status = "NONE" /\ conn = 0 /\ runing = FALSE
  /\ mutex = Nobody
  /\ pc = [c \in Callers |-> IF c = Main THEN "new" ELSE "idle"]
  /\ call = [c \in Callers |-> IF c = Main THEN "run" ELSE "none"]
  /\ epc = "off" /\ reading = "NONE" /\ timer = FALSE
  /\ stream_id = 0 /\ made = 0 /\ refused = FALSE
  /\ life = [n \in Conns |-> "unborn"]
  /\ stream = [n \in Conns |-> NoStream]

-------------------------------------------------------------------------------
(* The callers.                                                            *)

CallerAt(c, from, to) == pc[c] = from /\ pc' = [pc EXCEPT ![c] = to]

\* quic_run: the command is written without the mutex; nobody reads it yet.
quic_run ==
  /\ CallerAt(Main, "new", "wait")
  /\ ~runing
  /\ cmd' = "START"
  /\ epc' = "starting"
  /\ UNCHANGED <<status, conn, runing, mutex, call, reading, timer, connVars>>

\* A call begins once quic_run has returned.
Enter(c, name) ==
  /\ call[Main] # "run"
  /\ CallerAt(c, "idle", "ask")
  /\ call' = [call EXCEPT ![c] = name]
  /\ UNCHANGED <<blockVars, engineVars, connVars>>

\* A call returns 1 from the tests of the status, 0 from the look at the clock.
Return(c) ==
  /\ pc' = [pc EXCEPT ![c] = "idle"]
  /\ call' = [call EXCEPT ![c] = "none"]
  /\ UNCHANGED <<blockVars, engineVars, connVars>>

\* quic_connect looks at the status before it asks.
AlreadyConnected(c) ==
  /\ pc[c] = "ask" /\ call[c] = "connect"
  /\ status = "CONNECTED"
  /\ Return(c)

NotYetConnected(c) ==
  /\ call[c] = "connect" /\ status # "CONNECTED"
  /\ CallerAt(c, "ask", "post")
  /\ UNCHANGED <<blockVars, call, engineVars, connVars>>

\* Mistake: the command is written without the mutex.
Post_unlocked(c) ==
  /\ \/ call[c] = "connect" /\ CallerAt(c, "post", "wait") /\ cmd' = "CONNECT"
     \/ call[c] = "close" /\ CallerAt(c, "ask", "wait") /\ cmd' = "CLOSE"
  /\ UNCHANGED <<status, conn, runing, mutex, call, engineVars, connVars>>

\* The critical section of quic_connect and of quic_close.
Post(c) ==
  /\ mutex = Nobody
  /\ \/ call[c] = "connect" /\ CallerAt(c, "post", "wait") /\ cmd' = "CONNECT"
     \/ call[c] = "close" /\ CallerAt(c, "ask", "wait") /\ cmd' = "CLOSE"
  /\ UNCHANGED <<status, conn, runing, mutex, call, engineVars, connVars>>

\* wait_status: the test of the loop, then the clock.
WaitStatus(c) ==
  /\ pc[c] = "wait"
  /\ \/ status = Awaited[call[c]] /\ Return(c)
     \/ /\ status # Awaited[call[c]]
        /\ CallerAt(c, "wait", "clock")
        /\ UNCHANGED <<blockVars, call, engineVars, connVars>>

WaitClock(c) ==
  /\ pc[c] = "clock"
  /\ \/ (call[c] = "run" => RunMayTimeOut) /\ Return(c)
     \/ /\ CallerAt(c, "clock", "wait")
        /\ UNCHANGED <<blockVars, call, engineVars, connVars>>

Caller(c) ==
  \/ Enter(c, "connect") \/ Enter(c, "close")
  \/ AlreadyConnected(c) \/ NotYetConnected(c)
  \/ Post(c)
  \/ WaitStatus(c) \/ WaitClock(c)

-------------------------------------------------------------------------------
(* The engine thread.  A turn of its loop runs the handlers of the control *)
(* event and of the timer, if due, and then the one of the socket.         *)

At(from, to) == epc = from /\ epc' = to

\* quic_thread makes the engine and the events, and enters the loop.
make_client_ctx ==
  /\ At("starting", "contrl")
  /\ UNCHANGED <<blockVars, callerVars, reading, timer, connVars>>

\* contrl_func takes the mutex and reads the command.
contrl_lock ==
  /\ mutex = Nobody
  /\ mutex' = Engine
  /\ At("contrl", "switch")
  /\ reading' = cmd
  /\ UNCHANGED <<cmd, status, conn, runing, callerVars, timer, connVars>>

contrl_none ==
  /\ reading = "NONE"
  /\ At("switch", "end")
  /\ UNCHANGED <<blockVars, callerVars, reading, timer, connVars>>

\* START: two assignments, which the callers see one after the other.
contrl_start ==
  /\ reading = "START"
  /\ \/ At("switch", "start") /\ status' = "RUNING" /\ UNCHANGED runing
     \/ At("start", "end") /\ runing' = TRUE /\ UNCHANGED status
  /\ UNCHANGED <<cmd, conn, mutex, callerVars, reading, timer, connVars>>

\* Mistake: the status is not looked at.
contrl_connect_again ==
  /\ reading = "CONNECT"
  /\ At("switch", "connect")
  /\ UNCHANGED <<blockVars, callerVars, reading, timer, connVars>>

\* CONNECT does nothing when the status is STATUS_CONNECTED.
contrl_connect ==
  /\ reading = "CONNECT"
  /\ \/ status = "CONNECTED" /\ At("switch", "end")
     \/ status # "CONNECTED" /\ At("switch", "connect")
  /\ UNCHANGED <<blockVars, callerVars, reading, timer, connVars>>

\* lsquic_engine_connect: the client's default versions make the engine hash
\* its connections by the local address, so it makes none while it has one.
\* on_new_conn is called before it returns, and asks for a stream.
connect_made ==
  /\ At("connect", "made")
  /\ made < MaxConns
  /\ \A n \in Conns : ~Hashed(n)
  /\ made' = made + 1
  /\ life' = [life EXCEPT ![made + 1] = "open"]
  /\ status' = "CONNECTED"
  /\ UNCHANGED <<cmd, conn, runing, mutex, callerVars, reading, timer, stream_id, stream, refused>>

\* It returns NULL then, and when it cannot make a connection.
connect_null ==
  /\ At("connect", "null")
  /\ UNCHANGED <<blockVars, callerVars, reading, timer, connVars>>

connect_assign ==
  /\ \/ At("made", "connected") /\ conn' = made
     \/ At("null", "connected") /\ conn' = 0
  /\ UNCHANGED <<cmd, status, runing, mutex, callerVars, reading, timer, connVars>>

\* CLOSE hands the handle to lsquic_conn_close and forgets it.  The handle of
\* a destroyed connection is a dangling pointer: the program is undefined.
contrl_close ==
  /\ reading = "CLOSE"
  /\ \/ /\ conn = 0
        /\ At("switch", "end")
        /\ status' = "CLOSE"
        /\ UNCHANGED <<conn, life>>
     \/ /\ conn # 0 /\ life[conn] = "gone"
        /\ At("switch", "undefined")
        /\ UNCHANGED <<status, conn, life>>
     \/ /\ conn # 0 /\ life[conn] # "gone"
        /\ At("switch", "end")
        /\ life' = IF Hashed(conn) THEN [life EXCEPT ![conn] = "closing"] ELSE life
        /\ conn' = 0
        /\ UNCHANGED status
  /\ UNCHANGED <<cmd, runing, mutex, callerVars, reading, timer, stream_id, stream, made, refused>>

\* The end of contrl_func.
contrl_unlock ==
  /\ At("end", "timer")
  /\ cmd' = "NONE"
  /\ mutex' = Nobody
  /\ reading' = "NONE"
  /\ UNCHANGED <<status, conn, runing, callerVars, timer, connVars>>

\* timer_handler: the event is not persistent.
timer_handler ==
  /\ timer
  /\ timer' = FALSE
  /\ At("timer", IF runing THEN "process_timer" ELSE "net")
  /\ UNCHANGED <<blockVars, callerVars, reading, connVars>>

timer_not_due ==
  /\ At("timer", "net")
  /\ UNCHANGED <<blockVars, callerVars, reading, timer, connVars>>

\* client_read_net_data: a packet has come, or none has.
client_read_net_data ==
  /\ \/ At("net", "process_net")
     \/ At("net", "contrl")
  /\ UNCHANGED <<blockVars, callerVars, reading, timer, connVars>>

\* on_conn_closed; the handle is left as it is.  The mistakes: the numbers of
\* streams go on; the status stays.
on_conn_closed_counting(n) ==
  /\ life' = [life EXCEPT ![n] = "gone"]
  /\ status' = "CLOSE"
  /\ UNCHANGED stream_id

on_conn_closed_silent(n) ==
  /\ life' = [life EXCEPT ![n] = "gone"]
  /\ stream_id' = 0
  /\ UNCHANGED status

on_conn_closed(n) ==
  /\ life' = [life EXCEPT ![n] = "gone"]
  /\ stream_id' = 0
  /\ status' = "CLOSE"

\* What lsquic_engine_process_conns may do to a connection: destroy it (it was
\* closed by either side, it failed or it timed out), close it but keep it
\* for a packet the socket has refused, or, the handshake done, open the
\* stream on_new_conn has asked for.
Destroy(n) ==
  /\ Alive(n)
  /\ on_conn_closed(n)
  /\ UNCHANGED <<stream, refused>>

LeaveUnsent(n) ==
  /\ Hashed(n)
  /\ life' = [life EXCEPT ![n] = "unsent"]
  /\ refused' = TRUE
  /\ UNCHANGED <<status, stream_id, stream>>

OpenStream(n) ==
  /\ Hashed(n)
  /\ stream[n] = NoStream
  /\ stream' = [stream EXCEPT ![n] = stream_id]
  /\ stream_id' = stream_id + 1
  /\ UNCHANGED <<status, life, refused>>

\* The end of client_process_conns: the engine asks for another tick as long
\* as it has a connection.  The mistake: only a new connection arms the timer.
ArmTimer_once ==
  timer' = (timer \/ (runing /\ epc = "connected"))

ArmTimer ==
  timer' = (timer \/ (runing /\ \E n \in Conns : Alive(n)'))

Processed ==
  \/ At("connected", "end") \/ At("process_timer", "net") \/ At("process_net", "contrl")

ProcessNothing ==
  Processed /\ UNCHANGED <<status, stream_id, life, stream, refused>>

ProcessDestroy(n) == Processed /\ Destroy(n)

ProcessOther(n) == Processed /\ (LeaveUnsent(n) \/ OpenStream(n))

client_process_conns ==
  /\ \/ ProcessNothing
     \/ \E n \in Conns : ProcessDestroy(n) \/ ProcessOther(n)
  /\ ArmTimer
  /\ UNCHANGED <<cmd, conn, runing, mutex, callerVars, reading, made>>

contrl_func ==
  \/ contrl_lock
  \/ contrl_none \/ contrl_start \/ contrl_connect \/ contrl_close
  \/ connect_made \/ connect_null \/ connect_assign
  \/ contrl_unlock

EngineThread ==
  \/ make_client_ctx
  \/ contrl_func
  \/ timer_handler \/ timer_not_due \/ client_read_net_data
  \/ client_process_conns

Next ==
  \/ quic_run
  \/ \E c \in Callers : Caller(c)
  \/ EngineThread

Spec == Init /\ [][Next]_vars

\* The engine thread runs; a timer that is armed fires; a connection that is
\* closed is destroyed when the engine processes it often enough, by the idle
\* timeout at the latest.
Fairness ==
  /\ WF_vars(EngineThread)
  /\ SF_vars(timer_handler)
  /\ \A n \in Conns : SF_vars(client_process_conns /\ Closed(n) /\ life'[n] = "gone")

FairSpec == Spec /\ Fairness

-------------------------------------------------------------------------------
(* Properties.                                                             *)

Critical == {"switch", "start", "connect", "made", "null", "connected", "end"}
Processing == {"made", "null", "connected", "process_timer", "process_net"}

TypeOK ==
  /\ cmd \in Commands /\ status \in Statuses /\ conn \in 0..MaxConns
  /\ runing \in BOOLEAN /\ mutex \in {Nobody, Engine}
  /\ pc \in [Callers -> {"new", "idle", "ask", "post", "wait", "clock"}]
  /\ call \in [Callers -> DOMAIN Awaited \cup {"none"}]
  /\ epc \in Critical \cup {"off", "starting", "contrl", "timer", "net",
                            "process_timer", "process_net", "undefined"}
  /\ reading \in Commands /\ timer \in BOOLEAN
  /\ stream_id \in Nat /\ made \in 0..MaxConns /\ refused \in BOOLEAN
  /\ life \in [Conns -> Lives]
  /\ stream \in [Conns -> Nat \cup {NoStream}]

\* The mutex is the engine thread's exactly in contrl_func (and for good when
\* the program is undefined), and the command it acts on stays in the slot.
SectionInv ==
  /\ mutex = Engine <=> epc \in Critical \cup {"undefined"}
  /\ epc \in Critical => reading = cmd
  /\ epc = "start" => reading = "START"
  /\ epc \in {"connect", "made", "null", "connected"} => reading = "CONNECT"
  /\ epc = "undefined" => reading = "CLOSE" /\ cmd = "CLOSE"

\* Before the engine thread has run nothing has happened, and START is over
\* before anything else is asked for.
StartInv ==
  /\ pc[Main] = "new" <=> epc = "off"
  /\ epc = "off" => cmd = "NONE"
  /\ epc \in {"off", "starting"} => status = "NONE" /\ made = 0
  /\ cmd = "START" => made = 0

CallInv ==
  \A c \in Callers :
    /\ call[c] = "run" => c = Main /\ pc[c] \in {"new", "wait", "clock"}
    /\ pc[c] = "new" => call[c] = "run"
    /\ call[c] = "none" <=> pc[c] = "idle"
    /\ call[c] \in {"connect", "close"} => call[Main] # "run"

BirthInv == \A n \in Conns : life[n] = "unborn" <=> n > made

BaseInv == TypeOK /\ SectionInv /\ StartInv /\ CallInv /\ BirthInv

\* Connections are made one at a time: only the last can be alive.
LifeInv ==
  /\ \A n \in Conns : n < made => life[n] = "gone"
  /\ \A n \in Conns : life[n] # "unsent"

\* The status tells whether there is a connection: it is STATUS_CONNECTED as
\* long as one is open, and never when all are gone.
StatusInv ==
  /\ \A n \in Conns : life[n] = "open" => status = "CONNECTED"
  /\ status = "CONNECTED" => \E n \in Conns : Alive(n)

\* The handle names a connection that is open, or one that is gone.
HandleInv ==
  /\ \A n \in Conns : life[n] = "open" => conn = n \/ (epc = "made" /\ n = made)
  /\ \A n \in Conns : conn = n => life[n] \in {"open", "gone"}
  /\ epc = "made" => made \in Conns /\ life[made] = "open"
  /\ epc \in {"connect", "null"} => status # "CONNECTED"

\* A stream is opened with the number 0: the engine has at most one
\* connection, and on_conn_closed resets the counter.
StreamInv ==
  /\ \A n \in Conns : stream[n] \in {NoStream, 0}
  /\ \A n \in Conns : Alive(n) /\ stream[n] = NoStream => stream_id = 0
  /\ (\A n \in Conns : ~Alive(n)) => stream_id = 0
  /\ \A n \in Conns : life[n] = "unborn" => stream[n] = NoStream

\* What holds of the connections as long as the socket has taken the last
\* packet of each: a connection that waits for the socket is out of the hash,
\* so another can be made beside it, whose status and number it then spoils.
ConnInv == LifeInv /\ StatusInv /\ HandleInv /\ StreamInv

\* The engine has been told to run before it is given a connection, unless
\* quic_run gave up and the program went on.
RuningInv ==
  /\ status # "NONE" => runing \/ epc = "start"
  /\ call[Main] # "run" => status # "NONE"
  /\ cmd \in {"CONNECT", "CLOSE"} => runing
  /\ made > 0 => runing

QuicInv == BaseInv /\ (refused \/ ConnInv) /\ RuningInv

\* quic_interface_v2.c 550-563: no connection is out of the program's reach:
\* while one is open the control block holds its handle, whatever the
\* callers ask for and in which order.
OpenIsHeld ==
  ~refused /\ mutex # Engine => \A n \in Conns : life[n] = "open" => conn = n

\* quic_interface_v2.c 501-535, 559-563: a connection that exists has a tick to
\* come.  CLOSE does not process the connections and the timer's event is not
\* persistent, so this rests on every processing having armed it.
TickToCome ==
  (\E n \in Conns : Alive(n)) => timer \/ epc \in Processing

\* quic_interface_v2.c 91, 216, 250-258: a stream finds the queue its number
\* stands for, though one counter numbers the streams of all connections.
StreamHasQueue ==
  ~refused => \A n \in Conns : stream[n] < MAX_STREAM_COUNT

\* quic_interface_v2.c 546-581, 760-779: contrl_func clears the slot of the
\* command it has acted on, never of one a caller has put there meanwhile.
NoCommandErased ==
  [][cmd # "NONE" /\ cmd' = "NONE" => cmd = reading]_vars

\* quic_interface_v2.c 749-790: quic_connect returns 1 only while there is a
\* connection (possibly one that is closing); quic_close only while none is
\* open.
AnswersHold ==
  [][\A c \in Callers :
       ~refused /\ pc[c] \in {"ask", "wait"} /\ pc'[c] = "idle" =>
         /\ call[c] = "connect" => \E n \in Conns : Alive(n)
         /\ call[c] = "close" => \A n \in Conns : life[n] # "open"]_vars

\* quic_interface_v2.c 559-563: a connection the program has closed is
\* destroyed, though CLOSE leaves the work to a later tick, unless the engine
\* thread has come to grief.
CloseCompletes ==
  \A n \in Conns : Closed(n) ~> life[n] = "gone" \/ epc = "undefined"

\* lsquic_engine.c 157-182: "The idea is to destroy the connection when it is
\* no longer referenced."  The control block refers to a destroyed one.
DestroyedUnreferenced ==
  conn # 0 => life[conn] # "gone"

===============================================================================
