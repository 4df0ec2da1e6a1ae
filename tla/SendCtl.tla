-------------------------------- MODULE SendCtl --------------------------------
(***************************************************************************)
(* The send controller of one lsquic connection after its handshake: which *)
(* packets are scheduled, which are sent and not acknowledged, which are   *)
(* thought lost, and what number each packet has.  The module is the state *)
(* of the controller and, as operators on it, what its functions do;       *)
(* Delivery puts them in the order of the connection's tick.               *)
(*                                                                         *)
(* A packet carries one datum (a retransmittable frame), only frames that  *)
(* are made anew when it is sent late (an ACK), or an MTU probe.  All      *)
(* packets are one unit long, so counting them is counting their bytes.    *)
(* One packet number space is in use; times appear as what they decide.    *)
(* A loop over a queue is written by the places it visits and what it      *)
(* makes of the packets there.                                             *)
(***************************************************************************)
EXTENDS Integers, Sequences, FiniteSets, Functions

CONSTANTS
  Data,                 \* the retransmittable frames the streams hand over
  Nothing,              \* what a packet without such a frame carries
  Gaps,                 \* the random bytes begin_optack_detection may draw
  N_NACKS_BEFORE_RETX   \* the reordering threshold at the start

ASSUME SendAssumption ==
  /\ Nothing \notin Data
  /\ Gaps \subseteq 0..255
  /\ N_NACKS_BEFORE_RETX \in Nat

VARIABLE ctl

\* A packet, a loss record ("rec") or the poisoned packet, as it is queued.
Packet == [no : Nat, kind : {"data", "ack", "probe", "rec", "poison"},
           item : Data \cup {Nothing}, ack : BOOLEAN, repack : BOOLEAN,
           limited : BOOLEAN, facked : BOOLEAN]

NewPacket(no, kind, item) ==
  [no |-> no, kind |-> kind, item |-> item, ack |-> kind = "ack",
   repack |-> FALSE, limited |-> FALSE, facked |-> FALSE]

\* begin_optack_detection: a number a little ahead will never be sent.
NewGap(cur, rand) == cur + 1 + rand

SendInit ==
  \E rand \in Gaps :
    ctl = [sched |-> <<>>, unacked |-> <<>>, lost |-> <<>>, batch |-> <<>>,
           n_scheduled |-> 0, n_in_flight_all |-> 0, n_in_flight_retx |-> 0,
           cur_packno |-> 0, senhist |-> 0, gap |-> NewGap(0, rand),
           retx_alarm |-> FALSE, loss_to |-> FALSE, n_tlp |-> 0,
           n_consec_rtos |-> 0, next_limit |-> 0, sent_since |-> FALSE,
           largest_acked |-> 0, reord_thresh |-> N_NACKS_BEFORE_RETX,
           acked_1rtt |-> FALSE, released |-> [d \in Data |-> 0]]

-------------------------------------------------------------------------------
(* Packets and queues.                                                     *)

MaxOf(S) == CHOOSE n \in S : \A m \in S : m <= n
MinOf(S) == CHOOSE n \in S : \A m \in S : n <= m

\* The packets of a queue at the places K, in their order: what a loop that
\* tests every packet keeps.
Select(q, K) ==
  [j \in 1..Cardinality(K) |-> q[CHOOSE i \in K : Cardinality({k \in K : k <= i}) = j]]

Retx(p) == p.kind = "data"                    \* po_frame_types & sc_retx_frames
Real(p) == p.kind \notin {"rec", "poison"}    \* neither PO_LOSS_REC nor PO_POISON

\* The places a loop that stops at the first number above n visits.
Upto(q, n) == {i \in DOMAIN q : \A j \in 1..i : q[j].no <= n}

RealOf(c) == {i \in DOMAIN c.unacked : Real(c.unacked[i])}
RetxOf(c) == {i \in DOMAIN c.unacked : Retx(c.unacked[i])}

\* send_ctl_next_packno passes over the gap.  (Mistake: it does not.)
next_packno_over(c) == c.cur_packno + 1
next_packno(c) == IF c.cur_packno + 1 = c.gap THEN c.cur_packno + 2 ELSE c.cur_packno + 1

sched_append(c, p) == [c EXCEPT !.sched = Append(@, p), !.n_scheduled = @ + 1]
sched_prepend(c, p) == [c EXCEPT !.sched = <<p>> \o @, !.n_scheduled = @ + 1]

\* The packets at the places K leave the scheduled queue.  (Mistake: they
\* are still counted.)
sched_remove_uncounted(c, K) == [c EXCEPT !.sched = Select(@, DOMAIN @ \ K)]
sched_remove(c, K) ==
  [c EXCEPT !.sched = Select(@, DOMAIN @ \ K), !.n_scheduled = @ - Cardinality(K)]

unacked_append(c, p) ==
  [c EXCEPT !.unacked = Append(@, p), !.n_in_flight_all = @ + 1,
            !.n_in_flight_retx = @ + (IF Retx(p) THEN 1 ELSE 0)]

\* The packets at the places K leave the unacked queue; records are not
\* counted.
unacked_remove(c, K) ==
  [c EXCEPT !.unacked = Select(@, DOMAIN @ \ K),
            !.n_in_flight_all = @ - Cardinality(K \cap RealOf(c)),
            !.n_in_flight_retx = @ - Cardinality(K \cap RetxOf(c))]

-------------------------------------------------------------------------------
(* The loss chain: a packet and the records of its earlier transmissions,  *)
(* here everything with the packet's datum.                                *)

ItemsAt(q, D) == {i \in DOMAIN q : q[i].item \in D}

\* Where a datum is to be sent, in flight or waiting: all but the records.
DatumAt(q, d) == {i \in DOMAIN q : Retx(q[i]) /\ q[i].item = d}
Places(c, d) ==
       {<<"sched", i>> : i \in DatumAt(c.sched, d)} \cup {<<"batch", i>> : i \in DatumAt(c.batch, d)}
  \cup {<<"unacked", i>> : i \in DatumAt(c.unacked, d)} \cup {<<"lost", i>> : i \in DatumAt(c.lost, d)}

\* The scheduled packets at K are about to go: the numbers to the right of
\* the first that has one move down.
renumber_to_right(c, K) ==
  LET numbered == {i \in K : ~c.sched[i].repack} IN
  IF numbered = {} THEN c
  ELSE [c EXCEPT !.cur_packno = c.sched[MinOf(numbered)].no - 1,
                 !.sched = [i \in DOMAIN @ |-> IF i > MinOf(numbered)
                                               THEN [@[i] EXCEPT !.repack = TRUE] ELSE @[i]]]

\* destroy_chain and process_loss_chain_pkt for the chains of the data D: each
\* member leaves the queue it is on, and its frames are acknowledged to their
\* streams unless it is a record.  (Mistake: the records stay on the queue.)
destroy_chains_partly(c, D) ==
  LET c1 == sched_remove(renumber_to_right(c, ItemsAt(c.sched, D)), ItemsAt(c.sched, D))
      c2 == unacked_remove(c1, ItemsAt(c.unacked, D) \cap RealOf(c))
  IN  [c2 EXCEPT !.lost = Select(@, DOMAIN @ \ ItemsAt(@, D)),
                 !.released = [d \in Data |-> @[d] + (IF d \in D THEN Cardinality(Places(c, d)) ELSE 0)]]

destroy_chains(c, D) ==
  LET c1 == sched_remove(renumber_to_right(c, ItemsAt(c.sched, D)), ItemsAt(c.sched, D))
      c2 == unacked_remove(c1, ItemsAt(c.unacked, D))
  IN  [c2 EXCEPT !.lost = Select(@, DOMAIN @ \ ItemsAt(@, D)),
                 !.released = [d \in Data |-> @[d] + (IF d \in D THEN Cardinality(Places(c, d)) ELSE 0)]]

-------------------------------------------------------------------------------
(* Loss.                                                                   *)

\* handle_regular_lost_packet and handle_lost_mtu_probe for the packets at the
\* places L of the unacked queue: a retransmittable packet leaves a record in
\* its place, marked if it is in `facked`, and goes to the lost queue; another
\* has no chain and is forgotten.
handle_lost(c, L, facked) ==
  LET retx == L \cap RetxOf(c)
      c1 == [c EXCEPT
               !.unacked = [i \in DOMAIN @ |->
                              IF i \in retx
                              THEN [@[i] EXCEPT !.kind = "rec", !.ack = FALSE, !.facked = i \in facked]
                              ELSE @[i]],
               !.lost = @ \o Select(c.unacked, retx),
               !.n_in_flight_all = @ - Cardinality(retx),
               !.n_in_flight_retx = @ - Cardinality(retx)]
  IN  unacked_remove(c1, L \ retx)

\* send_ctl_detect_losses.  `old` is the largest number that was sent more
\* than a round trip before the largest acknowledged packet.
detect_losses(c, old) ==
  LET No(i) == c.unacked[i].no
      seen == Upto(c.unacked, c.largest_acked) \cap RealOf(c)
      far == {i \in seen : No(i) + c.reord_thresh < c.largest_acked}
      early == {i \in (seen \cap RetxOf(c)) \ far : \A j \in RetxOf(c) : No(j) <= c.largest_acked}
      late == {i \in seen : No(i) <= old}
  IN  handle_lost([c EXCEPT !.loss_to = early # {}], far \cup early \cup late, far)

\* send_ctl_expire, for all packets and for the last retransmittable one.
expire_all(c) == handle_lost(c, RealOf(c), {})
expire_last(c) == handle_lost(c, {i \in RetxOf(c) : \A j \in RetxOf(c) : j <= i}, {})

\* What retx_alarm_rings does, once the handshake is done.  `long`: the last
\* expiry of everything is at least a retransmission time-out ago.
Ringing(c, old, long) ==
  IF c.loss_to THEN detect_losses(c, old)
  ELSE IF c.n_tlp < 2 THEN expire_last([c EXCEPT !.n_tlp = @ + 1])
  ELSE IF c.acked_1rtt \/ long
  THEN expire_all([c EXCEPT !.n_consec_rtos = 1, !.next_limit = 2, !.sent_since = FALSE])
  ELSE expire_all(c)

\* The alarm is unset, rings, and is set again for what is still in flight.
\* (Mistake: it is not.)
retx_alarm_rings_once(c, old, long) == Ringing([c EXCEPT !.retx_alarm = FALSE], old, long)

retx_alarm_rings(c, old, long) ==
  LET c1 == Ringing([c EXCEPT !.retx_alarm = FALSE], old, long)
  IN  [c1 EXCEPT !.retx_alarm = RetxOf(c1) # {}]

-------------------------------------------------------------------------------
(* An ACK.                                                                 *)

\* The places of the unacked packets that an ACK of the numbers S names, and
\* of those the loop meets: the chain of an earlier one took the rest away.
Named(c, S) == {i \in Upto(c.unacked, MaxOf(S)) : c.unacked[i].no \in S}
Met(c, S) ==
  {i \in Named(c, S) : \A j \in Named(c, S) :
     c.unacked[j].item = c.unacked[i].item => i <= j \/ c.unacked[i].item = Nothing}

\* The loop of got_ack.  A record that is acknowledged shows a spurious loss,
\* and the threshold grows.
ack_packets(c, S) ==
  LET u == c.unacked
      met == Met(c, S)
      D == {u[i].item : i \in Named(c, S)} \ {Nothing}
      spurious == {i \in met : u[i].kind = "rec" /\ u[i].facked
                               /\ u[i].no + c.reord_thresh < c.largest_acked}
      do_rtt == \/ \E i \in met : u[i].no = MaxOf(S)
                \/ \E q \in {u, c.sched, c.lost} : \E i \in ItemsAt(q, D) : q[i].no = MaxOf(S)
      c1 == [c EXCEPT !.largest_acked = IF met = {} THEN @ ELSE u[MaxOf(met)].no,
                      !.reord_thresh = IF spurious = {} THEN @
                                       ELSE c.largest_acked - u[MinOf(spurious)].no,
                      !.n_consec_rtos = IF do_rtt THEN 0 ELSE @,
                      !.n_tlp = IF do_rtt THEN 0 ELSE @]
  IN  destroy_chains(unacked_remove(c1, {i \in Named(c, S) : u[i].item = Nothing}), D)

\* lsquic_send_ctl_got_ack refuses what was never sent.
AckAccepted(c, S) ==
  MaxOf(S) <= c.senhist /\ \A i \in Named(c, S) : c.unacked[i].kind # "poison"

\* reschedule_poison: an ACK beyond the gap shows an honest peer.
reschedule_poison(c, rand) ==
  LET poison == {i \in DOMAIN c.unacked : c.unacked[i].kind = "poison"} IN
  IF poison = {} THEN c
  ELSE [unacked_remove(c, poison) EXCEPT !.gap = NewGap(c.cur_packno, rand)]

\* An ACK that is accepted.  detect_losses returns whether the largest lost
\* number is above the mark that its own loss event has just moved to the
\* largest number sent, so it returns false, and the alarm is set anew only
\* after a first packet was acknowledged before this ACK.
got_ack(c, S, old, rand) ==
  LET c1 == detect_losses(ack_packets(c, S), old)
      c2 == [c1 EXCEPT !.retx_alarm = RetxOf(c1) # {} /\ (@ \/ c.acked_1rtt),
                       !.acked_1rtt = @ \/ \E i \in Met(c, S) : c.unacked[i].kind # "rec"]
      c3 == IF c.unacked = <<>> THEN c ELSE c2
  IN  IF c.gap < MinOf(S) THEN reschedule_poison(c3, rand) ELSE c3

-------------------------------------------------------------------------------
(* Scheduling and sending.                                                 *)

\* update_for_resending: a new number, and the frames made anew are cut off.
update_for_resending(c, p) ==
  [p EXCEPT !.no = next_packno(c), !.repack = FALSE, !.ack = FALSE]

\* lsquic_send_ctl_new_packet_out and lsquic_send_ctl_scheduled_one.
schedule_new(c, kind, item) ==
  LET no == next_packno(c)
  IN  sched_append([c EXCEPT !.cur_packno = no], NewPacket(no, kind, item))

\* send_ctl_next_lost and lsquic_send_ctl_reschedule_packets, for one packet.
reschedule(c) ==
  LET p == update_for_resending(c, Head(c.lost))
  IN  sched_append([c EXCEPT !.lost = Tail(@), !.cur_packno = p.no], p)

\* A lost packet whose stream was reset is dropped with its records.
drop_lost(c) == destroy_chains([c EXCEPT !.lost = Tail(@)], {Head(c.lost).item})

\* lsquic_send_ctl_reset_packnos.
reset_packnos(c) ==
  [c EXCEPT !.cur_packno = c.senhist,
            !.sched = [i \in DOMAIN @ |-> [@[i] EXCEPT !.repack = TRUE]]]

\* lsquic_send_ctl_squeeze_sched: delayed packets with nothing that must be
\* kept are dropped; they have no chain.  (Mistake: the numbers are not given
\* back.)
AckOnly(c) == {i \in DOMAIN c.sched : c.sched[i].kind = "ack"}
squeeze_keeping_numbers(c) == sched_remove(c, AckOnly(c))
squeeze_sched(c) == IF AckOnly(c) = {} THEN c ELSE reset_packnos(sched_remove(c, AckOnly(c)))

\* generate_ack_frame, with lsquic_send_ctl_reset_packnos before it and
\* lsquic_send_ctl_ack_to_front after it when packets are delayed.
schedule_ack(c) ==
  LET d == IF c.sched = <<>> THEN c ELSE reset_packnos(c)
      no == next_packno(d)
  IN  sched_prepend([d EXCEPT !.cur_packno = no], NewPacket(no, "ack", Nothing))

\* lsquic_send_ctl_elide_stream_frames for a stream with one datum: an ACK
\* in the same packet stays.
elide(c, d) ==
  LET mine == DatumAt(c.sched, d)
      gone == {i \in mine : ~c.sched[i].ack}
      c1 == [c EXCEPT !.sched = [i \in DOMAIN @ |-> IF i \in mine \ gone
                                 THEN [@[i] EXCEPT !.kind = "ack", !.item = Nothing] ELSE @[i]]]
  IN  IF gone = {} THEN c1 ELSE reset_packnos(destroy_chains(sched_remove(c1, gone), {d}))

\* lsquic_send_ctl_next_packet_to_send: stale packets at the head are
\* dropped on the way; `calm` says the wrapper of the time-out counter found
\* that the last packet was sent long after the last time-out.
DropStale(c) ==
  sched_remove(c, {i \in DOMAIN c.sched : \A j \in 1..i : c.sched[j].repack /\ c.sched[j].kind = "ack"})

CalmDown(c, calm) == IF calm THEN [c EXCEPT !.n_consec_rtos = 0] ELSE c

SchedBlocked(c) ==
  c.sched # <<>> /\ ~Head(c.sched).ack /\ c.n_consec_rtos > 0 /\ c.next_limit = 0

take_packet(c) ==
  LET p == Head(c.sched)
      limited == ~p.ack /\ c.n_consec_rtos > 0
      q == [(IF p.repack THEN update_for_resending(c, p) ELSE p) EXCEPT !.limited = limited]
  IN  [c EXCEPT !.sched = Tail(@), !.n_scheduled = @ - 1,
                !.cur_packno = IF p.repack THEN q.no ELSE @,
                !.next_limit = IF limited THEN @ - 1 ELSE @,
                !.batch = Append(@, q)]

\* send_ctl_update_poison_hist: the number after the gap brings the poisoned
\* packet into the unacked queue.
update_poison_hist(c, no) ==
  IF no = c.gap + 1
  THEN [c EXCEPT !.senhist = IF c.gap > @ THEN c.gap ELSE @,
                 !.unacked = Append(@, NewPacket(c.gap, "poison", Nothing))]
  ELSE c

add_senhist(c, no) == [c EXCEPT !.senhist = IF no > @ THEN no ELSE @]

\* lsquic_send_ctl_sent_packet.  What POL_LIMITED says is of no use once the
\* packet is out.
sent_packet(c, p) ==
  LET out == [p EXCEPT !.limited = FALSE]
  IN  [unacked_append(add_senhist(update_poison_hist(c, p.no), p.no), out)
         EXCEPT !.sent_since = TRUE, !.retx_alarm = @ \/ Retx(p)]

\* lsquic_send_ctl_delayed_one for every packet of the batch, from its end.
delayed(c) ==
  [c EXCEPT !.sched = c.batch \o @, !.n_scheduled = @ + Len(c.batch), !.batch = <<>>,
            !.next_limit = @ + Cardinality({i \in DOMAIN c.batch : c.batch[i].limited})]
================================================================================
