-------------------------------- MODULE Delivery --------------------------------
(***************************************************************************)
(* One connection's packets on their way: the tick of the full connection  *)
(* (ietf_full_conn_ci_tick), the engine that sends what the tick scheduled *)
(* (send_packets_out and send_batch), and a network that loses, delays and *)
(* reorders packets and acknowledgements as it likes.  The peer is honest: *)
(* it acknowledges numbers that were sent.                                 *)
(***************************************************************************)
EXTENDS SendCtl

CONSTANTS
  MaxPackno,    \* bound: the largest number the model schedules
  Window        \* packets the congestion window allows to be out

ASSUME DeliveryAssumption == MaxPackno \in Nat /\ Window \in Nat

VARIABLES
  phase,      \* where the engine is
  wire,       \* the numbers that left the host
  told,       \* the data in packets an ACK has named
  fresh,      \* data the streams have not written yet
  reset       \* data of streams the peer has reset

vars == <<ctl, phase, wire, told, fresh, reset>>

Phases == {"idle", "fill", "take", "send", "dead"}

Init ==
  /\ SendInit
  /\ phase = "idle"
  /\ wire = {}
  /\ told = {} /\ fresh = Data /\ reset = {}

\* lsquic_send_ctl_can_send: the window is counted in packets; the pacer may
\* end the writing of a tick at any moment.
can_send == ctl.n_scheduled + ctl.n_in_flight_all < Window
RoomToNumber(c) == next_packno(c) <= MaxPackno

-------------------------------------------------------------------------------
(* Between two ticks: what packets that come in do.                        *)

\* An ACK with the numbers S; `old` and `rand` are the clock's and the
\* random generator's part in it.
GotAck(S, old, rand) ==
  /\ phase = "idle"
  /\ \/ AckAccepted(ctl, S) /\ phase' = phase /\ ctl' = got_ack(ctl, S, old, rand)
     \/ ~AckAccepted(ctl, S) /\ phase' = "dead" /\ ctl' = ctl
  /\ told' = told \cup ({p.item : p \in {p \in Range(ctl.unacked) : p.no \in S}} \ {Nothing})
  /\ UNCHANGED <<wire, fresh, reset>>

\* The peer resets the stream of a datum.
StreamReset(d) ==
  /\ phase = "idle"
  /\ d \notin reset
  /\ reset' = reset \cup {d}
  /\ fresh' = fresh \ {d}
  /\ ctl' = elide(ctl, d)
  /\ UNCHANGED <<phase, wire, told>>

-------------------------------------------------------------------------------
(* The tick.                                                               *)

\* lsquic_alarmset_ring_expired, lsquic_send_ctl_maybe_squeeze_sched and the
\* ACK.  Delayed packets are sent before anything else is written.
TickAfterAlarms(c, ack) ==
  LET c1 == squeeze_sched(c)
      c2 == IF ack THEN schedule_ack(c1) ELSE c1
  IN  /\ ctl' = c2
      /\ ack => \A p \in Range(c2.sched) : p.no <= MaxPackno
      /\ phase' = IF c1.sched = <<>> THEN "fill" ELSE "take"
      /\ UNCHANGED <<wire, told, fresh, reset>>

Tick(ack) == phase = "idle" /\ TickAfterAlarms(ctl, ack)

TickAndRing(ack, old, long) ==
  /\ phase = "idle"
  /\ ctl.retx_alarm
  /\ TickAfterAlarms(retx_alarm_rings(ctl, old, long), ack)

\* A tick that ends before the squeezing because the pacer blocks it.
TickPaced(old, long) ==
  /\ phase = "idle"
  /\ ctl.retx_alarm
  /\ ctl' = retx_alarm_rings(ctl, old, long)
  /\ phase' = "take"
  /\ UNCHANGED <<wire, told, fresh, reset>>

\* An MTU probe is made before the lost packets are looked at.
ScheduleProbe ==
  /\ phase = "fill"
  /\ can_send /\ RoomToNumber(ctl)
  /\ \A p \in Range(ctl.sched) : p.kind = "ack"
  /\ \A p \in Range(ctl.unacked) : p.kind # "probe"
  /\ ctl' = schedule_new(ctl, "probe", Nothing)
  /\ UNCHANGED <<phase, wire, told, fresh, reset>>

Reschedule ==
  /\ phase = "fill"
  /\ ctl.lost # <<>>
  /\ \/ Head(ctl.lost).item \in reset /\ ctl' = drop_lost(ctl)
     \/ /\ Head(ctl.lost).item \notin reset
        /\ can_send /\ RoomToNumber(ctl)
        /\ ctl' = reschedule(ctl)
  /\ UNCHANGED <<phase, wire, told, fresh, reset>>

\* A stream writes: into the last packet when that has room, else into a new
\* one.
Write(d) ==
  /\ phase = "fill"
  /\ ctl.lost = <<>>
  /\ d \in fresh
  /\ fresh' = fresh \ {d}
  /\ \/ /\ ctl.sched # <<>> /\ ctl.sched[Len(ctl.sched)].kind = "ack"
        /\ ctl' = [ctl EXCEPT !.sched[Len(ctl.sched)] = [@ EXCEPT !.kind = "data", !.item = d]]
     \/ /\ can_send /\ RoomToNumber(ctl)
        /\ ctl' = schedule_new(ctl, "data", d)
  /\ UNCHANGED <<phase, wire, told, reset>>

\* The rest of the tick, when nothing more can or need be written.
TickEnds ==
  /\ phase = "fill"
  /\ ctl.lost # <<>> => Head(ctl.lost).item \notin reset
  /\ phase' = "take"
  /\ UNCHANGED <<ctl, wire, told, fresh, reset>>

-------------------------------------------------------------------------------
(* The engine sends.                                                       *)

\* A packet goes into the batch.
Take(calm) ==
  LET c == CalmDown(DropStale(ctl), calm) IN
  /\ phase = "take"
  /\ calm => ctl.n_consec_rtos > 0 /\ ctl.sent_since
  /\ c.sched # <<>> /\ ~SchedBlocked(c)
  /\ Head(c.sched).repack => RoomToNumber(c)
  /\ ctl' = take_packet(c)
  /\ UNCHANGED <<phase, wire, told, fresh, reset>>

\* The batch is full, or there is nothing to add to it.
Batched ==
  /\ phase = "take"
  /\ phase' = IF ctl.batch = <<>> THEN "idle" ELSE "send"
  /\ ctl' = IF SchedBlocked(DropStale(ctl)) \/ DropStale(ctl).sched = <<>> THEN DropStale(ctl) ELSE ctl
  /\ UNCHANGED <<wire, told, fresh, reset>>

\* The next packet of the batch leaves the host.
Send ==
  /\ phase = "send"
  /\ ctl.batch # <<>>
  /\ LET p == Head(ctl.batch) IN
       /\ ctl' = sent_packet([ctl EXCEPT !.batch = Tail(@)], p)
       /\ wire' = wire \cup {p.no}
  /\ UNCHANGED <<phase, told, fresh, reset>>

\* ci_packet_too_large: a probe that does not fit takes its number with it.
TooLarge ==
  /\ phase = "send"
  /\ ctl.batch # <<>> /\ Head(ctl.batch).kind = "probe"
  /\ LET p == Head(ctl.batch)
         c == [ctl EXCEPT !.batch = Tail(@)]
     IN  ctl' = add_senhist(update_poison_hist(c, p.no), p.no)
  /\ UNCHANGED <<phase, wire, told, fresh, reset>>

\* The send stops: what is left of the batch is given back from its end.
Delay ==
  /\ phase = "send"
  /\ ctl' = delayed(ctl)
  /\ phase' = "idle"
  /\ UNCHANGED <<wire, told, fresh, reset>>

\* The engine sends what is scheduled without a tick.
SendUnsent ==
  /\ phase = "idle"
  /\ ctl.sched # <<>>
  /\ phase' = "take"
  /\ UNCHANGED <<ctl, wire, told, fresh, reset>>

\* What an ACK may name: any of the packets still in flight or recorded, with
\* or without the numbers that are settled.
Unacked == {p.no : p \in {p \in Range(ctl.unacked) : p.kind # "poison"}}
AckSets ==
  {S \cup T : S \in SUBSET (Unacked \cap wire), T \in {{}, wire \ Unacked}} \ {{}}

\* The round trip ends after one of the packets in flight, or before all.
Older == {0} \cup Unacked

Next ==
  \/ \E S \in AckSets, old \in Older, rand \in Gaps : GotAck(S, old, rand)
  \/ \E d \in Data : StreamReset(d) \/ Write(d)
  \/ \E ack \in BOOLEAN : Tick(ack)
  \/ \E ack \in BOOLEAN, old \in Older, long \in BOOLEAN : TickAndRing(ack, old, long)
  \/ \E old \in Older, long \in BOOLEAN : TickPaced(old, long)
  \/ ScheduleProbe \/ Reschedule \/ TickEnds
  \/ \E calm \in BOOLEAN : Take(calm)
  \/ Batched \/ Send \/ TooLarge \/ Delay \/ SendUnsent

Spec == Init /\ [][Next]_vars

-------------------------------------------------------------------------------
(* Properties.                                                             *)

\* The asserts of lsquic_send_ctl_do_sanity_check (lsquic_send_ctl.c 1866-1911)
\* and types: the counters are what the queues hold, and the unacked packets
\* are in the order of their numbers, on which the walks of got_ack and
\* detect_losses rely to stop early.
Sane ==
  /\ \A q \in {ctl.sched, ctl.unacked, ctl.lost, ctl.batch} : q \in Seq(Packet)
  /\ ctl.n_scheduled = Len(ctl.sched)
  /\ ctl.n_in_flight_all = Cardinality(RealOf(ctl))
  /\ ctl.n_in_flight_retx = Cardinality(RetxOf(ctl))
  /\ \A i, j \in DOMAIN ctl.unacked : i < j => ctl.unacked[i].no < ctl.unacked[j].no
  /\ phase \in Phases

\* A datum is in one packet of one queue until it is acknowledged or its
\* stream reset; it is acknowledged once, and only when a packet that carried
\* it was, by its number of then or a later one; no loss record outlives the
\* packet it is chained to (send_ctl_process_loss_chain_pkt and its callers,
\* lsquic_send_ctl.c 866-969).
NothingLost ==
  \A d \in Data :
    LET n == Cardinality(Places(ctl, d)) IN
    /\ d \in fresh => n = 0
    /\ ctl.released[d] <= (IF d \in told THEN 1 ELSE 0)
    /\ d \notin fresh \cup reset => n = 1 - ctl.released[d]
    /\ n <= 1 - ctl.released[d]
    /\ n = 0 => \A p \in Range(ctl.unacked) : p.item # d

\* While a retransmittable packet is in flight the alarm that declares it
\* lost is set, whoever set it last: the sending of a packet, an ACK or the
\* alarm itself (lsquic_send_ctl.c 309-313, 744-751, 1406-1418).
AlarmArmed == RetxOf(ctl) # {} => ctl.retx_alarm

\* "there is never a gap in the packet number sequence we generate"
\* (lsquic_senhist.h 5-7): the numbers about to be sent continue the numbers
\* that were, whatever was dropped, acknowledged or delayed in between; none
\* is skipped but the poisoned one and none is used twice.
NoGapInNumbers ==
  LET After(n) == IF n + 1 = ctl.gap THEN n + 2 ELSE n + 1 IN
  phase = "send" =>
    \A i \in DOMAIN ctl.batch :
      ctl.batch[i].no = After(IF i = 1 THEN ctl.senhist ELSE ctl.batch[i - 1].no)

\* An honest peer's ACK is never taken for an attack: what it names was sent
\* and is never the poisoned number (lsquic_send_ctl.c 640-713, 1270-1278).
HonestAckAccepted == phase # "dead"
-------------------------------------------------------------------------------
(* The inductive invariant on which these rest, in parts that name what    *)
(* each function of the controller keeps.                                  *)

CtlFields ==
  {"sched", "unacked", "lost", "batch", "n_scheduled", "n_in_flight_all", "n_in_flight_retx",
   "cur_packno", "senhist", "gap", "retx_alarm", "loss_to", "n_tlp", "n_consec_rtos", "next_limit",
   "sent_since", "largest_acked", "reord_thresh", "acked_1rtt", "released"}

Typed(c) ==
  /\ DOMAIN c = CtlFields
  /\ c.sched \in Seq(Packet) /\ c.unacked \in Seq(Packet)
  /\ c.lost \in Seq(Packet) /\ c.batch \in Seq(Packet)
  /\ c.cur_packno \in Int /\ c.senhist \in Nat /\ c.gap \in Nat
  /\ c.released \in [Data -> Nat]

Counted(c) ==
  /\ c.n_scheduled = Len(c.sched)
  /\ c.n_in_flight_all = Cardinality(RealOf(c))
  /\ c.n_in_flight_retx = Cardinality(RetxOf(c))

\* What is on which queue.
ToSend(q) ==
  \A i \in DOMAIN q : q[i].kind \in {"data", "ack", "probe"} /\ (Retx(q[i]) <=> q[i].item \in Data)
Sorted(c) ==
  /\ ToSend(c.sched) /\ ToSend(c.batch)
  /\ \A i \in DOMAIN c.lost : Retx(c.lost[i]) /\ c.lost[i].item \in Data
  /\ \A i \in DOMAIN c.unacked : c.unacked[i].kind \in {"data", "rec"} <=> c.unacked[i].item \in Data

\* The unacked packets were sent, in the order of their numbers; the number of
\* the gap is the poisoned packet's alone.
InOrder(c) ==
  /\ \A i, j \in DOMAIN c.unacked : i < j => c.unacked[i].no < c.unacked[j].no
  /\ \A i \in DOMAIN c.unacked : /\ c.unacked[i].no <= c.senhist
                                 /\ c.unacked[i].kind = "poison" => c.unacked[i].no = c.gap
  /\ c.senhist # c.gap

\* The i-th number after those that were sent.
Nth(c, i) ==
  IF c.senhist < c.gap /\ c.gap <= c.senhist + i THEN c.senhist + i + 1 ELSE c.senhist + i

\* The numbers of the batch and of the scheduled packets that are not given
\* another continue the numbers that were sent, and so will the next one.
Numbered(c) ==
  /\ \A i \in DOMAIN c.batch : ~c.batch[i].repack /\ c.batch[i].no = Nth(c, i)
  /\ \E k \in 0..Len(c.sched) :
       /\ \A i \in DOMAIN c.sched : IF i <= k THEN ~c.sched[i].repack /\ c.sched[i].no = Nth(c, Len(c.batch) + i)
                                    ELSE c.sched[i].repack
       /\ \/ c.cur_packno = Nth(c, Len(c.batch) + k)
          \/ c.cur_packno = c.gap /\ Nth(c, Len(c.batch) + k) = c.gap - 1

\* A datum is in one place, and in none once it is acknowledged.
Once(c, d) ==
  /\ \A x, y \in Places(c, d) : x = y
  /\ c.released[d] = 0 \/ (c.released[d] = 1 /\ Places(c, d) = {})

\* It has records only while it is in a place, and not before its first
\* transmission, the only one that can share a packet with an ACK.
Recorded(c, d) ==
  /\ Places(c, d) = {} => ItemsAt(c.unacked, {d}) = {}
  /\ \A i \in DatumAt(c.sched, d) : c.sched[i].ack => ItemsAt(c.unacked, {d}) = {}
  /\ \A i \in DatumAt(c.batch, d) : c.batch[i].ack => ItemsAt(c.unacked, {d}) = {}

Good(c) ==
  /\ Typed(c) /\ Counted(c) /\ Sorted(c) /\ InOrder(c) /\ Numbered(c)
  /\ \A d \in Data : Once(c, d) /\ Recorded(c, d)

\* Where the connection is in a tick, and what the streams and the peer know.
DeliveryInv ==
  /\ Good(ctl)
  /\ phase \in Phases \ {"dead"}
  /\ phase \in {"idle", "fill"} => ctl.batch = <<>>
  /\ phase = "fill" => \A i \in DOMAIN ctl.sched : ~ctl.sched[i].repack
  /\ AlarmArmed
  /\ \A n \in wire : n \in Nat /\ n <= ctl.senhist /\ n # ctl.gap
  /\ \A d \in Data :
       /\ ctl.released[d] = 1 => d \in told
       /\ d \in fresh => Places(ctl, d) = {} /\ ctl.released[d] = 0
       /\ (d \notin fresh \cup reset /\ Places(ctl, d) = {}) => ctl.released[d] = 1
================================================================================
