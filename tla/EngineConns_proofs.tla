--------------------------- MODULE EngineConns_proofs ---------------------------
(***************************************************************************)
(* The references of an engine's connections are what its queues hold, for *)
(* any number of connections and any order of calls: the invariant ConnsInv of *)
(* EngineConns, one lemma for each action.                                 *)
(***************************************************************************)
EXTENDS EngineConns, FiniteSetTheorems, TLAPS

-------------------------------------------------------------------------------
(* How many connections there are.                                         *)

LEMMA SameCount ==
  ASSUME CountInv, UNCHANGED <<life, n_conns, nalloc>>
  PROVE  CountInv'
BY DEF CountInv, Live, Alive

LEMMA KeepCount ==
  ASSUME TypeOK, CountInv, NEW c \in Conns, Alive(c), NEW kept, Keep(c, kept), nalloc' = nalloc
  PROVE  CountInv'
<1>1. CASE kept = {}
  <2>1. life' = [life EXCEPT ![c] = "gone"] /\ n_conns' = n_conns - 1
    BY <1>1 DEF Keep
  <2>2. Live' = Live \ {c} /\ c \in Live
    BY <2>1 DEF TypeOK, Live, Alive
  <2>3. IsFiniteSet(Live') /\ Cardinality(Live') = Cardinality(Live) - 1
    BY <2>2, FS_RemoveElement DEF CountInv
  <2>4. Cardinality(Live) \in Nat
    BY FS_CardinalityType DEF CountInv
  <2> QED
    BY <2>1, <2>3, <2>4 DEF CountInv, TypeOK
<1>2. CASE kept # {}
  BY <1>2, SameCount DEF Keep
<1> QED
  BY <1>1, <1>2

LEMMA RoomGrows ==
  ASSUME TypeOK, CountInv
  PROVE  Grown \in Int /\ Grown > n_conns /\ n_conns \in Nat
<1>1. n_conns \in Nat
  BY FS_CardinalityType DEF CountInv
<1> QED
  BY <1>1 DEF Grown, TypeOK, CountInv

LEMMA MakeCount ==
  ASSUME TypeOK, CountInv, NEW c \in Conns, life[c] = "unborn", NEW refs, Make(c, refs)
  PROVE  CountInv'
<1>1. Live' = Live \cup {c} /\ c \notin Live
  BY DEF Make, TypeOK, Live, Alive
<1>2. IsFiniteSet(Live') /\ Cardinality(Live') = Cardinality(Live) + 1
  BY <1>1, FS_AddElement DEF CountInv
<1> QED
  BY <1>2, RoomGrows DEF Make, CountInv, TypeOK

LEMMA DiscardCount ==
  ASSUME TypeOK, CountInv, NEW c \in Conns, NEW others, Discard(c, others),
         life' = life, n_conns' = n_conns
  PROVE  CountInv'
BY RoomGrows DEF Discard, CountInv, TypeOK, Live, Alive

LEMMA connect_keeps ==
  ASSUME TypeOK, EngineInv, NEW c \in Conns, connect(c)
  PROVE  EngineInv'
<1> USE DEF TypeOK, EngineInv, Over, engineVars, connVars, queueVars, passVars, sendVars
<1>1. \A d \in Conns : ref'[d] = IF d = c THEN {"HASHED", "TICKABLE"} ELSE ref[d]
  BY DEF connect, Make
<1>3. /\ ref[c] = {}
      /\ c \notin hash \cup out \cup active \cup inactive \cup tickable \cup attq \cup closed \cup ticked \cup immed
  BY DEF connect, AliveIsReferenced, Alive, FlagsAreQueues, ImmedInv
<1>10. FlagsAreQueues'
  BY <1>1, <1>3 DEF connect, Make, FlagsAreQueues
<1>11. AliveIsReferenced'
  BY <1>1, <1>3 DEF connect, Make, AliveIsReferenced, Alive
<1>12. OutgoingInv'
  BY <1>1, <1>3 DEF connect, Make, OutgoingInv
<1>13. PhaseInv'
  BY <1>1, <1>3 DEF connect, Make, PhaseInv
<1>14. TickInv'
  BY <1>1, <1>3 DEF connect, Make, TickInv
<1>15. ImmedInv'
  BY <1>1, <1>3 DEF connect, Make, ImmedInv
<1>16. CountInv'
  BY MakeCount DEF connect
<1>20. phase' # "undefined"
  BY DEF connect, Make
<1> QED
  BY <1>10, <1>11, <1>12, <1>13, <1>14, <1>15, <1>16, <1>20

LEMMA packet_in_keeps ==
  ASSUME TypeOK, EngineInv, NEW c \in Conns, packet_in(c)
  PROVE  EngineInv'
<1> USE DEF TypeOK, EngineInv, Over, engineVars, connVars, queueVars, passVars, sendVars
<1>1. \A d \in Conns : ref'[d] = IF d = c THEN ref[c] \cup {"TICKABLE"} ELSE ref[d]
  BY DEF packet_in
<1>2. closed = {} /\ ticked = {} /\ fresh = {}
  BY DEF packet_in, PhaseInv
<1>10. FlagsAreQueues'
  BY <1>1 DEF packet_in, FlagsAreQueues
<1>11. AliveIsReferenced'
  BY <1>1 DEF packet_in, AliveIsReferenced, Alive
<1>12. OutgoingInv'
  BY <1>1 DEF packet_in, OutgoingInv
<1>13. PhaseInv'
  BY <1>1 DEF packet_in, PhaseInv
<1>14. TickInv'
  BY <1>1, <1>2 DEF packet_in, TickInv
<1>15. ImmedInv'
  BY <1>1 DEF packet_in, ImmedInv
<1>16. CountInv'
  BY SameCount DEF packet_in
<1>20. phase' # "undefined"
  BY DEF packet_in
<1> QED
  BY <1>10, <1>11, <1>12, <1>13, <1>14, <1>15, <1>16, <1>20

LEMMA packet_in_new_mini_keeps ==
  ASSUME TypeOK, EngineInv, NEW c \in Conns, packet_in_new_mini(c)
  PROVE  EngineInv'
<1> USE DEF TypeOK, EngineInv, Over, engineVars, connVars, queueVars, passVars, sendVars
<1>1. \A d \in Conns : ref'[d] = IF d = c THEN {"HASHED", "TICKABLE"} ELSE ref[d]
  BY DEF packet_in_new_mini, Make
<1>2. closed = {} /\ ticked = {} /\ fresh = {}
  BY DEF packet_in_new_mini, PhaseInv
<1>3. /\ ref[c] = {}
      /\ c \notin hash \cup out \cup active \cup inactive \cup tickable \cup attq \cup closed \cup ticked \cup immed
  BY DEF packet_in_new_mini, AliveIsReferenced, Alive, FlagsAreQueues, ImmedInv
<1>10. FlagsAreQueues'
  BY <1>1, <1>3 DEF packet_in_new_mini, Make, FlagsAreQueues
<1>11. AliveIsReferenced'
  BY <1>1, <1>3 DEF packet_in_new_mini, Make, AliveIsReferenced, Alive
<1>12. OutgoingInv'
  BY <1>1, <1>3 DEF packet_in_new_mini, Make, OutgoingInv
<1>13. PhaseInv'
  BY <1>1, <1>3 DEF packet_in_new_mini, Make, PhaseInv
<1>14. TickInv'
  BY <1>1, <1>2 DEF packet_in_new_mini, Make, TickInv
<1>15. ImmedInv'
  BY <1>1, <1>3 DEF packet_in_new_mini, Make, ImmedInv
<1>16. CountInv'
  BY MakeCount DEF packet_in_new_mini
<1>20. phase' # "undefined"
  BY DEF packet_in_new_mini, Make
<1> QED
  BY <1>10, <1>11, <1>12, <1>13, <1>14, <1>15, <1>16, <1>20

LEMMA packet_in_promotes_keeps ==
  ASSUME TypeOK, EngineInv, NEW m \in Conns, NEW c \in Conns, packet_in_promotes(m, c)
  PROVE  EngineInv'
<1> USE DEF TypeOK, EngineInv, Over, engineVars, connVars, queueVars, passVars, sendVars
<1>1. \A d \in Conns : ref'[d] = IF d = c THEN {"HASHED", "TICKABLE"}
                                  ELSE IF d = m THEN (ref[m] \cup {"TICKABLE"}) \ {"ATTQ", "HASHED"}
                                  ELSE ref[d]
  BY DEF packet_in_promotes, Make
<1>2. closed = {} /\ ticked = {} /\ fresh = {}
  BY DEF packet_in_promotes, PhaseInv
<1>3. /\ ref[c] = {}
      /\ c \notin hash \cup out \cup active \cup inactive \cup tickable \cup attq \cup closed \cup ticked \cup immed
  BY DEF packet_in_promotes, AliveIsReferenced, Alive, FlagsAreQueues, ImmedInv
<1>10. FlagsAreQueues'
  BY <1>1, <1>3 DEF packet_in_promotes, Make, FlagsAreQueues
<1>11. AliveIsReferenced'
  BY <1>1, <1>3 DEF packet_in_promotes, Make, AliveIsReferenced, Alive, FlagsAreQueues
<1>12. OutgoingInv'
  BY <1>1, <1>3 DEF packet_in_promotes, Make, OutgoingInv
<1>13. PhaseInv'
  BY <1>1, <1>3 DEF packet_in_promotes, Make, PhaseInv
<1>14. TickInv'
  BY <1>1, <1>2 DEF packet_in_promotes, Make, TickInv
<1>15. ImmedInv'
  BY <1>1, <1>3 DEF packet_in_promotes, Make, ImmedInv
<1>16. CountInv'
  BY MakeCount DEF packet_in_promotes
<1>20. phase' # "undefined"
  BY DEF packet_in_promotes, Make
<1> QED
  BY <1>10, <1>11, <1>12, <1>13, <1>14, <1>15, <1>16, <1>20

LEMMA add_conn_to_tickable_keeps ==
  ASSUME TypeOK, EngineInv, NEW c \in Conns, add_conn_to_tickable(c)
  PROVE  EngineInv'
<1> USE DEF TypeOK, EngineInv, Over, engineVars, connVars, queueVars, passVars, sendVars
<1>1. \A d \in Conns : ref'[d] = IF d = c THEN ref[c] \cup {"TICKABLE"} ELSE ref[d]
  BY DEF add_conn_to_tickable
<1>2. closed = {} /\ ticked = {} /\ fresh = {}
  BY DEF add_conn_to_tickable, PhaseInv
<1>10. FlagsAreQueues'
  BY <1>1 DEF add_conn_to_tickable, FlagsAreQueues
<1>11. AliveIsReferenced'
  BY <1>1 DEF add_conn_to_tickable, AliveIsReferenced, Alive
<1>12. OutgoingInv'
  BY <1>1 DEF add_conn_to_tickable, OutgoingInv
<1>13. PhaseInv'
  BY <1>1 DEF add_conn_to_tickable, PhaseInv
<1>14. TickInv'
  BY <1>1, <1>2 DEF add_conn_to_tickable, TickInv
<1>15. ImmedInv'
  BY <1>1 DEF add_conn_to_tickable, ImmedInv
<1>16. CountInv'
  BY SameCount DEF add_conn_to_tickable
<1>20. phase' # "undefined"
  BY DEF add_conn_to_tickable
<1> QED
  BY <1>10, <1>11, <1>12, <1>13, <1>14, <1>15, <1>16, <1>20

LEMMA add_conn_to_attq_keeps ==
  ASSUME TypeOK, EngineInv, NEW c \in Conns, add_conn_to_attq(c)
  PROVE  EngineInv'
<1> USE DEF TypeOK, EngineInv, Over, engineVars, connVars, queueVars, passVars, sendVars
<1>1. \A d \in Conns : ref'[d] = IF d = c THEN ref[c] \cup {"ATTQ"} ELSE ref[d]
  BY DEF add_conn_to_attq
<1>10. FlagsAreQueues'
  BY <1>1 DEF add_conn_to_attq, FlagsAreQueues
<1>11. AliveIsReferenced'
  BY <1>1 DEF add_conn_to_attq, AliveIsReferenced, Alive
<1>12. OutgoingInv'
  BY <1>1 DEF add_conn_to_attq, OutgoingInv
<1>13. PhaseInv'
  BY <1>1 DEF add_conn_to_attq, PhaseInv
<1>14. TickInv'
  BY <1>1 DEF add_conn_to_attq, TickInv
<1>15. ImmedInv'
  BY <1>1 DEF add_conn_to_attq, ImmedInv
<1>16. CountInv'
  BY SameCount DEF add_conn_to_attq
<1>20. phase' # "undefined"
  BY DEF add_conn_to_attq
<1> QED
  BY <1>10, <1>11, <1>12, <1>13, <1>14, <1>15, <1>16, <1>20

LEMMA start_cooldown_keeps ==
  ASSUME TypeOK, EngineInv, start_cooldown
  PROVE  EngineInv'
<1> USE DEF TypeOK, EngineInv, Over, engineVars, connVars, queueVars, passVars, sendVars
<1>10. FlagsAreQueues'
  BY DEF start_cooldown, FlagsAreQueues
<1>11. AliveIsReferenced'
  BY DEF start_cooldown, AliveIsReferenced, Alive
<1>12. OutgoingInv'
  BY DEF start_cooldown, OutgoingInv
<1>13. PhaseInv'
  BY DEF start_cooldown, PhaseInv
<1>14. TickInv'
  BY DEF start_cooldown, TickInv
<1>15. ImmedInv'
  BY DEF start_cooldown, ImmedInv
<1>16. CountInv'
  BY SameCount DEF start_cooldown
<1>20. phase' # "undefined"
  BY DEF start_cooldown
<1> QED
  BY <1>10, <1>11, <1>12, <1>13, <1>14, <1>15, <1>16, <1>20

LEMMA drop_mini_conn_keeps ==
  ASSUME TypeOK, EngineInv, NEW c \in Conns, drop_mini_conn(c)
  PROVE  EngineInv'
<1> USE DEF TypeOK, EngineInv, Over, engineVars, connVars, queueVars, passVars, sendVars
<1>1. \A d \in Conns : ref'[d] = IF d = c THEN ref[c] \ {"HASHED"} ELSE ref[d]
  BY DEF drop_mini_conn, Keep
<1>2. closed = {} /\ ticked = {} /\ fresh = {}
  BY DEF drop_mini_conn, PhaseInv
<1>10. FlagsAreQueues'
  BY <1>1 DEF drop_mini_conn, Keep, FlagsAreQueues
<1>11. AliveIsReferenced'
  BY <1>1 DEF drop_mini_conn, Keep, AliveIsReferenced, Alive
<1>12. OutgoingInv'
  BY <1>1 DEF drop_mini_conn, Keep, OutgoingInv
<1>13. PhaseInv'
  BY <1>1 DEF drop_mini_conn, Keep, PhaseInv
<1>14. TickInv'
  BY <1>1, <1>2 DEF drop_mini_conn, Keep, TickInv
<1>15. ImmedInv'
  BY <1>1 DEF drop_mini_conn, Keep, ImmedInv
<1>16. CountInv'
  BY KeepCount DEF drop_mini_conn, FlagsAreQueues, AliveIsReferenced
<1>20. phase' # "undefined"
  BY DEF drop_mini_conn, Keep
<1> QED
  BY <1>10, <1>11, <1>12, <1>13, <1>14, <1>15, <1>16, <1>20

LEMMA cooldown_done_keeps ==
  ASSUME TypeOK, EngineInv, cooldown_done
  PROVE  EngineInv'
<1> USE DEF TypeOK, EngineInv, Over, engineVars, connVars, queueVars, passVars, sendVars
<1>10. FlagsAreQueues'
  BY DEF cooldown_done, FlagsAreQueues
<1>11. AliveIsReferenced'
  BY DEF cooldown_done, AliveIsReferenced, Alive
<1>12. OutgoingInv'
  BY DEF cooldown_done, OutgoingInv
<1>13. PhaseInv'
  BY DEF cooldown_done, PhaseInv
<1>14. TickInv'
  BY DEF cooldown_done, TickInv
<1>15. ImmedInv'
  BY DEF cooldown_done, ImmedInv
<1>16. CountInv'
  BY SameCount DEF cooldown_done
<1>20. phase' # "undefined"
  BY DEF cooldown_done
<1> QED
  BY <1>10, <1>11, <1>12, <1>13, <1>14, <1>15, <1>16, <1>20

LEMMA process_conns_keeps ==
  ASSUME TypeOK, EngineInv, process_conns
  PROVE  EngineInv'
<1> USE DEF TypeOK, EngineInv, Over, engineVars, connVars, queueVars, passVars, sendVars
<1>10. FlagsAreQueues'
  BY DEF process_conns, FlagsAreQueues
<1>11. AliveIsReferenced'
  BY DEF process_conns, AliveIsReferenced, Alive
<1>12. OutgoingInv'
  BY DEF process_conns, OutgoingInv
<1>13. PhaseInv'
  BY DEF process_conns, PhaseInv
<1>14. TickInv'
  BY DEF process_conns, TickInv
<1>15. ImmedInv'
  BY DEF process_conns, ImmedInv
<1>16. CountInv'
  BY SameCount DEF process_conns
<1>20. phase' # "undefined"
  BY DEF process_conns
<1> QED
  BY <1>10, <1>11, <1>12, <1>13, <1>14, <1>15, <1>16, <1>20

LEMMA pop_attq_keeps ==
  ASSUME TypeOK, EngineInv, NEW c \in Conns, pop_attq(c)
  PROVE  EngineInv'
<1> USE DEF TypeOK, EngineInv, Over, engineVars, connVars, queueVars, passVars, sendVars
<1>1. \A d \in Conns : ref'[d] = IF d = c THEN IF ref[c] \ {"ATTQ"} = {} THEN {} ELSE (ref[c] \ {"ATTQ"}) \cup {"TICKABLE"} ELSE ref[d]
  BY DEF pop_attq, Keep
<1>2. closed = {} /\ ticked = {} /\ fresh = {}
  BY DEF pop_attq, PhaseInv
<1>10. FlagsAreQueues'
  BY <1>1 DEF pop_attq, Keep, FlagsAreQueues
<1>11. AliveIsReferenced'
  BY <1>1 DEF pop_attq, Keep, AliveIsReferenced, Alive
<1>12. OutgoingInv'
  BY <1>1 DEF pop_attq, Keep, OutgoingInv
<1>13. PhaseInv'
  BY <1>1 DEF pop_attq, Keep, PhaseInv
<1>14. TickInv'
  BY <1>1, <1>2 DEF pop_attq, Keep, TickInv
<1>15. ImmedInv'
  BY <1>1 DEF pop_attq, Keep, ImmedInv
<1>16. CountInv'
  BY KeepCount DEF pop_attq, FlagsAreQueues, AliveIsReferenced
<1>20. phase' # "undefined"
  BY DEF pop_attq, Keep
<1> QED
  BY <1>10, <1>11, <1>12, <1>13, <1>14, <1>15, <1>16, <1>20

LEMMA attq_done_keeps ==
  ASSUME TypeOK, EngineInv, attq_done
  PROVE  EngineInv'
<1> USE DEF TypeOK, EngineInv, Over, engineVars, connVars, queueVars, passVars, sendVars
<1>2. closed = {} /\ ticked = {} /\ fresh = {}
  BY DEF attq_done, PhaseInv
<1>10. FlagsAreQueues'
  BY DEF attq_done, FlagsAreQueues
<1>11. AliveIsReferenced'
  BY DEF attq_done, AliveIsReferenced, Alive
<1>12. OutgoingInv'
  BY DEF attq_done, OutgoingInv
<1>13. PhaseInv'
  BY DEF attq_done, PhaseInv
<1>14. TickInv'
  BY <1>2 DEF attq_done, TickInv
<1>15. ImmedInv'
  BY DEF attq_done, ImmedInv
<1>16. CountInv'
  BY SameCount DEF attq_done
<1>20. phase' # "undefined"
  BY DEF attq_done
<1> QED
  BY <1>10, <1>11, <1>12, <1>13, <1>14, <1>15, <1>16, <1>20

LEMMA ticks_done_keeps ==
  ASSUME TypeOK, EngineInv, ticks_done
  PROVE  EngineInv'
<1> USE DEF TypeOK, EngineInv, Over, engineVars, connVars, queueVars, passVars, sendVars
<1>10. FlagsAreQueues'
  BY DEF ticks_done, AfterTicks, FlagsAreQueues
<1>11. AliveIsReferenced'
  BY DEF ticks_done, AfterTicks, AliveIsReferenced, Alive
<1>12. OutgoingInv'
  BY DEF ticks_done, AfterTicks, OutgoingInv
<1>13. PhaseInv'
  BY DEF ticks_done, AfterTicks, PhaseInv
<1>14. TickInv'
  BY DEF ticks_done, AfterTicks, TickInv
<1>15. ImmedInv'
  BY DEF ticks_done, AfterTicks, ImmedInv
<1>16. CountInv'
  BY SameCount DEF ticks_done, AfterTicks
<1>20. phase' # "undefined"
  BY DEF ticks_done, AfterTicks
<1> QED
  BY <1>10, <1>11, <1>12, <1>13, <1>14, <1>15, <1>16, <1>20

LEMMA send_unsent_packets_keeps ==
  ASSUME TypeOK, EngineInv, send_unsent_packets
  PROVE  EngineInv'
<1> USE DEF TypeOK, EngineInv, Over, engineVars, connVars, queueVars, passVars, sendVars
<1>2. closed = {} /\ ticked = {} /\ fresh = {}
  BY DEF send_unsent_packets, PhaseInv
<1>10. FlagsAreQueues'
  BY DEF send_unsent_packets, FlagsAreQueues
<1>11. AliveIsReferenced'
  BY DEF send_unsent_packets, AliveIsReferenced, Alive, FlagsAreQueues
<1>12. OutgoingInv'
  BY DEF send_unsent_packets, OutgoingInv
<1>13. PhaseInv'
  BY DEF send_unsent_packets, PhaseInv
<1>14. TickInv'
  BY <1>2 DEF send_unsent_packets, TickInv
<1>15. ImmedInv'
  BY DEF send_unsent_packets, ImmedInv
<1>16. CountInv'
  BY SameCount DEF send_unsent_packets
<1>20. phase' # "undefined"
  BY DEF send_unsent_packets
<1> QED
  BY <1>10, <1>11, <1>12, <1>13, <1>14, <1>15, <1>16, <1>20

LEMMA batched_all_keeps ==
  ASSUME TypeOK, EngineInv, NEW c \in Conns, batched_all(c)
  PROVE  EngineInv'
<1> USE DEF TypeOK, EngineInv, Over, engineVars, connVars, queueVars, passVars, sendVars
<1>10. FlagsAreQueues'
  BY DEF batched_all, Next_out, FlagsAreQueues
<1>11. AliveIsReferenced'
  BY DEF batched_all, Next_out, AliveIsReferenced, Alive
<1>12. OutgoingInv'
  BY DEF batched_all, Next_out, OutgoingInv
<1>13. PhaseInv'
  BY DEF batched_all, Next_out, PhaseInv
<1>14. TickInv'
  BY DEF batched_all, Next_out, TickInv
<1>15. ImmedInv'
  BY DEF batched_all, Next_out, ImmedInv
<1>16. CountInv'
  BY SameCount DEF batched_all, Next_out
<1>20. phase' # "undefined"
  BY DEF batched_all, Next_out
<1> QED
  BY <1>10, <1>11, <1>12, <1>13, <1>14, <1>15, <1>16, <1>20

LEMMA batch_packet_keeps ==
  ASSUME TypeOK, EngineInv, NEW c \in Conns, batch_packet(c)
  PROVE  EngineInv'
<1> USE DEF TypeOK, EngineInv, Over, engineVars, connVars, queueVars, passVars, sendVars
<1>10. FlagsAreQueues'
  BY DEF batch_packet, Next_out, FlagsAreQueues
<1>11. AliveIsReferenced'
  BY DEF batch_packet, Next_out, AliveIsReferenced, Alive
<1>12. OutgoingInv'
  BY DEF batch_packet, Next_out, OutgoingInv
<1>13. PhaseInv'
  BY DEF batch_packet, Next_out, PhaseInv
<1>14. TickInv'
  BY DEF batch_packet, Next_out, TickInv
<1>15. ImmedInv'
  BY DEF batch_packet, Next_out, ImmedInv
<1>16. CountInv'
  BY SameCount DEF batch_packet, Next_out
<1>20. phase' # "undefined"
  BY DEF batch_packet, Next_out
<1> QED
  BY <1>10, <1>11, <1>12, <1>13, <1>14, <1>15, <1>16, <1>20

LEMMA out_done_keeps ==
  ASSUME TypeOK, EngineInv, out_done
  PROVE  EngineInv'
<1> USE DEF TypeOK, EngineInv, Over, engineVars, connVars, queueVars, passVars, sendVars
<1>10. FlagsAreQueues'
  BY DEF out_done, FlagsAreQueues
<1>11. AliveIsReferenced'
  BY DEF out_done, AliveIsReferenced, Alive
<1>12. OutgoingInv'
  BY DEF out_done, OutgoingInv
<1>13. PhaseInv'
  BY DEF out_done, PhaseInv
<1>14. TickInv'
  BY DEF out_done, TickInv
<1>15. ImmedInv'
  BY DEF out_done, ImmedInv
<1>16. CountInv'
  BY SameCount DEF out_done
<1>20. phase' # "undefined"
  BY DEF out_done
<1> QED
  BY <1>10, <1>11, <1>12, <1>13, <1>14, <1>15, <1>16, <1>20

LEMMA batch_sent_keeps ==
  ASSUME TypeOK, EngineInv, batch_sent
  PROVE  EngineInv'
<1> USE DEF TypeOK, EngineInv, Over, engineVars, connVars, queueVars, passVars, sendVars
<1>10. FlagsAreQueues'
  BY DEF batch_sent, FlagsAreQueues
<1>11. AliveIsReferenced'
  BY DEF batch_sent, AliveIsReferenced, Alive
<1>12. OutgoingInv'
  BY DEF batch_sent, OutgoingInv
<1>13. PhaseInv'
  BY DEF batch_sent, PhaseInv
<1>14. TickInv'
  BY DEF batch_sent, TickInv
<1>15. ImmedInv'
  BY DEF batch_sent, ImmedInv
<1>16. CountInv'
  BY SameCount DEF batch_sent
<1>20. phase' # "undefined"
  BY DEF batch_sent
<1> QED
  BY <1>10, <1>11, <1>12, <1>13, <1>14, <1>15, <1>16, <1>20

LEMMA batch_refused_keeps ==
  ASSUME TypeOK, EngineInv, batch_refused
  PROVE  EngineInv'
<1> USE DEF TypeOK, EngineInv, Over, engineVars, connVars, queueVars, passVars, sendVars
<1>10. FlagsAreQueues'
  BY DEF batch_refused, NotSent, FlagsAreQueues, OutgoingInv
<1>11. AliveIsReferenced'
  BY DEF batch_refused, NotSent, AliveIsReferenced, Alive
<1>12. OutgoingInv'
  BY DEF batch_refused, NotSent, OutgoingInv
<1>13. PhaseInv'
  BY DEF batch_refused, NotSent, PhaseInv
<1>14. TickInv'
  BY DEF batch_refused, NotSent, TickInv
<1>15. ImmedInv'
  BY DEF batch_refused, NotSent, ImmedInv
<1>16. CountInv'
  BY SameCount DEF batch_refused, NotSent
<1>20. phase' # "undefined"
  BY DEF batch_refused, NotSent
<1> QED
  BY <1>10, <1>11, <1>12, <1>13, <1>14, <1>15, <1>16, <1>20

LEMMA reheap_inactive_keeps ==
  ASSUME TypeOK, EngineInv, NEW c \in Conns, reheap_inactive(c)
  PROVE  EngineInv'
<1> USE DEF TypeOK, EngineInv, Over, engineVars, connVars, queueVars, passVars, sendVars
<1>1. \A d \in Conns : ref'[d] = IF d = c THEN ref[c] \ {"HAS_OUTGOING"} ELSE ref[d]
  BY DEF reheap_inactive, Keep
<1>10. FlagsAreQueues'
  BY <1>1 DEF reheap_inactive, Keep, FlagsAreQueues, OutgoingInv
<1>11. AliveIsReferenced'
  BY <1>1 DEF reheap_inactive, Keep, AliveIsReferenced, Alive
<1>12. OutgoingInv'
  BY <1>1 DEF reheap_inactive, Keep, OutgoingInv, PhaseInv
<1>13. PhaseInv'
  BY <1>1 DEF reheap_inactive, Keep, PhaseInv
<1>14. TickInv'
  BY <1>1 DEF reheap_inactive, Keep, TickInv
<1>15. ImmedInv'
  BY <1>1 DEF reheap_inactive, Keep, ImmedInv
<1>16. CountInv'
  BY KeepCount DEF reheap_inactive, FlagsAreQueues, AliveIsReferenced
<1>20. phase' # "undefined"
  BY DEF reheap_inactive, Keep
<1> QED
  BY <1>10, <1>11, <1>12, <1>13, <1>14, <1>15, <1>16, <1>20

LEMMA reheap_done_keeps ==
  ASSUME TypeOK, EngineInv, reheap_done
  PROVE  EngineInv'
<1> USE DEF TypeOK, EngineInv, Over, engineVars, connVars, queueVars, passVars, sendVars
<1>10. FlagsAreQueues'
  BY DEF reheap_done, FlagsAreQueues
<1>11. AliveIsReferenced'
  BY DEF reheap_done, AliveIsReferenced, Alive
<1>12. OutgoingInv'
  BY DEF reheap_done, OutgoingInv
<1>13. PhaseInv'
  BY DEF reheap_done, PhaseInv
<1>14. TickInv'
  BY DEF reheap_done, TickInv
<1>15. ImmedInv'
  BY DEF reheap_done, ImmedInv
<1>16. CountInv'
  BY SameCount DEF reheap_done
<1>20. phase' # "undefined"
  BY DEF reheap_done
<1> QED
  BY <1>10, <1>11, <1>12, <1>13, <1>14, <1>15, <1>16, <1>20

LEMMA drop_closed_keeps ==
  ASSUME TypeOK, EngineInv, NEW c \in Conns, drop_closed(c)
  PROVE  EngineInv'
<1> USE DEF TypeOK, EngineInv, Over, engineVars, connVars, queueVars, passVars, sendVars
<1>1. \A d \in Conns : ref'[d] = IF d = c THEN ref[c] \ {"CLOSING"} ELSE ref[d]
  BY DEF drop_closed, Keep
<1>10. FlagsAreQueues'
  BY <1>1 DEF drop_closed, Keep, FlagsAreQueues
<1>11. AliveIsReferenced'
  BY <1>1 DEF drop_closed, Keep, AliveIsReferenced, Alive
<1>12. OutgoingInv'
  BY <1>1 DEF drop_closed, Keep, OutgoingInv
<1>13. PhaseInv'
  BY <1>1 DEF drop_closed, Keep, PhaseInv
<1>14. TickInv'
  BY <1>1 DEF drop_closed, Keep, TickInv
<1>15. ImmedInv'
  BY <1>1 DEF drop_closed, Keep, ImmedInv
<1>16. CountInv'
  BY KeepCount DEF drop_closed, FlagsAreQueues, AliveIsReferenced
<1>20. phase' # "undefined"
  BY DEF drop_closed, Keep
<1> QED
  BY <1>10, <1>11, <1>12, <1>13, <1>14, <1>15, <1>16, <1>20

LEMMA closed_done_keeps ==
  ASSUME TypeOK, EngineInv, closed_done
  PROVE  EngineInv'
<1> USE DEF TypeOK, EngineInv, Over, engineVars, connVars, queueVars, passVars, sendVars
<1>10. FlagsAreQueues'
  BY DEF closed_done, FlagsAreQueues
<1>11. AliveIsReferenced'
  BY DEF closed_done, AliveIsReferenced, Alive
<1>12. OutgoingInv'
  BY DEF closed_done, OutgoingInv
<1>13. PhaseInv'
  BY DEF closed_done, PhaseInv
<1>14. TickInv'
  BY DEF closed_done, TickInv
<1>15. ImmedInv'
  BY DEF closed_done, ImmedInv
<1>16. CountInv'
  BY SameCount DEF closed_done
<1>20. phase' # "undefined"
  BY DEF closed_done
<1> QED
  BY <1>10, <1>11, <1>12, <1>13, <1>14, <1>15, <1>16, <1>20

LEMMA ticked_done_keeps ==
  ASSUME TypeOK, EngineInv, ticked_done
  PROVE  EngineInv'
<1> USE DEF TypeOK, EngineInv, Over, engineVars, connVars, queueVars, passVars, sendVars
<1>10. FlagsAreQueues'
  BY DEF ticked_done, FlagsAreQueues
<1>11. AliveIsReferenced'
  BY DEF ticked_done, AliveIsReferenced, Alive
<1>12. OutgoingInv'
  BY DEF ticked_done, OutgoingInv
<1>13. PhaseInv'
  BY DEF ticked_done, PhaseInv
<1>14. TickInv'
  BY DEF ticked_done, TickInv
<1>15. ImmedInv'
  BY DEF ticked_done, ImmedInv
<1>16. CountInv'
  BY SameCount DEF ticked_done
<1>20. phase' # "undefined"
  BY DEF ticked_done
<1> QED
  BY <1>10, <1>11, <1>12, <1>13, <1>14, <1>15, <1>16, <1>20

LEMMA engine_destroy_keeps ==
  ASSUME TypeOK, EngineInv, engine_destroy
  PROVE  EngineInv'
<1> USE DEF TypeOK, EngineInv, Over, engineVars, connVars, queueVars, passVars, sendVars
<1>10. FlagsAreQueues'
  BY DEF engine_destroy, FlagsAreQueues
<1>11. AliveIsReferenced'
  BY DEF engine_destroy, AliveIsReferenced, Alive
<1>12. OutgoingInv'
  BY DEF engine_destroy, OutgoingInv
<1>13. PhaseInv'
  BY DEF engine_destroy, PhaseInv
<1>14. TickInv'
  BY DEF engine_destroy, TickInv
<1>15. ImmedInv'
  BY DEF engine_destroy, ImmedInv
<1>16. CountInv'
  BY SameCount DEF engine_destroy
<1>20. phase' # "undefined"
  BY DEF engine_destroy
<1> QED
  BY <1>10, <1>11, <1>12, <1>13, <1>14, <1>15, <1>16, <1>20

LEMMA dtor_out_keeps ==
  ASSUME TypeOK, EngineInv, NEW c \in Conns, dtor_out(c)
  PROVE  EngineInv'
<1> USE DEF TypeOK, EngineInv, Over, engineVars, connVars, queueVars, passVars, sendVars
<1>1. \A d \in Conns : ref'[d] = IF d = c THEN ref[c] \ {"HAS_OUTGOING"} ELSE ref[d]
  BY DEF dtor_out, Keep
<1>10. FlagsAreQueues'
  BY <1>1 DEF dtor_out, Keep, FlagsAreQueues, PhaseInv
<1>11. AliveIsReferenced'
  BY <1>1 DEF dtor_out, Keep, AliveIsReferenced, Alive
<1>12. OutgoingInv'
  BY <1>1 DEF dtor_out, Keep, OutgoingInv
<1>13. PhaseInv'
  BY <1>1 DEF dtor_out, Keep, PhaseInv
<1>14. TickInv'
  BY <1>1 DEF dtor_out, Keep, TickInv
<1>15. ImmedInv'
  BY <1>1 DEF dtor_out, Keep, ImmedInv
<1>16. CountInv'
  BY KeepCount DEF dtor_out, FlagsAreQueues, AliveIsReferenced
<1>20. phase' # "undefined"
  BY DEF dtor_out, Keep
<1> QED
  BY <1>10, <1>11, <1>12, <1>13, <1>14, <1>15, <1>16, <1>20

LEMMA dtor_tickable_keeps ==
  ASSUME TypeOK, EngineInv, NEW c \in Conns, dtor_tickable(c)
  PROVE  EngineInv'
<1> USE DEF TypeOK, EngineInv, Over, engineVars, connVars, queueVars, passVars, sendVars
<1>1. \A d \in Conns : ref'[d] = IF d = c THEN ref[c] \ {"TICKABLE"} ELSE ref[d]
  BY DEF dtor_tickable, Keep
<1>10. FlagsAreQueues'
  BY <1>1 DEF dtor_tickable, Keep, FlagsAreQueues
<1>11. AliveIsReferenced'
  BY <1>1 DEF dtor_tickable, Keep, AliveIsReferenced, Alive
<1>12. OutgoingInv'
  BY <1>1 DEF dtor_tickable, Keep, OutgoingInv
<1>13. PhaseInv'
  BY <1>1 DEF dtor_tickable, Keep, PhaseInv
<1>14. TickInv'
  BY <1>1 DEF dtor_tickable, Keep, TickInv
<1>15. ImmedInv'
  BY <1>1 DEF dtor_tickable, Keep, ImmedInv
<1>16. CountInv'
  BY KeepCount DEF dtor_tickable, FlagsAreQueues, AliveIsReferenced
<1>20. phase' # "undefined"
  BY DEF dtor_tickable, Keep
<1> QED
  BY <1>10, <1>11, <1>12, <1>13, <1>14, <1>15, <1>16, <1>20

LEMMA dtor_hash_keeps ==
  ASSUME TypeOK, EngineInv, NEW c \in Conns, dtor_hash(c)
  PROVE  EngineInv'
<1> USE DEF TypeOK, EngineInv, Over, engineVars, connVars, queueVars, passVars, sendVars
<1>1. \A d \in Conns : ref'[d] = IF d = c THEN ref[c] \ {"ATTQ", "HASHED"} ELSE ref[d]
  BY DEF dtor_hash, Keep
<1>2. closed = {} /\ ticked = {} /\ fresh = {}
  BY DEF dtor_hash, PhaseInv
<1>10. FlagsAreQueues'
  BY <1>1 DEF dtor_hash, Keep, FlagsAreQueues
<1>11. AliveIsReferenced'
  BY <1>1 DEF dtor_hash, Keep, AliveIsReferenced, Alive
<1>12. OutgoingInv'
  BY <1>1 DEF dtor_hash, Keep, OutgoingInv
<1>13. PhaseInv'
  BY <1>1 DEF dtor_hash, Keep, PhaseInv
<1>14. TickInv'
  BY <1>1, <1>2 DEF dtor_hash, Keep, TickInv
<1>15. ImmedInv'
  BY <1>1 DEF dtor_hash, Keep, ImmedInv
<1>16. CountInv'
  BY KeepCount DEF dtor_hash, FlagsAreQueues, AliveIsReferenced
<1>20. phase' # "undefined"
  BY DEF dtor_hash, Keep
<1> QED
  BY <1>10, <1>11, <1>12, <1>13, <1>14, <1>15, <1>16, <1>20

LEMMA dtor_attq_keeps ==
  ASSUME TypeOK, EngineInv, NEW c \in Conns, dtor_attq(c)
  PROVE  EngineInv'
<1> USE DEF TypeOK, EngineInv, Over, engineVars, connVars, queueVars, passVars, sendVars
<1>1. \A d \in Conns : ref'[d] = IF d = c THEN ref[c] \ {"ATTQ"} ELSE ref[d]
  BY DEF dtor_attq, Keep
<1>10. FlagsAreQueues'
  BY <1>1 DEF dtor_attq, Keep, FlagsAreQueues
<1>11. AliveIsReferenced'
  BY <1>1 DEF dtor_attq, Keep, AliveIsReferenced, Alive
<1>12. OutgoingInv'
  BY <1>1 DEF dtor_attq, Keep, OutgoingInv
<1>13. PhaseInv'
  BY <1>1 DEF dtor_attq, Keep, PhaseInv
<1>14. TickInv'
  BY <1>1 DEF dtor_attq, Keep, TickInv
<1>15. ImmedInv'
  BY <1>1 DEF dtor_attq, Keep, ImmedInv
<1>16. CountInv'
  BY KeepCount DEF dtor_attq, FlagsAreQueues, AliveIsReferenced
<1>20. phase' # "undefined"
  BY DEF dtor_attq, Keep
<1> QED
  BY <1>10, <1>11, <1>12, <1>13, <1>14, <1>15, <1>16, <1>20

-------------------------------------------------------------------------------
(* The steps after which what the engine relies on may have failed.        *)

LEMMA connect_fails_keeps ==
  ASSUME TypeOK, EngineInv, NEW c \in Conns, connect_fails(c)
  PROVE  spoiled' \/ EngineInv'
<1> USE DEF TypeOK, EngineInv, Over, engineVars, queueVars, passVars, sendVars
<1>1. SUFFICES ASSUME ~spoiled' PROVE EngineInv'
  OBVIOUS
<1>2. UNCHANGED <<life, ref, tickable>>
  BY <1>1 DEF connect_fails, Discard
<1>3. CountInv'
  BY <1>2, DiscardCount DEF connect_fails
<1> QED
  BY <1>2, <1>3 DEF connect_fails, FlagsAreQueues, AliveIsReferenced, Alive, OutgoingInv,
                    PhaseInv, TickInv, ImmedInv

LEMMA packet_in_promotion_fails_keeps ==
  ASSUME TypeOK, EngineInv, NEW m \in Conns, NEW c \in Conns, packet_in_promotion_fails(m, c)
  PROVE  spoiled' \/ EngineInv'
<1> USE DEF TypeOK, EngineInv, Over, engineVars, queueVars, passVars, sendVars
<1>1. SUFFICES ASSUME ~spoiled' PROVE EngineInv'
  OBVIOUS
<1>2. life' = life /\ tickable' = tickable \cup {m}
  BY <1>1 DEF packet_in_promotion_fails, Discard
<1>3. \A d \in Conns : ref'[d] = IF d = m THEN ref[m] \cup {"TICKABLE"} ELSE ref[d]
  BY DEF packet_in_promotion_fails
<1>4. CountInv'
  BY <1>2, DiscardCount DEF packet_in_promotion_fails
<1>5. closed = {} /\ ticked = {} /\ fresh = {}
  BY DEF packet_in_promotion_fails, PhaseInv
<1>6. FlagsAreQueues'
  BY <1>2, <1>3 DEF packet_in_promotion_fails, FlagsAreQueues
<1>7. AliveIsReferenced'
  BY <1>2, <1>3 DEF packet_in_promotion_fails, FlagsAreQueues, AliveIsReferenced, Alive
<1>8. TickInv'
  BY <1>2, <1>5 DEF packet_in_promotion_fails, TickInv
<1> QED
  BY <1>2, <1>4, <1>6, <1>7, <1>8
     DEF packet_in_promotion_fails, OutgoingInv, PhaseInv, ImmedInv

LEMMA AfterTickFlags ==
  ASSUME NEW kept \in SUBSET RefFlags, NEW st \in SUBSET {"SEND", "CLOSE"}
  PROVE  /\ AfterTick(kept, st) \in SUBSET RefFlags
         /\ AfterTick(kept, st) # {}
         /\ "HASHED" \in AfterTick(kept, st) <=> "HASHED" \in kept /\ "CLOSE" \notin st
         /\ "HAS_OUTGOING" \in AfterTick(kept, st) <=> "HAS_OUTGOING" \in kept \/ "SEND" \in st
         /\ "TICKABLE" \in AfterTick(kept, st) <=> "TICKABLE" \in kept
         /\ "ATTQ" \in AfterTick(kept, st) <=> "ATTQ" \in kept
         /\ "CLOSING" \in AfterTick(kept, st) <=> "CLOSING" \in kept \/ "CLOSE" \in st
         /\ "TICKED" \in AfterTick(kept, st) <=> "TICKED" \in kept \/ "CLOSE" \notin st
BY DEF AfterTick, RefFlags

LEMMA AfterPopped ==
  ASSUME TypeOK, NEW c \in Conns, NEW st \in SUBSET {"SEND", "CLOSE"}
  PROVE  /\ AfterTick(Popped(c), st) \in SUBSET RefFlags
         /\ AfterTick(Popped(c), st) # {}
         /\ "HASHED" \in AfterTick(Popped(c), st) <=> "HASHED" \in ref[c] /\ "CLOSE" \notin st
         /\ "HAS_OUTGOING" \in AfterTick(Popped(c), st) <=> "HAS_OUTGOING" \in ref[c] \/ "SEND" \in st
         /\ "TICKABLE" \notin AfterTick(Popped(c), st) /\ "ATTQ" \notin AfterTick(Popped(c), st)
         /\ "CLOSING" \in AfterTick(Popped(c), st) <=> "CLOSING" \in ref[c] \/ "CLOSE" \in st
         /\ "TICKED" \in AfterTick(Popped(c), st) <=> "TICKED" \in ref[c] \/ "CLOSE" \notin st
<1> DEFINE kept == Popped(c)
<1>1. /\ kept \in SUBSET RefFlags
      /\ "TICKABLE" \notin kept /\ "ATTQ" \notin kept
      /\ \A f \in {"HASHED", "HAS_OUTGOING", "CLOSING", "TICKED"} : f \in kept <=> f \in ref[c]
  BY DEF Popped, TypeOK
<1> HIDE DEF kept
<1>2. /\ AfterTick(kept, st) \in SUBSET RefFlags /\ AfterTick(kept, st) # {}
      /\ "HASHED" \in AfterTick(kept, st) <=> "HASHED" \in ref[c] /\ "CLOSE" \notin st
      /\ "HAS_OUTGOING" \in AfterTick(kept, st) <=> "HAS_OUTGOING" \in ref[c] \/ "SEND" \in st
      /\ "TICKABLE" \notin AfterTick(kept, st) /\ "ATTQ" \notin AfterTick(kept, st)
      /\ "CLOSING" \in AfterTick(kept, st) <=> "CLOSING" \in ref[c] \/ "CLOSE" \in st
      /\ "TICKED" \in AfterTick(kept, st) <=> "TICKED" \in ref[c] \/ "CLOSE" \notin st
  BY <1>1, AfterTickFlags
<1> QED
  BY <1>2 DEF kept

\* A connection closed for an error of the socket never ticks again: when it
\* leaves the heap, nothing else refers to it.
LEMMA TickedIsSound ==
  ASSUME TypeOK, EngineInv, NEW c \in Conns, phase = "tick", c \in tickable, Popped(c) # {}
  PROVE  c \notin immed /\ c \notin closed /\ c \notin ticked /\ c \notin fresh
<1> USE DEF TypeOK, EngineInv
<1>1. c \notin closed /\ c \notin ticked /\ c \notin fresh
  BY DEF TickInv
<1>2. c \notin active \cup inactive
  BY DEF PhaseInv
<1>3. ASSUME c \in immed PROVE FALSE
  BY <1>1, <1>2, <1>3 DEF Popped, FlagsAreQueues, ImmedInv, RefFlags
<1> QED
  BY <1>1, <1>3

LEMMA tick_keeps ==
  ASSUME TypeOK, EngineInv, NEW c \in Conns, tick(c)
  PROVE  spoiled' \/ EngineInv'
<1> USE DEF TypeOK, EngineInv, Over, engineVars, sendVars
<1>1. SUFFICES ASSUME ~spoiled' PROVE EngineInv'
  OBVIOUS
<1>2. PICK st \in SUBSET {"SEND", "CLOSE"} :
        /\ HandleTick(c, Popped(c), st)
        /\ ref' = [ref EXCEPT ![c] = AfterTick(Popped(c), st)]
        /\ hash' = hash \ Unhashed(c, st)
  BY DEF tick
<1> DEFINE after == AfterTick(Popped(c), st)
<1>3. after \in SUBSET RefFlags /\ ref' = [ref EXCEPT ![c] = after]
  BY <1>2, AfterPopped
<1>4. /\ "HASHED" \in after <=> "HASHED" \in ref[c] /\ "CLOSE" \notin st
      /\ "HAS_OUTGOING" \in after <=> "HAS_OUTGOING" \in ref[c] \/ "SEND" \in st
      /\ "TICKABLE" \notin after /\ "ATTQ" \notin after /\ after # {}
      /\ "CLOSING" \in after <=> "CLOSING" \in ref[c] \/ "CLOSE" \in st
      /\ "TICKED" \in after <=> "TICKED" \in ref[c] \/ "CLOSE" \notin st
  BY AfterPopped
<1>5. /\ phase = "tick" /\ c \in tickable /\ Alive(c)
      /\ tickable' = tickable \ {c} /\ attq' = attq \ {c}
      /\ c \notin immed /\ c \notin closed /\ c \notin ticked /\ c \notin fresh
      /\ UNCHANGED <<phase, life, immed, n_conns, nalloc, fresh, active, inactive, batch>>
  BY TickedIsSound DEF tick
<1>6. "CLOSE" \in st \/ c \in hash
  BY <1>1, <1>2 DEF HandleTick, FlagsAreQueues, Popped
<1>7. /\ out' = IF "SEND" \in st THEN out \cup {c} ELSE out
      /\ closed' = IF "CLOSE" \in st THEN closed \cup {c} ELSE closed
      /\ ticked' = IF "CLOSE" \in st THEN ticked ELSE ticked \cup {c}
      /\ hash' = IF "CLOSE" \in st THEN hash \ {c} ELSE hash
  BY <1>2 DEF HandleTick, Unhashed
<1> HIDE DEF after
<1>8. \A d \in Conns : ref'[d] = IF d = c THEN after ELSE ref[d]
  BY <1>3
<1>9. active = {} /\ inactive = {} /\ batch = {}
  BY <1>5 DEF PhaseInv
<1>10. FlagsAreQueues'
  BY <1>4, <1>5, <1>7, <1>8 DEF FlagsAreQueues
<1>11. AliveIsReferenced'
  BY <1>4, <1>5, <1>8 DEF AliveIsReferenced, Alive
<1>12. OutgoingInv' /\ PhaseInv'
  BY <1>5, <1>7, <1>9 DEF OutgoingInv, PhaseInv
<1>13. TickInv'
  BY <1>5, <1>6, <1>7 DEF TickInv
<1>14. ImmedInv'
  BY <1>5, <1>7 DEF ImmedInv
<1>15. CountInv'
  BY <1>5, SameCount
<1> QED
  BY <1>5, <1>10, <1>11, <1>12, <1>13, <1>14, <1>15

LEMMA tick_new_full_keeps ==
  ASSUME TypeOK, EngineInv, NEW c \in Conns, tick_new_full(c)
  PROVE  spoiled' \/ EngineInv'
<1> USE DEF TypeOK, EngineInv, Over, engineVars, sendVars
<1>2. PICK st \in SUBSET {"SEND", "CLOSE"} :
        /\ HandleTick(c, ref[c], st)
        /\ ref' = [ref EXCEPT ![c] = AfterTick(ref[c], st)]
        /\ hash' = hash \ Unhashed(c, st)
  BY DEF tick_new_full
<1> DEFINE after == AfterTick(ref[c], st)
<1>3. after \in SUBSET RefFlags /\ ref' = [ref EXCEPT ![c] = after]
  BY <1>2, AfterTickFlags
<1>4. /\ "HASHED" \in after <=> "HASHED" \in ref[c] /\ "CLOSE" \notin st
      /\ "HAS_OUTGOING" \in after <=> "HAS_OUTGOING" \in ref[c] \/ "SEND" \in st
      /\ "TICKABLE" \in after <=> "TICKABLE" \in ref[c]
      /\ "ATTQ" \in after <=> "ATTQ" \in ref[c]
      /\ "CLOSING" \in after <=> "CLOSING" \in ref[c] \/ "CLOSE" \in st
      /\ "TICKED" \in after <=> "TICKED" \in ref[c] \/ "CLOSE" \notin st
      /\ after # {}
  BY AfterTickFlags
<1>5. /\ phase \in {"tick", "fresh"} /\ phase' = "tick"
      /\ fresh' = fresh \ {c}
      /\ c \in hash /\ c \notin tickable /\ c \notin closed /\ c \notin ticked /\ c \notin out
      /\ UNCHANGED <<life, immed, n_conns, nalloc, tickable, attq, active, inactive, batch>>
  BY DEF tick_new_full, TickInv
<1>7. /\ out' = IF "SEND" \in st THEN out \cup {c} ELSE out
      /\ closed' = IF "CLOSE" \in st THEN closed \cup {c} ELSE closed
      /\ ticked' = IF "CLOSE" \in st THEN ticked ELSE ticked \cup {c}
      /\ hash' = IF "CLOSE" \in st THEN hash \ {c} ELSE hash
  BY <1>2 DEF HandleTick, Unhashed
<1> HIDE DEF after
<1>8. \A d \in Conns : ref'[d] = IF d = c THEN after ELSE ref[d]
  BY <1>3
<1>9. active = {} /\ inactive = {} /\ batch = {} /\ c \notin immed /\ Alive(c)
  BY <1>5 DEF PhaseInv, ImmedInv, FlagsAreQueues, AliveIsReferenced
<1>10. FlagsAreQueues'
  BY <1>4, <1>5, <1>7, <1>8 DEF FlagsAreQueues
<1>11. AliveIsReferenced'
  BY <1>4, <1>5, <1>8, <1>9 DEF AliveIsReferenced, Alive
<1>12. OutgoingInv' /\ PhaseInv'
  BY <1>5, <1>7, <1>9 DEF OutgoingInv, PhaseInv
<1>13. TickInv'
  BY <1>5, <1>7 DEF TickInv
<1>14. ImmedInv'
  BY <1>5, <1>7, <1>9 DEF ImmedInv
<1>15. CountInv'
  BY <1>5, SameCount
<1> QED
  BY <1>5, <1>10, <1>11, <1>12, <1>13, <1>14, <1>15

LEMMA tick_promotes_keeps ==
  ASSUME TypeOK, EngineInv, NEW m \in Conns, NEW c \in Conns, tick_promotes(m, c)
  PROVE  EngineInv'
<1> USE DEF TypeOK, EngineInv, Over, engineVars, sendVars
<1>2. PICK st \in SUBSET {"SEND", "CLOSE"} :
        /\ "CLOSE" \in st
        /\ HandleTick(m, Popped(m), st)
        /\ Make(c, [ref EXCEPT ![m] = AfterTick(Popped(m), st), ![c] = {"HASHED"}])
  BY DEF tick_promotes
<1> DEFINE after == AfterTick(Popped(m), st)
<1>1. m # c
  BY DEF tick_promotes, Alive
<1>3. after \in SUBSET RefFlags
  BY AfterPopped
<1>8. \A d \in Conns : ref'[d] = IF d = c THEN {"HASHED"} ELSE IF d = m THEN after ELSE ref[d]
  BY <1>2, <1>1 DEF Make
<1>4. /\ "HASHED" \in after <=> "HASHED" \in ref[m] /\ "CLOSE" \notin st
      /\ "HAS_OUTGOING" \in after <=> "HAS_OUTGOING" \in ref[m] \/ "SEND" \in st
      /\ "TICKABLE" \notin after /\ "ATTQ" \notin after /\ after # {}
      /\ "CLOSING" \in after <=> "CLOSING" \in ref[m] \/ "CLOSE" \in st
      /\ "TICKED" \in after <=> "TICKED" \in ref[m] \/ "CLOSE" \notin st
  BY AfterPopped
<1>5. /\ phase = "tick" /\ m \in tickable /\ Alive(m) /\ life[c] = "unborn"
      /\ tickable' = tickable \ {m} /\ attq' = attq \ {m}
      /\ hash' = (hash \ {m}) \cup {c} /\ fresh' = fresh \cup {c}
      /\ m \notin immed /\ m \notin closed /\ m \notin ticked /\ m \notin fresh
      /\ UNCHANGED <<phase, immed, active, inactive, batch>>
  BY TickedIsSound DEF tick_promotes
<1>7. /\ out' = IF "SEND" \in st THEN out \cup {m} ELSE out
      /\ closed' = closed \cup {m}
      /\ ticked' = ticked
  BY <1>2 DEF HandleTick
<1>6. life' = [life EXCEPT ![c] = "alive"]
  BY <1>2 DEF Make
<1> HIDE DEF after
<1>9. /\ active = {} /\ inactive = {} /\ batch = {}
      /\ c \notin hash \cup out \cup tickable \cup attq \cup closed \cup ticked \cup immed
  BY <1>5 DEF PhaseInv, AliveIsReferenced, Alive, FlagsAreQueues, ImmedInv
<1>10. FlagsAreQueues'
  BY <1>1, <1>2, <1>4, <1>5, <1>7, <1>8, <1>9 DEF FlagsAreQueues
<1>11. AliveIsReferenced'
  BY <1>1, <1>4, <1>5, <1>6, <1>8 DEF AliveIsReferenced, Alive
<1>12. OutgoingInv' /\ PhaseInv'
  BY <1>5, <1>7, <1>9 DEF OutgoingInv, PhaseInv
<1>13. TickInv'
  BY <1>1, <1>5, <1>7, <1>9 DEF TickInv
<1>14. ImmedInv'
  BY <1>1, <1>5, <1>6, <1>7, <1>9 DEF ImmedInv
<1>15. CountInv'
  BY <1>2, <1>5, MakeCount
<1> QED
  BY <1>5, <1>10, <1>11, <1>12, <1>13, <1>14, <1>15

LEMMA last_reference_keeps ==
  ASSUME TypeOK, EngineInv, NEW c \in Conns, last_reference(c)
  PROVE  EngineInv'
<1> USE DEF TypeOK, EngineInv, Over, engineVars, passVars, sendVars
<1>1. /\ phase = "tick" /\ c \in tickable /\ Alive(c) /\ Popped(c) = {}
      /\ tickable' = tickable \ {c} /\ attq' = attq \ {c}
      /\ UNCHANGED <<immed, nalloc, hash, out, closed, ticked, fresh, active, inactive, batch>>
      /\ phase' \in {"fresh", "sending", "closed"}
      /\ fresh # {} => phase' = "fresh"
  BY DEF last_reference, AfterTicks
<1>2. life' = [life EXCEPT ![c] = "gone"] /\ Keep(c, {})
  BY DEF last_reference, Keep
<1>3. \A d \in Conns : ref'[d] = IF d = c THEN {} ELSE ref[d]
  BY DEF last_reference, Keep
<1>4. c \notin hash \cup out \cup active \cup inactive \cup closed \cup ticked
  BY <1>1 DEF Popped, FlagsAreQueues
<1>10. FlagsAreQueues'
  BY <1>1, <1>3, <1>4 DEF FlagsAreQueues
<1>11. AliveIsReferenced'
  BY <1>1, <1>2, <1>3 DEF AliveIsReferenced, Alive
<1>12. OutgoingInv'
  BY <1>1 DEF OutgoingInv
<1>16. PhaseInv'
  BY <1>1 DEF PhaseInv
<1>13. TickInv'
  BY <1>1, <1>4 DEF TickInv
<1>14. ImmedInv'
  BY <1>1, <1>2 DEF ImmedInv
<1>15. CountInv'
  BY <1>1, <1>2, KeepCount
<1> QED
  BY <1>1, <1>10, <1>11, <1>12, <1>13, <1>14, <1>15, <1>16

-------------------------------------------------------------------------------
(* Sending, and the end of a call.                                         *)

LEMMA CloseNowKeeps ==
  ASSUME TypeOK, EngineInv, NEW c \in Conns, CloseNow(c), "HAS_OUTGOING" \in ref[c]
  PROVE  /\ immed' = immed \cup {c} /\ closed' = closed \cup {c}
         /\ hash' = hash \ {c} /\ ticked' = ticked \ {c}
         /\ \A d \in Conns : ref'[d] = IF d = c THEN (ref[c] \cup {"CLOSING"}) \ {"HASHED", "TICKED"}
                                                ELSE ref[d]
         /\ Alive(c)
<1> USE DEF TypeOK, EngineInv
<1>1. "CLOSING" \in ref[c] => c \notin hash /\ "HASHED" \notin ref[c]
  BY DEF FlagsAreQueues, TickInv
<1> QED
  BY <1>1 DEF CloseNow, AliveIsReferenced

LEMMA bad_crypt_keeps ==
  ASSUME TypeOK, EngineInv, NEW c \in Conns, bad_crypt(c)
  PROVE  EngineInv'
<1> USE DEF TypeOK, EngineInv, Over, engineVars
<1>1. /\ phase = "sending" /\ (c \in out \/ c \in active)
      /\ out' = out \ {c} /\ active' = active \ {c} /\ inactive' = inactive \cup {c}
      /\ UNCHANGED <<phase, life, n_conns, nalloc, tickable, attq, fresh, batch>>
  BY DEF bad_crypt, Next_out
<1>2. /\ immed' = immed \cup {c} /\ closed' = closed \cup {c}
      /\ hash' = hash \ {c} /\ ticked' = ticked \ {c}
      /\ \A d \in Conns : ref'[d] = IF d = c THEN (ref[c] \cup {"CLOSING"}) \ {"HASHED", "TICKED"}
                                             ELSE ref[d]
      /\ Alive(c)
  BY <1>1, CloseNowKeeps DEF bad_crypt, FlagsAreQueues
<1>3. fresh = {}
  BY <1>1 DEF PhaseInv
<1>10. FlagsAreQueues'
  BY <1>1, <1>2 DEF FlagsAreQueues
<1>11. AliveIsReferenced'
  BY <1>1, <1>2 DEF AliveIsReferenced, Alive
<1>12. OutgoingInv' /\ PhaseInv'
  BY <1>1, <1>2 DEF OutgoingInv, PhaseInv
<1>13. TickInv'
  BY <1>1, <1>2, <1>3 DEF TickInv
<1>14. ImmedInv'
  BY <1>1, <1>2 DEF ImmedInv, Alive
<1>15. CountInv'
  BY <1>1, SameCount
<1> QED
  BY <1>1, <1>10, <1>11, <1>12, <1>13, <1>14, <1>15

LEMMA batch_fails_keeps ==
  ASSUME TypeOK, EngineInv, NEW c \in Conns, batch_fails(c)
  PROVE  EngineInv'
<1> USE DEF TypeOK, EngineInv, Over
<1>1. PICK back \in SUBSET batch : NotSent(back)
  BY DEF batch_fails
<1>2. /\ c \in batch /\ c \in active \cup inactive
      /\ phase \in {"sending", "flush"} /\ phase' = "reheap"
      /\ active' = active \cup back /\ inactive' = inactive \ back /\ batch' = {}
      /\ UNCHANGED <<life, n_conns, nalloc, out, tickable, attq, fresh>>
  BY <1>1 DEF batch_fails, NotSent, OutgoingInv
<1>3. /\ immed' = immed \cup {c} /\ closed' = closed \cup {c}
      /\ hash' = hash \ {c} /\ ticked' = ticked \ {c}
      /\ \A d \in Conns : ref'[d] = IF d = c THEN (ref[c] \cup {"CLOSING"}) \ {"HASHED", "TICKED"}
                                             ELSE ref[d]
      /\ Alive(c)
  BY <1>2, CloseNowKeeps DEF batch_fails, FlagsAreQueues
<1>4. fresh = {} /\ c \notin out
  BY <1>2 DEF PhaseInv, OutgoingInv
<1>5. back \subseteq active \cup inactive
  BY DEF OutgoingInv
<1>10. FlagsAreQueues'
  BY <1>2, <1>3, <1>5 DEF FlagsAreQueues
<1>11. AliveIsReferenced'
  BY <1>2, <1>3 DEF AliveIsReferenced, Alive
<1>12. OutgoingInv' /\ PhaseInv'
  BY <1>2, <1>3, <1>5 DEF OutgoingInv, PhaseInv
<1>13. TickInv'
  BY <1>2, <1>3, <1>4 DEF TickInv
<1>14. ImmedInv'
  BY <1>2, <1>3, <1>4 DEF ImmedInv, Alive
<1>15. CountInv'
  BY <1>2, SameCount
<1> QED
  BY <1>2, <1>10, <1>11, <1>12, <1>13, <1>14, <1>15

LEMMA reheap_active_keeps ==
  ASSUME TypeOK, EngineInv, NEW c \in Conns, reheap_active(c)
  PROVE  EngineInv'
<1> USE DEF TypeOK, EngineInv, Over, engineVars, passVars
<1>1. /\ phase = "reheap" /\ c \in active /\ active' = active \ {c}
      /\ UNCHANGED <<phase, immed, nalloc, hash, tickable, attq, closed, ticked, fresh,
                     inactive, batch>>
  BY DEF reheap_active
<1>2. batch = {} /\ fresh = {} /\ c \notin out /\ c \notin inactive /\ Alive(c)
  BY <1>1 DEF PhaseInv, OutgoingInv, FlagsAreQueues, AliveIsReferenced
<1>3. CASE c \notin immed /\ out' = out \cup {c} /\ UNCHANGED <<ref, life, n_conns>>
  <2>1. FlagsAreQueues' /\ AliveIsReferenced'
    BY <1>1, <1>3 DEF FlagsAreQueues, AliveIsReferenced, Alive
  <2>2. OutgoingInv' /\ PhaseInv' /\ TickInv' /\ ImmedInv'
    BY <1>1, <1>2, <1>3 DEF OutgoingInv, PhaseInv, TickInv, ImmedInv
  <2>3. CountInv'
    BY <1>1, <1>3, SameCount
  <2> QED
    BY <1>1, <2>1, <2>2, <2>3
<1>4. CASE Keep(c, ref[c] \ {"HAS_OUTGOING"}) /\ out' = out
  <2>1. \A d \in Conns : ref'[d] = IF d = c THEN ref[c] \ {"HAS_OUTGOING"} ELSE ref[d]
    BY <1>4 DEF Keep
  <2>2. FlagsAreQueues'
    BY <1>1, <1>2, <1>4, <2>1 DEF FlagsAreQueues
  <2>3. AliveIsReferenced'
    BY <1>2, <1>4, <2>1 DEF AliveIsReferenced, Alive, Keep
  <2>4. OutgoingInv' /\ PhaseInv' /\ TickInv'
    BY <1>1, <1>2, <1>4 DEF OutgoingInv, PhaseInv, TickInv
  <2>5. ImmedInv'
    BY <1>1, <1>4 DEF ImmedInv, Keep
  <2>6. CountInv'
    BY <1>1, <1>2, <1>4, KeepCount
  <2> QED
    BY <1>1, <2>2, <2>3, <2>4, <2>5, <2>6
<1> QED
  BY <1>3, <1>4 DEF reheap_active

LEMMA untick_keeps ==
  ASSUME TypeOK, EngineInv, NEW c \in Conns, untick(c)
  PROVE  EngineInv'
<1> USE DEF TypeOK, EngineInv, Over, engineVars, sendVars
<1>1. /\ phase = "ticked" /\ c \in ticked /\ ticked' = ticked \ {c}
      /\ ref[c] \ {"TICKED"} # {}
      /\ UNCHANGED <<phase, life, immed, n_conns, nalloc, hash, out, closed, fresh,
                     active, inactive, batch>>
  BY DEF untick
<1>2. PICK more \in {{"TICKABLE"}, {"ATTQ"}, {}} :
        /\ ref' = [ref EXCEPT ![c] = (ref[c] \ {"TICKED"}) \cup more]
        /\ tickable' = IF "TICKABLE" \in more THEN tickable \cup {c} ELSE tickable
        /\ attq' = IF "ATTQ" \in more THEN attq \cup {c} ELSE attq
  <2> DEFINE kept == ref[c] \ {"TICKED"}
  <2>1. CASE /\ tickable' = tickable \cup {c} /\ attq' = attq
             /\ ref' = [ref EXCEPT ![c] = kept \cup {"TICKABLE"}]
    <3> WITNESS {"TICKABLE"} \in {{"TICKABLE"}, {"ATTQ"}, {}}
    <3> QED BY <2>1
  <2>2. CASE /\ attq' = attq \cup {c} /\ tickable' = tickable
             /\ ref' = [ref EXCEPT ![c] = kept \cup {"ATTQ"}]
    <3> WITNESS {"ATTQ"} \in {{"TICKABLE"}, {"ATTQ"}, {}}
    <3> QED BY <2>2
  <2>3. CASE ref' = [ref EXCEPT ![c] = kept] /\ UNCHANGED <<tickable, attq>>
    <3>1. kept = kept \cup {}
      OBVIOUS
    <3> WITNESS {} \in {{"TICKABLE"}, {"ATTQ"}, {}}
    <3> QED BY <2>3, <3>1
  <2> QED
    BY <2>1, <2>2, <2>3 DEF untick
<1>3. \A d \in Conns : ref'[d] = IF d = c THEN (ref[c] \ {"TICKED"}) \cup more ELSE ref[d]
  BY <1>2
<1>4. closed = {} /\ fresh = {} /\ c \in hash
  BY <1>1 DEF PhaseInv, TickInv
<1>10. FlagsAreQueues'
  BY <1>1, <1>2, <1>3 DEF FlagsAreQueues
<1>11. AliveIsReferenced'
  BY <1>1, <1>2, <1>3 DEF AliveIsReferenced, Alive
<1>12. OutgoingInv' /\ PhaseInv'
  BY <1>1, <1>2 DEF OutgoingInv, PhaseInv
<1>13. TickInv'
  BY <1>1, <1>2, <1>4 DEF TickInv
<1>14. ImmedInv'
  BY <1>1 DEF ImmedInv
<1>15. CountInv'
  BY <1>1, SameCount
<1> QED
  BY <1>1, <1>10, <1>11, <1>12, <1>13, <1>14, <1>15

\* What would be undefined does not happen: a connection that has ticked is in
\* the hash, and the heap holds living connections only.
LEMMA NothingUndefined ==
  ASSUME TypeOK, EngineInv
  PROVE  ~stale_tickable /\ \A c \in Conns : ~untick_destroys(c)
<1> USE DEF TypeOK, EngineInv
<1>1. ~stale_tickable
  BY DEF stale_tickable, FlagsAreQueues, AliveIsReferenced
<1>2. ASSUME NEW c \in Conns, untick_destroys(c) PROVE FALSE
  BY <1>2 DEF untick_destroys, TickInv, FlagsAreQueues
<1> QED
  BY <1>1, <1>2

-------------------------------------------------------------------------------
(* Types.                                                                  *)

LEMMA GrownType == TypeOK => Grown \in Int
  BY DEF Grown, TypeOK

LEMMA TypesKept ==
  ASSUME TypeOK, [Next]_vars
  PROVE  TypeOK'
<1> USE DEF TypeOK, Phases, Over, RefFlags, engineVars, connVars, queueVars, passVars, sendVars
<1>1. ASSUME NEW c \in Conns, connect(c) PROVE TypeOK'
  BY <1>1 DEF connect, Make, Grown
<1>2. ASSUME NEW c \in Conns, connect_fails(c) PROVE TypeOK'
  <2>1. /\ nalloc' \in Int /\ tickable' \subseteq Conns /\ spoiled' \in BOOLEAN
        /\ life' \in [Conns -> {"unborn", "alive", "gone"}]
    BY <1>2, GrownType DEF connect_fails, Discard
  <2> QED
    BY <1>2, <2>1 DEF connect_fails
<1>3. ASSUME NEW c \in Conns, packet_in(c) PROVE TypeOK'
  BY <1>3 DEF packet_in
<1>4. ASSUME NEW c \in Conns, packet_in_new_mini(c) PROVE TypeOK'
  BY <1>4 DEF packet_in_new_mini, Make, Grown
<1>5. ASSUME NEW m \in Conns, NEW c \in Conns, packet_in_promotes(m, c) PROVE TypeOK'
  BY <1>5 DEF packet_in_promotes, Make, Grown
<1>6. ASSUME NEW m \in Conns, NEW c \in Conns, packet_in_promotion_fails(m, c) PROVE TypeOK'
  <2>1. /\ nalloc' \in Int /\ tickable' \subseteq Conns /\ spoiled' \in BOOLEAN
        /\ life' \in [Conns -> {"unborn", "alive", "gone"}]
    BY <1>6, GrownType DEF packet_in_promotion_fails, Discard
  <2> QED
    BY <1>6, <2>1 DEF packet_in_promotion_fails
<1>7. ASSUME NEW c \in Conns, add_conn_to_tickable(c) PROVE TypeOK'
  BY <1>7 DEF add_conn_to_tickable
<1>8. ASSUME NEW c \in Conns, add_conn_to_attq(c) PROVE TypeOK'
  BY <1>8 DEF add_conn_to_attq
<1>9. ASSUME NEW c \in Conns, drop_mini_conn(c) PROVE TypeOK'
  BY <1>9 DEF drop_mini_conn, Keep
<1>10. ASSUME NEW c \in Conns, pop_attq(c) PROVE TypeOK'
  BY <1>10 DEF pop_attq, Keep
<1>11. ASSUME NEW c \in Conns, tick(c) PROVE TypeOK'
  <2>1. PICK after \in SUBSET RefFlags : ref' = [ref EXCEPT ![c] = after]
    BY <1>11, AfterPopped DEF tick
  <2>2. /\ out' \subseteq Conns /\ closed' \subseteq Conns /\ ticked' \subseteq Conns
        /\ hash' \subseteq Conns /\ spoiled' \in BOOLEAN /\ phase' \in Phases
    BY <1>11 DEF tick, HandleTick
  <2> QED
    BY <1>11, <2>1, <2>2 DEF tick
<1>12. ASSUME NEW c \in Conns, last_reference(c) PROVE TypeOK'
  BY <1>12 DEF last_reference, Keep, AfterTicks
<1>13. ASSUME NEW c \in Conns, tick_new_full(c) PROVE TypeOK'
  <2>1. PICK after \in SUBSET RefFlags : ref' = [ref EXCEPT ![c] = after]
    BY <1>13, AfterTickFlags DEF tick_new_full, Popped
  <2>2. /\ out' \subseteq Conns /\ closed' \subseteq Conns /\ ticked' \subseteq Conns
        /\ hash' \subseteq Conns /\ spoiled' \in BOOLEAN /\ phase' \in Phases
    BY <1>13 DEF tick_new_full, HandleTick
  <2> QED
    BY <1>13, <2>1, <2>2 DEF tick_new_full
<1>14. ASSUME NEW m \in Conns, NEW c \in Conns, tick_promotes(m, c) PROVE TypeOK'
  <2>1. PICK after \in SUBSET RefFlags : Make(c, [ref EXCEPT ![m] = after, ![c] = {"HASHED"}])
    BY <1>14, AfterPopped DEF tick_promotes
  <2>2. /\ out' \subseteq Conns /\ closed' \subseteq Conns /\ ticked' \subseteq Conns
        /\ hash' \subseteq Conns /\ spoiled' \in BOOLEAN /\ phase' \in Phases
    BY <1>14 DEF tick_promotes, HandleTick
  <2>3. /\ nalloc' \in Int /\ n_conns' \in Int
        /\ life' \in [Conns -> {"unborn", "alive", "gone"}]
    BY <2>1, GrownType DEF Make
  <2>4. ref' \in [Conns -> SUBSET RefFlags]
    <3>1. ref' = [[ref EXCEPT ![m] = after] EXCEPT ![c] = {"HASHED"}]
      BY <2>1 DEF Make
    <3> QED
      BY <3>1
  <2> QED
    BY <1>14, <2>2, <2>3, <2>4 DEF tick_promotes
<1>15. ASSUME NEW c \in Conns, batched_all(c) PROVE TypeOK'
  BY <1>15 DEF batched_all
<1>16. ASSUME NEW c \in Conns, bad_crypt(c) PROVE TypeOK'
  BY <1>16 DEF bad_crypt, CloseNow
<1>17. ASSUME NEW c \in Conns, batch_packet(c) PROVE TypeOK'
  BY <1>17 DEF batch_packet
<1>18. ASSUME NEW c \in Conns, batch_fails(c) PROVE TypeOK'
  BY <1>18 DEF batch_fails, CloseNow, NotSent
<1>19. ASSUME NEW c \in Conns, reheap_active(c) PROVE TypeOK'
  BY <1>19 DEF reheap_active, Keep
<1>20. ASSUME NEW c \in Conns, reheap_inactive(c) PROVE TypeOK'
  BY <1>20 DEF reheap_inactive, Keep
<1>21. ASSUME NEW c \in Conns, drop_closed(c) PROVE TypeOK'
  BY <1>21 DEF drop_closed, Keep
<1>22. ASSUME NEW c \in Conns, untick(c) PROVE TypeOK'
  BY <1>22 DEF untick
<1>23. ASSUME NEW c \in Conns, untick_destroys(c) PROVE TypeOK'
  BY <1>23 DEF untick_destroys, Keep
<1>24. ASSUME NEW c \in Conns, dtor_out(c) PROVE TypeOK'
  BY <1>24 DEF dtor_out, Keep
<1>25. ASSUME NEW c \in Conns, dtor_tickable(c) PROVE TypeOK'
  BY <1>25 DEF dtor_tickable, Keep
<1>26. ASSUME NEW c \in Conns, dtor_hash(c) PROVE TypeOK'
  BY <1>26 DEF dtor_hash, Keep
<1>27. ASSUME NEW c \in Conns, dtor_attq(c) PROVE TypeOK'
  BY <1>27 DEF dtor_attq, Keep
<1>28. ASSUME start_cooldown PROVE TypeOK'
  BY <1>28 DEF start_cooldown
<1>29. ASSUME cooldown_done PROVE TypeOK'
  BY <1>29 DEF cooldown_done
<1>30. ASSUME process_conns PROVE TypeOK'
  BY <1>30 DEF process_conns
<1>31. ASSUME attq_done PROVE TypeOK'
  BY <1>31 DEF attq_done
<1>32. ASSUME ticks_done PROVE TypeOK'
  BY <1>32 DEF ticks_done, AfterTicks
<1>33. ASSUME stale_tickable PROVE TypeOK'
  BY <1>33 DEF stale_tickable
<1>34. ASSUME send_unsent_packets PROVE TypeOK'
  BY <1>34 DEF send_unsent_packets
<1>35. ASSUME out_done PROVE TypeOK'
  BY <1>35 DEF out_done
<1>36. ASSUME batch_sent PROVE TypeOK'
  BY <1>36 DEF batch_sent
<1>37. ASSUME batch_refused PROVE TypeOK'
  BY <1>37 DEF batch_refused, NotSent
<1>38. ASSUME reheap_done PROVE TypeOK'
  BY <1>38 DEF reheap_done
<1>39. ASSUME closed_done PROVE TypeOK'
  BY <1>39 DEF closed_done
<1>40. ASSUME ticked_done PROVE TypeOK'
  BY <1>40 DEF ticked_done
<1>41. ASSUME engine_destroy PROVE TypeOK'
  BY <1>41 DEF engine_destroy
<1>42. CASE UNCHANGED vars
  BY <1>42 DEF vars
<1> QED
  BY <1>1, <1>2, <1>3, <1>4, <1>5, <1>6, <1>7, <1>8, <1>9, <1>10, <1>11, <1>12, <1>13, <1>14, <1>15, <1>16, <1>17, <1>18, <1>19, <1>20, <1>21, <1>22, <1>23, <1>24, <1>25, <1>26, <1>27, <1>28, <1>29, <1>30, <1>31, <1>32, <1>33, <1>34, <1>35, <1>36, <1>37, <1>38, <1>39, <1>40, <1>41, <1>42
     DEF Next, Outside, Process, Send, Finish, Turn

LEMMA SpoiledStays ==
  ASSUME TypeOK, [Next]_vars, spoiled
  PROVE  spoiled'
<1>1. ASSUME NEW c \in Conns, Outside(c) PROVE spoiled'
  BY <1>1 DEF Outside, Discard, connect, connect_fails, packet_in, packet_in_new_mini,
       packet_in_promotes, packet_in_promotion_fails, add_conn_to_tickable,
       add_conn_to_attq, drop_mini_conn
<1>2. ASSUME NEW c \in Conns, Process(c) PROVE spoiled'
  BY <1>2 DEF Process, pop_attq, tick, last_reference, tick_new_full, tick_promotes,
       HandleTick
<1>3. ASSUME NEW c \in Conns, Send(c) PROVE spoiled'
  BY <1>3 DEF Send, batched_all, bad_crypt, batch_packet, batch_fails, reheap_active,
       reheap_inactive
<1>4. ASSUME NEW c \in Conns, Finish(c) PROVE spoiled'
  BY <1>4 DEF Finish, drop_closed, untick, untick_destroys, dtor_out, dtor_tickable,
       dtor_hash, dtor_attq
<1>5. CASE Turn
  BY <1>5 DEF Turn, start_cooldown, cooldown_done, process_conns, attq_done,
       ticks_done, stale_tickable, send_unsent_packets, out_done, batch_sent,
       batch_refused, reheap_done, closed_done, ticked_done, engine_destroy
<1> QED
  BY <1>1, <1>2, <1>3, <1>4, <1>5 DEF Next, vars

-------------------------------------------------------------------------------
LEMMA EngineKept ==
  ASSUME TypeOK, EngineInv, [Next]_vars
  PROVE  spoiled' \/ EngineInv'
<1>1. ASSUME NEW c \in Conns, connect(c) PROVE spoiled' \/ EngineInv'
  BY <1>1, connect_keeps
<1>2. ASSUME NEW c \in Conns, connect_fails(c) PROVE spoiled' \/ EngineInv'
  BY <1>2, connect_fails_keeps
<1>3. ASSUME NEW c \in Conns, packet_in(c) PROVE spoiled' \/ EngineInv'
  BY <1>3, packet_in_keeps
<1>4. ASSUME NEW c \in Conns, packet_in_new_mini(c) PROVE spoiled' \/ EngineInv'
  BY <1>4, packet_in_new_mini_keeps
<1>5. ASSUME NEW m \in Conns, NEW c \in Conns, packet_in_promotes(m, c) PROVE spoiled' \/ EngineInv'
  BY <1>5, packet_in_promotes_keeps
<1>6. ASSUME NEW m \in Conns, NEW c \in Conns, packet_in_promotion_fails(m, c) PROVE spoiled' \/ EngineInv'
  BY <1>6, packet_in_promotion_fails_keeps
<1>7. ASSUME NEW c \in Conns, add_conn_to_tickable(c) PROVE spoiled' \/ EngineInv'
  BY <1>7, add_conn_to_tickable_keeps
<1>8. ASSUME NEW c \in Conns, add_conn_to_attq(c) PROVE spoiled' \/ EngineInv'
  BY <1>8, add_conn_to_attq_keeps
<1>9. ASSUME NEW c \in Conns, drop_mini_conn(c) PROVE spoiled' \/ EngineInv'
  BY <1>9, drop_mini_conn_keeps
<1>10. ASSUME NEW c \in Conns, pop_attq(c) PROVE spoiled' \/ EngineInv'
  BY <1>10, pop_attq_keeps
<1>11. ASSUME NEW c \in Conns, tick(c) PROVE spoiled' \/ EngineInv'
  BY <1>11, tick_keeps
<1>12. ASSUME NEW c \in Conns, last_reference(c) PROVE spoiled' \/ EngineInv'
  BY <1>12, last_reference_keeps
<1>13. ASSUME NEW c \in Conns, tick_new_full(c) PROVE spoiled' \/ EngineInv'
  BY <1>13, tick_new_full_keeps
<1>14. ASSUME NEW m \in Conns, NEW c \in Conns, tick_promotes(m, c) PROVE spoiled' \/ EngineInv'
  BY <1>14, tick_promotes_keeps
<1>15. ASSUME NEW c \in Conns, batched_all(c) PROVE spoiled' \/ EngineInv'
  BY <1>15, batched_all_keeps
<1>16. ASSUME NEW c \in Conns, bad_crypt(c) PROVE spoiled' \/ EngineInv'
  BY <1>16, bad_crypt_keeps
<1>17. ASSUME NEW c \in Conns, batch_packet(c) PROVE spoiled' \/ EngineInv'
  BY <1>17, batch_packet_keeps
<1>18. ASSUME NEW c \in Conns, batch_fails(c) PROVE spoiled' \/ EngineInv'
  BY <1>18, batch_fails_keeps
<1>19. ASSUME NEW c \in Conns, reheap_active(c) PROVE spoiled' \/ EngineInv'
  BY <1>19, reheap_active_keeps
<1>20. ASSUME NEW c \in Conns, reheap_inactive(c) PROVE spoiled' \/ EngineInv'
  BY <1>20, reheap_inactive_keeps
<1>21. ASSUME NEW c \in Conns, drop_closed(c) PROVE spoiled' \/ EngineInv'
  BY <1>21, drop_closed_keeps
<1>22. ASSUME NEW c \in Conns, untick(c) PROVE spoiled' \/ EngineInv'
  BY <1>22, untick_keeps
<1>23. ASSUME NEW c \in Conns, dtor_out(c) PROVE spoiled' \/ EngineInv'
  BY <1>23, dtor_out_keeps
<1>24. ASSUME NEW c \in Conns, dtor_tickable(c) PROVE spoiled' \/ EngineInv'
  BY <1>24, dtor_tickable_keeps
<1>25. ASSUME NEW c \in Conns, dtor_hash(c) PROVE spoiled' \/ EngineInv'
  BY <1>25, dtor_hash_keeps
<1>26. ASSUME NEW c \in Conns, dtor_attq(c) PROVE spoiled' \/ EngineInv'
  BY <1>26, dtor_attq_keeps
<1>27. ASSUME start_cooldown PROVE spoiled' \/ EngineInv'
  BY <1>27, start_cooldown_keeps
<1>28. ASSUME cooldown_done PROVE spoiled' \/ EngineInv'
  BY <1>28, cooldown_done_keeps
<1>29. ASSUME process_conns PROVE spoiled' \/ EngineInv'
  BY <1>29, process_conns_keeps
<1>30. ASSUME attq_done PROVE spoiled' \/ EngineInv'
  BY <1>30, attq_done_keeps
<1>31. ASSUME ticks_done PROVE spoiled' \/ EngineInv'
  BY <1>31, ticks_done_keeps
<1>32. ASSUME send_unsent_packets PROVE spoiled' \/ EngineInv'
  BY <1>32, send_unsent_packets_keeps
<1>33. ASSUME out_done PROVE spoiled' \/ EngineInv'
  BY <1>33, out_done_keeps
<1>34. ASSUME batch_sent PROVE spoiled' \/ EngineInv'
  BY <1>34, batch_sent_keeps
<1>35. ASSUME batch_refused PROVE spoiled' \/ EngineInv'
  BY <1>35, batch_refused_keeps
<1>36. ASSUME reheap_done PROVE spoiled' \/ EngineInv'
  BY <1>36, reheap_done_keeps
<1>37. ASSUME closed_done PROVE spoiled' \/ EngineInv'
  BY <1>37, closed_done_keeps
<1>38. ASSUME ticked_done PROVE spoiled' \/ EngineInv'
  BY <1>38, ticked_done_keeps
<1>39. ASSUME engine_destroy PROVE spoiled' \/ EngineInv'
  BY <1>39, engine_destroy_keeps
<1>40. CASE UNCHANGED vars
  BY <1>40 DEF vars, engineVars, connVars, queueVars, passVars, sendVars, EngineInv,
     FlagsAreQueues, AliveIsReferenced, Alive, OutgoingInv, PhaseInv, TickInv, ImmedInv,
     CountInv, Live
<1> QED
  BY NothingUndefined, <1>1, <1>2, <1>3, <1>4, <1>5, <1>6, <1>7, <1>8, <1>9, <1>10, <1>11, <1>12, <1>13, <1>14, <1>15, <1>16, <1>17, <1>18, <1>19, <1>20, <1>21, <1>22, <1>23, <1>24, <1>25, <1>26, <1>27, <1>28, <1>29, <1>30, <1>31, <1>32, <1>33, <1>34, <1>35, <1>36, <1>37, <1>38, <1>39, <1>40
     DEF Next, Outside, Process, Send, Finish, Turn

LEMMA EngineStarts == Init => ConnsInv
<1> SUFFICES ASSUME Init PROVE TypeOK /\ EngineInv
  BY DEF ConnsInv
<1>1. TypeOK
  <2>1. ref \in [Conns -> SUBSET RefFlags] /\ life \in [Conns -> {"unborn", "alive", "gone"}]
    BY DEF Init
  <2>2. /\ phase \in Phases
        /\ canSend \in BOOLEAN /\ flags \subseteq {"SERVER", "COOLDOWN"} /\ spoiled \in BOOLEAN
    BY DEF Init, Phases
  <2> QED
    BY <2>1, <2>2 DEF Init, TypeOK
<1>2. Live = {}
  BY DEF Init, Live, Alive
<1>3. CountInv
  BY <1>2, FS_EmptySet DEF Init, CountInv
<1> QED
  BY <1>1, <1>3 DEF Init, EngineInv, FlagsAreQueues, AliveIsReferenced, Alive, OutgoingInv,
                    PhaseInv, TickInv, ImmedInv, Over

LEMMA ConnsInvKept == ConnsInv /\ [Next]_vars => ConnsInv'
<1> SUFFICES ASSUME ConnsInv, [Next]_vars PROVE ConnsInv'
  OBVIOUS
<1>1. TypeOK'
  BY TypesKept DEF ConnsInv
<1>2. CASE spoiled
  BY <1>1, <1>2, SpoiledStays DEF ConnsInv
<1>3. CASE EngineInv
  BY <1>1, <1>3, EngineKept DEF ConnsInv
<1> QED
  BY <1>2, <1>3 DEF ConnsInv

\* The inductive invariant (lsquic_engine.c 157-194 and 1921-1966): until what
\* the engine relies on has failed, flags and queues agree, a connection lives
\* as long as something refers to it, and the heaps have room for all of them.
THEOREM EngineInvariance == Spec => []ConnsInv
BY EngineStarts, ConnsInvKept, PTL DEF Spec

\* lsquic_engine.c 157-194: no connection is destroyed while a queue holds it,
\* and none is used after that, through callbacks that connect, errors of the
\* socket, promotions and the destruction of the engine.
THEOREM NoUseAfterDestroy == Spec => []ReferencedLive
<1>1. ASSUME ConnsInv, EngineInv, NEW c \in Conns
      PROVE  Alive(c) <=> c \in hash \cup out \cup active \cup inactive \cup tickable \cup attq
                              \cup closed \cup ticked
  <2>1. ref[c] # {} <=> \E f \in RefFlags : f \in ref[c]
    BY <1>1 DEF ConnsInv, TypeOK
  <2> QED
    BY <1>1, <2>1 DEF EngineInv, FlagsAreQueues, AliveIsReferenced, RefFlags
<1>2. ConnsInv => ReferencedLive
  BY <1>1 DEF ConnsInv, EngineInv, ReferencedLive, Live, TypeOK
<1> QED
  BY <1>2, EngineInvariance, PTL

\* lsquic_engine.c 1696 asserts it: the destructor leaves no connection.
THEOREM DestructorLeavesNone == Spec => []DestroyedIsEmpty
<1>1. ASSUME ConnsInv, phase = "destroyed", ~spoiled PROVE Live = {} /\ n_conns = 0
  <2> USE DEF ConnsInv, EngineInv
  <2>1. \A c \in Conns : ref[c] = {}
    BY <1>1 DEF FlagsAreQueues, PhaseInv, Over, TypeOK, RefFlags
  <2>2. Live = {}
    BY <1>1, <2>1 DEF AliveIsReferenced, Live
  <2> QED
    BY <1>1, <2>2, FS_EmptySet DEF CountInv
<1>2. ConnsInv => DestroyedIsEmpty
  BY <1>1 DEF DestroyedIsEmpty
<1> QED
  BY <1>2, EngineInvariance, PTL

\* min_heap.c asserts it at every insertion: no heap is asked to hold more than
\* maybe_grow_conn_heaps has made room for.
THEOREM HeapsNeverOverflow == Spec => []HeapsHaveRoom
<1>1. ASSUME ConnsInv, ~spoiled, NEW S, S \subseteq Live PROVE IsFiniteSet(S) /\ Cardinality(S) <= nalloc
  <2>1. IsFiniteSet(Live) /\ n_conns = Cardinality(Live) /\ n_conns <= nalloc /\ nalloc \in Int
    BY <1>1 DEF ConnsInv, EngineInv, CountInv, TypeOK
  <2>2. IsFiniteSet(S) /\ Cardinality(S) <= Cardinality(Live)
    BY <1>1, <2>1, FS_Subset
  <2>3. Cardinality(S) \in Nat /\ Cardinality(Live) \in Nat
    BY <2>1, <2>2, FS_CardinalityType
  <2> QED
    BY <2>1, <2>2, <2>3
<1>2. ASSUME ConnsInv, ~spoiled PROVE tickable \subseteq Live /\ out \cup active \cup inactive \subseteq Live
  BY <1>2 DEF ConnsInv, EngineInv, FlagsAreQueues, AliveIsReferenced, Live, TypeOK
<1>3. ConnsInv => HeapsHaveRoom
  BY <1>1, <1>2 DEF HeapsHaveRoom
<1> QED
  BY <1>3, EngineInvariance, PTL

===============================================================================
