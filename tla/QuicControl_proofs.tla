-------------------------- MODULE QuicControl_proofs --------------------------
(***************************************************************************)
(* The control block, for any number of callers and of connections.  The   *)
(* slot is right in every case; what is known of the connections holds     *)
(* until the socket refuses the last packet of one; the ticks need a       *)
(* quic_run that does not give up.                                         *)
(***************************************************************************)
EXTENDS QuicControl, TLAPS

-------------------------------------------------------------------------------
(* What the two sides leave alone.                                         *)

\* The callers write the slot, and only while the mutex is free.
LEMMA CallerFrame ==
  ASSUME TypeOK, NEW c \in Callers, Caller(c)
  PROVE  /\ UNCHANGED <<status, conn, runing, mutex, engineVars, connVars>>
         /\ \/ cmd' = cmd
            \/ mutex = Nobody /\ pc[c] \in {"ask", "post"} /\ cmd' \in {"CONNECT", "CLOSE"}
         /\ \A d \in Callers \ {c} : pc'[d] = pc[d] /\ call'[d] = call[d]
         /\ pc[c] # "new" /\ pc'[c] # "new"
<1>1. CASE Enter(c, "connect") \/ Enter(c, "close")
  BY <1>1 DEF TypeOK, Enter, CallerAt, blockVars, engineVars, connVars
<1>2. CASE AlreadyConnected(c) \/ NotYetConnected(c)
  BY <1>2 DEF TypeOK, AlreadyConnected, NotYetConnected, Return, CallerAt,
     blockVars, engineVars, connVars
<1>3. CASE Post(c)
  BY <1>3 DEF TypeOK, Post, CallerAt, engineVars, connVars
<1>4. CASE WaitStatus(c) \/ WaitClock(c)
  BY <1>4 DEF TypeOK, WaitStatus, WaitClock, Return, CallerAt, blockVars,
     engineVars, connVars
<1> QED
  BY <1>1, <1>2, <1>3, <1>4 DEF Caller

\* The engine thread does not touch the callers, and writes the slot only in
\* unlocking.
LEMMA EngineFrame ==
  ASSUME EngineThread
  PROVE  UNCHANGED callerVars /\ (cmd' = cmd \/ contrl_unlock)
  BY DEF EngineThread, make_client_ctx, contrl_func, contrl_lock, contrl_none,
     contrl_start, contrl_connect, contrl_close, connect_made, connect_null,
     connect_assign, contrl_unlock, timer_handler, timer_not_due,
     client_read_net_data, client_process_conns, blockVars

\* The steps of the engine thread that move it along and change nothing of
\* the block or of the connections.
Moves ==
  \/ make_client_ctx \/ contrl_lock \/ contrl_none \/ contrl_connect
  \/ connect_null \/ timer_handler \/ timer_not_due \/ client_read_net_data

\* What a step that moves the engine thread alone leaves as it is.
LEMMA MovesFrame ==
  ASSUME Moves
  PROVE  /\ UNCHANGED <<cmd, status, conn, runing, callerVars, connVars>>
         /\ epc \notin {"off", "made", "start", "undefined"}
         /\ epc' \notin {"off", "starting", "made", "start", "undefined"}
  BY DEF Moves, make_client_ctx, contrl_lock, contrl_none, contrl_connect,
     connect_null, timer_handler, timer_not_due, client_read_net_data,
     At, blockVars

\* The engine thread's steps, one by one.
LEMMA EngineSteps ==
  EngineThread <=>
    \/ Moves \/ contrl_start \/ connect_made \/ connect_assign \/ contrl_close
    \/ contrl_unlock \/ client_process_conns
  BY DEF EngineThread, contrl_func, Moves

-------------------------------------------------------------------------------
(* Types.                                                                  *)

\* The control block starts well typed.
LEMMA TypeInit == Init => TypeOK
<1> SUFFICES ASSUME Init PROVE TypeOK
  OBVIOUS
<1>1. call \in [Callers -> DOMAIN Awaited \cup {"none"}]
  BY DEF Init, Awaited
<1>2. /\ pc \in [Callers -> {"new", "idle", "ask", "post", "wait", "clock"}]
      /\ life \in [Conns -> Lives]
      /\ stream \in [Conns -> Nat \cup {NoStream}]
  BY DEF Init, Lives
<1>3. conn \in 0..MaxConns /\ made \in 0..MaxConns /\ stream_id \in Nat
  BY ControlAssumption DEF Init
<1> QED
  BY <1>1, <1>2, <1>3 DEF Init, TypeOK, Commands, Statuses

\* What the engine thread may find in `epc` after a step.
LEMMA TypeStep ==
  ASSUME TypeOK, [Next]_vars
  PROVE  TypeOK'
<1> USE DEF TypeOK, Commands, Statuses, Conns
<1>1. CASE quic_run
  BY <1>1, ControlAssumption DEF quic_run, CallerAt, connVars
<1>2. ASSUME NEW c \in Callers, Caller(c)
      PROVE  TypeOK'
  <2>1. pc' \in [Callers -> {"new", "idle", "ask", "post", "wait", "clock"}]
    BY <1>2 DEF Caller, Enter, AlreadyConnected, NotYetConnected, Post,
       WaitStatus, WaitClock, Return, CallerAt
  <2>2. call' \in [Callers -> DOMAIN Awaited \cup {"none"}]
    BY <1>2 DEF Caller, Enter, AlreadyConnected, NotYetConnected, Post,
       WaitStatus, WaitClock, Return, Awaited
  <2> QED
    BY <1>2, <2>1, <2>2, CallerFrame DEF engineVars, connVars
<1>3. CASE Moves
  <2>1. epc' \in Critical \cup {"contrl", "timer", "net", "process_timer", "process_net"}
    BY <1>3 DEF Moves, make_client_ctx, contrl_lock, contrl_none, contrl_connect,
       connect_null, timer_handler, timer_not_due, client_read_net_data,
       At, Critical
  <2>2. mutex' \in {Nobody, Engine} /\ reading' \in Commands /\ timer' \in BOOLEAN
    BY <1>3 DEF Moves, make_client_ctx, contrl_lock, contrl_none, contrl_connect,
       connect_null, timer_handler, timer_not_due, client_read_net_data,
       blockVars
  <2> QED
    BY <1>3, <2>1, <2>2, MovesFrame DEF callerVars, connVars
<1>4. CASE contrl_start
  BY <1>4 DEF contrl_start, At, Critical, callerVars, connVars
<1>5. CASE connect_made
  BY <1>5, ControlAssumption DEF connect_made, At, Critical, Lives, callerVars
<1>6. CASE connect_assign
  BY <1>6, ControlAssumption DEF connect_assign, At, Critical, callerVars, connVars
<1>7. CASE contrl_close
  BY <1>7, ControlAssumption DEF contrl_close, At, Critical, Lives, callerVars
<1>8. CASE contrl_unlock
  BY <1>8 DEF contrl_unlock, At, Critical, callerVars, connVars
<1>9. CASE client_process_conns
  <2>1. epc' \in {"end", "net", "contrl"}
    BY <1>9 DEF client_process_conns, ProcessNothing, ProcessDestroy,
       ProcessOther, Processed, At
  <2>2. /\ status' \in Statuses /\ stream_id' \in Nat /\ refused' \in BOOLEAN
        /\ life' \in [Conns -> Lives] /\ stream' \in [Conns -> Nat \cup {NoStream}]
    <3>1. CASE ProcessNothing
      BY <3>1 DEF ProcessNothing
    <3>2. CASE \E n \in Conns : Destroy(n)
      BY <3>2 DEF Destroy, on_conn_closed, Lives
    <3>3. CASE \E n \in Conns : LeaveUnsent(n)
      BY <3>3 DEF LeaveUnsent, Lives
    <3>4. CASE \E n \in Conns : OpenStream(n)
      <4> PICK n \in Conns : OpenStream(n)
        BY <3>4
      <4> QED
        BY DEF OpenStream
    <3> QED
      BY <1>9, <3>1, <3>2, <3>3, <3>4
      DEF client_process_conns, ProcessDestroy, ProcessOther
  <2>3. timer' \in BOOLEAN
    BY <1>9 DEF client_process_conns, ArmTimer
  <2> QED
    BY <1>9, <2>1, <2>2, <2>3 DEF client_process_conns, Critical, callerVars
<1>10. CASE UNCHANGED vars
  BY <1>10 DEF vars, blockVars, callerVars, engineVars, connVars
<1> QED
  BY <1>1, <1>2, <1>3, <1>4, <1>5, <1>6, <1>7, <1>8, <1>9, <1>10, EngineSteps
  DEF Next

\* Every variable of the control block and of the engine keeps its type.
THEOREM ControlTypeCorrect == Spec => []TypeOK
<1>1. TypeOK /\ [Next]_vars => TypeOK'
  BY TypeStep
<1> QED
  BY TypeInit, <1>1, PTL DEF Spec

-------------------------------------------------------------------------------
(* The slot and the engine's start, for every value of the constants.      *)

\* contrl_func holds the mutex from its first line to its last.
LEMMA SectionStep ==
  ASSUME BaseInv, [Next]_vars
  PROVE  SectionInv'
<1> USE ControlAssumption DEF BaseInv, SectionInv
<1>1. CASE quic_run
  BY <1>1 DEF quic_run, StartInv, CallerAt, Critical
<1>2. ASSUME NEW c \in Callers, Caller(c)
      PROVE  SectionInv'
  BY <1>2, CallerFrame DEF engineVars, Critical
<1>3. CASE Moves
  BY <1>3 DEF Moves, make_client_ctx, contrl_lock, contrl_none, contrl_connect,
     connect_null, timer_handler, timer_not_due, client_read_net_data,
     At, Critical, blockVars
<1>4. CASE contrl_start \/ contrl_close
  BY <1>4 DEF contrl_start, contrl_close, At, Critical
<1>5. CASE connect_made \/ connect_assign
  BY <1>5 DEF connect_made, connect_assign, At, Critical
<1>6. CASE contrl_unlock \/ client_process_conns
  BY <1>6 DEF contrl_unlock, client_process_conns, ProcessNothing,
     ProcessDestroy, ProcessOther, Processed, At, Critical
<1>7. CASE UNCHANGED vars
  BY <1>7 DEF vars, blockVars, engineVars, Critical
<1> QED
  BY <1>1, <1>2, <1>3, <1>4, <1>5, <1>6, <1>7, EngineSteps DEF Next

\* Who asks has been let in by the end of quic_run.
LEMMA AskersEntered ==
  ASSUME BaseInv, NEW c \in Callers, pc[c] \in {"ask", "post"}
  PROVE  call[c] \in {"connect", "close"} /\ epc # "off"
<1>1. call[c] \in {"run", "connect", "close", "none"}
  BY DEF BaseInv, TypeOK, Awaited
<1> QED
  BY <1>1, ControlAssumption DEF BaseInv, CallInv, StartInv

\* START is the first command, and is acted on before any other is asked for.
LEMMA StartStep ==
  ASSUME BaseInv, [Next]_vars
  PROVE  StartInv'
<1> USE ControlAssumption DEF BaseInv, StartInv
<1>1. CASE quic_run
  BY <1>1 DEF quic_run, CallerAt, TypeOK, connVars
<1>2. ASSUME NEW c \in Callers, Caller(c)
      PROVE  StartInv'
  <2>1. pc'[Main] = "new" <=> pc[Main] = "new"
    BY <1>2, CallerFrame
  <2> QED
    BY <1>2, <2>1, CallerFrame, AskersEntered DEF engineVars, connVars
<1>3. CASE Moves
  BY <1>3, MovesFrame DEF callerVars, connVars
<1>4. CASE contrl_start \/ contrl_close
  BY <1>4 DEF contrl_start, contrl_close, At, callerVars, connVars
<1>5. CASE connect_made \/ connect_assign
  BY <1>5 DEF connect_made, connect_assign, SectionInv, Critical, At,
     callerVars, connVars
<1>6. CASE contrl_unlock \/ client_process_conns
  BY <1>6 DEF contrl_unlock, client_process_conns, ProcessNothing,
     ProcessDestroy, ProcessOther, Processed, At, callerVars, connVars
<1>7. CASE UNCHANGED vars
  BY <1>7 DEF vars, blockVars, callerVars, engineVars, connVars
<1> QED
  BY <1>1, <1>2, <1>3, <1>4, <1>5, <1>6, <1>7, EngineSteps DEF Next

\* A caller's step keeps the place and the call of the caller together.
LEMMA CallStep ==
  ASSUME BaseInv, [Next]_vars
  PROVE  CallInv'
<1> USE ControlAssumption DEF BaseInv, CallInv, TypeOK
<1>1. CASE quic_run
  BY <1>1 DEF quic_run, CallerAt
<1>2. ASSUME NEW c \in Callers, Enter(c, "connect") \/ Enter(c, "close")
      PROVE  CallInv'
  BY <1>2 DEF Enter, CallerAt
<1>3. ASSUME NEW c \in Callers, AlreadyConnected(c) \/ NotYetConnected(c)
      PROVE  CallInv'
  BY <1>3 DEF AlreadyConnected, NotYetConnected, Return, CallerAt
<1>4. ASSUME NEW c \in Callers, Post(c)
      PROVE  CallInv'
  BY <1>4 DEF Post, CallerAt
<1>5. ASSUME NEW c \in Callers, WaitStatus(c) \/ WaitClock(c)
      PROVE  CallInv'
  BY <1>5 DEF WaitStatus, WaitClock, Return, CallerAt
<1>6. CASE EngineThread
  BY <1>6, EngineFrame DEF callerVars
<1>7. CASE UNCHANGED vars
  BY <1>7 DEF vars, callerVars
<1> QED
  BY <1>1, <1>2, <1>3, <1>4, <1>5, <1>6, <1>7 DEF Next, Caller

\* Connections are numbered in the order in which they are made.
LEMMA BirthStep ==
  ASSUME BaseInv, [Next]_vars
  PROVE  BirthInv'
<1> USE DEF BaseInv, BirthInv
<1>1. CASE quic_run
  BY <1>1 DEF quic_run, connVars
<1>2. ASSUME NEW c \in Callers, Caller(c)
      PROVE  BirthInv'
  BY <1>2, CallerFrame DEF connVars
<1>3. CASE Moves
  BY <1>3, MovesFrame DEF connVars
<1>4. CASE contrl_start \/ connect_assign \/ contrl_unlock
  BY <1>4 DEF contrl_start, connect_assign, contrl_unlock, connVars
<1>5. CASE connect_made
  BY <1>5 DEF connect_made, TypeOK, Conns
<1>6. CASE contrl_close
  BY <1>6 DEF contrl_close, Hashed, TypeOK, Conns
<1>7. CASE client_process_conns
  BY <1>7 DEF client_process_conns, ProcessNothing, ProcessDestroy, ProcessOther,
     Destroy, on_conn_closed, LeaveUnsent, OpenStream, Alive, Hashed, TypeOK
<1>8. CASE UNCHANGED vars
  BY <1>8 DEF vars, connVars
<1> QED
  BY <1>1, <1>2, <1>3, <1>4, <1>5, <1>6, <1>7, <1>8, EngineSteps DEF Next

\* The first part of the invariant holds at the start.
LEMMA BaseInit == Init => BaseInv
<1> SUFFICES ASSUME Init PROVE BaseInv
  OBVIOUS
<1>1. SectionInv /\ StartInv /\ BirthInv
  BY ControlAssumption DEF Init, SectionInv, StartInv, BirthInv, Critical, Conns
<1>2. CallInv
  BY ControlAssumption DEF Init, CallInv
<1> QED
  BY <1>1, <1>2, TypeInit DEF BaseInv

\* The slot, the mutex and the places of the threads fit together.
THEOREM BaseInvariance == Spec => []BaseInv
<1>1. BaseInv /\ [Next]_vars => BaseInv'
  BY TypeStep, SectionStep, StartStep, CallStep, BirthStep DEF BaseInv
<1> QED
  BY BaseInit, <1>1, PTL DEF Spec

\* contrl_func never clears a command it has not acted on.
THEOREM SlotIsKept == Spec => NoCommandErased
<1>1. BaseInv /\ [Next]_vars => [cmd # "NONE" /\ cmd' = "NONE" => cmd = reading]_vars
  <2> SUFFICES ASSUME BaseInv, [Next]_vars, cmd # "NONE", cmd' = "NONE"
               PROVE  cmd = reading
    OBVIOUS
  <2>1. CASE quic_run
    BY <2>1 DEF quic_run
  <2>2. ASSUME NEW c \in Callers, Caller(c)
        PROVE  cmd = reading
    BY <2>2, CallerFrame DEF BaseInv
  <2>3. CASE EngineThread
    BY <2>3, EngineFrame DEF contrl_unlock, At, BaseInv, SectionInv, Critical
  <2>4. CASE UNCHANGED vars
    BY <2>4 DEF vars, blockVars
  <2> QED
    BY <2>1, <2>2, <2>3, <2>4 DEF Next
<1> QED
  BY BaseInvariance, <1>1, PTL DEF Spec, NoCommandErased

-------------------------------------------------------------------------------
(* The connections, until the socket refuses the last packet of one.       *)

\* Steps that leave the connections, the status and the handle alone keep ConnInv.
LEMMA ConnFrame ==
  ASSUME ConnInv, UNCHANGED <<status, conn, connVars>>,
         epc' = epc \/ epc' \notin {"made", "connect", "null"},
         epc = "made" => epc' = "made"
  PROVE  ConnInv'
  BY DEF ConnInv, LifeInv, StatusInv, HandleInv, StreamInv, connVars, Alive

\* Only the last connection made can be alive.
LEMMA OnlyTheLast ==
  ASSUME BaseInv, ConnInv, NEW n \in Conns, Alive(n)
  PROVE  n = made /\ Hashed(n)
  BY DEF BaseInv, TypeOK, BirthInv, ConnInv, LifeInv, Alive, Hashed, Conns

\* A connection is made only when no other is alive.
LEMMA ConnMade ==
  ASSUME BaseInv, ConnInv, connect_made
  PROVE  ConnInv'
<1> USE DEF BaseInv, TypeOK, Conns
<1>1. /\ made \in 0..MaxConns /\ made' = made + 1 /\ made' \in Conns
      /\ life' = [life EXCEPT ![made'] = "open"]
      /\ \A n \in Conns : ~Alive(n)
      /\ UNCHANGED <<conn, stream_id, stream>> /\ status' = "CONNECTED" /\ epc' = "made"
  BY OnlyTheLast, ControlAssumption DEF connect_made, At
<1>2. life[made'] = "unborn"
  BY <1>1 DEF BirthInv
<1>3. LifeInv'
  BY <1>1 DEF ConnInv, LifeInv, BirthInv, Alive, Lives
<1>4. StatusInv'
  BY <1>1 DEF StatusInv, Alive
<1>5. HandleInv'
  BY <1>1, <1>2 DEF ConnInv, HandleInv, Alive
<1>6. StreamInv'
  BY <1>1, <1>2 DEF ConnInv, StreamInv, Alive
<1> QED
  BY <1>3, <1>4, <1>5, <1>6 DEF ConnInv

\* The handle of the connection just made, or NULL, is stored.
LEMMA ConnAssign ==
  ASSUME BaseInv, ConnInv, connect_assign
  PROVE  ConnInv'
<1> USE DEF BaseInv, TypeOK, ConnInv
<1>1. LifeInv' /\ StatusInv' /\ StreamInv'
  BY DEF connect_assign, LifeInv, StatusInv, StreamInv, connVars, Alive
<1>2. HandleInv'
  <2>1. CASE epc = "made"
    BY <2>1, OnlyTheLast DEF connect_assign, At, HandleInv, connVars, Alive
  <2>2. CASE epc = "null"
    BY <2>2 DEF connect_assign, At, HandleInv, StatusInv, connVars, Conns
  <2> QED
    BY <2>1, <2>2 DEF connect_assign, At
<1> QED
  BY <1>1, <1>2

\* CLOSE forgets the handle of the connection it closes.
LEMMA ConnClose ==
  ASSUME BaseInv, ConnInv, contrl_close
  PROVE  ConnInv'
<1> USE DEF BaseInv, TypeOK
<1>1. /\ epc = "switch" /\ epc' \in {"end", "undefined"}
      /\ UNCHANGED <<stream_id, stream, made, refused>>
  BY DEF contrl_close, At
<1>2. CASE conn = 0
  <2>1. \A n \in Conns : life[n] # "open"
    BY <1>1, <1>2 DEF ConnInv, HandleInv, Conns
  <2>2. conn' = 0 /\ life' = life /\ status' = "CLOSE"
    BY <1>2 DEF contrl_close
  <2> QED
    BY <1>1, <1>2, <2>1, <2>2
    DEF ConnInv, LifeInv, StatusInv, HandleInv, StreamInv, Alive, Conns
<1>3. CASE conn # 0 /\ life[conn] = "gone"
  <2>1. UNCHANGED <<status, conn, life>>
    BY <1>3 DEF contrl_close
  <2> QED
    BY <1>1, <2>1, ConnFrame DEF connVars
<1>4. CASE conn # 0 /\ life[conn] # "gone"
  <2>1. conn \in Conns /\ life[conn] = "open"
    BY <1>4, ControlAssumption DEF ConnInv, HandleInv, Conns
  <2>2. /\ conn' = 0 /\ life' = [life EXCEPT ![conn] = "closing"]
        /\ status' = status
    BY <1>4, <2>1 DEF contrl_close, Hashed
  <2>3. \A n \in Conns : (Alive(n)' <=> Alive(n)) /\ life'[n] # "open"
    BY <1>1, <2>1, <2>2 DEF Alive, ConnInv, HandleInv
  <2>4. LifeInv'
    BY <1>1, <2>1, <2>2 DEF ConnInv, LifeInv
  <2>5. StatusInv' /\ HandleInv'
    BY <1>1, <2>2, <2>3 DEF ConnInv, StatusInv, HandleInv, Conns
  <2>6. StreamInv'
    BY <1>1, <2>1, <2>2, <2>3 DEF ConnInv, StreamInv
  <2> QED
    BY <2>4, <2>5, <2>6 DEF ConnInv
<1> QED
  BY <1>2, <1>3, <1>4

\* Processing may destroy the connection or open its stream.
LEMMA ConnProcess ==
  ASSUME ~refused', BaseInv, ConnInv, client_process_conns
  PROVE  ConnInv'
<1> USE DEF BaseInv, TypeOK
<1>1. /\ UNCHANGED <<conn, made>> /\ epc \notin {"made", "connect", "null"}
      /\ epc' \notin {"made", "connect", "null"}
  BY DEF client_process_conns, ProcessNothing, ProcessDestroy, ProcessOther,
     Processed, At
<1>2. CASE ProcessNothing
  BY <1>1, <1>2, ConnFrame DEF ProcessNothing, connVars
<1>3. ASSUME NEW n \in Conns, ProcessDestroy(n)
      PROVE  ConnInv'
  <2>1. /\ life' = [life EXCEPT ![n] = "gone"] /\ stream_id' = 0
        /\ status' = "CLOSE" /\ stream' = stream
        /\ n = made
    BY <1>3, OnlyTheLast DEF ProcessDestroy, Destroy, on_conn_closed
  <2>2. \A m \in Conns : ~Alive(m)'
    BY <2>1, OnlyTheLast DEF Alive
  <2>3. LifeInv' /\ StatusInv'
    BY <1>1, <2>1, <2>2 DEF ConnInv, LifeInv, StatusInv, Alive
  <2>4. HandleInv'
    BY <1>1, <2>1, <2>2 DEF ConnInv, HandleInv, Alive
  <2>5. StreamInv'
    BY <1>3, <2>1, <2>2 DEF ConnInv, StreamInv, ProcessDestroy, Destroy, Alive
  <2> QED
    BY <2>3, <2>4, <2>5 DEF ConnInv
<1>4. ASSUME NEW n \in Conns, ProcessOther(n)
      PROVE  ConnInv'
  <2>1. /\ Hashed(n) /\ stream[n] = NoStream
        /\ stream' = [stream EXCEPT ![n] = stream_id]
        /\ UNCHANGED <<status, life>>
    BY <1>4 DEF ProcessOther, LeaveUnsent, OpenStream
  <2>2. stream_id = 0 /\ Alive(n) /\ n = made
    BY <2>1, OnlyTheLast DEF ConnInv, StreamInv, Hashed, Alive
  <2>3. LifeInv' /\ StatusInv' /\ HandleInv'
    BY <1>1, <2>1 DEF ConnInv, LifeInv, StatusInv, HandleInv, Alive
  <2>4. StreamInv'
    BY <2>1, <2>2, OnlyTheLast DEF ConnInv, StreamInv, Alive, NoStream
  <2> QED
    BY <2>3, <2>4 DEF ConnInv
<1> QED
  BY <1>2, <1>3, <1>4 DEF client_process_conns

\* Every step after which no packet has been refused keeps ConnInv.
LEMMA ConnStep ==
  ASSUME ~refused', BaseInv, ConnInv, [Next]_vars
  PROVE  ConnInv'
<1>1. CASE quic_run
  BY <1>1, ConnFrame DEF quic_run, CallerAt, BaseInv, StartInv
<1>2. ASSUME NEW c \in Callers, Caller(c)
      PROVE  ConnInv'
  BY <1>2, CallerFrame, ConnFrame DEF BaseInv, engineVars
<1>3. CASE Moves
  <2>1. CASE connect_null
    BY <2>1 DEF connect_null, At, ConnInv, LifeInv, StatusInv, HandleInv,
       StreamInv, Alive, blockVars, connVars
  <2>2. CASE contrl_connect
    BY <2>2 DEF contrl_connect, At, ConnInv, LifeInv, StatusInv, HandleInv,
       StreamInv, Alive, blockVars, connVars
  <2>3. CASE Moves /\ epc' \notin {"made", "connect", "null"}
    BY <2>3, MovesFrame, ConnFrame
  <2> QED
    BY <1>3, <2>1, <2>2, <2>3 DEF Moves, make_client_ctx, contrl_lock, contrl_none,
       timer_handler, timer_not_due, client_read_net_data, At
<1>4. CASE contrl_start
  <2>1. CASE epc = "switch"
    <3>1. \A n \in Conns : life[n] = "unborn"
      BY <1>4, <2>1 DEF contrl_start, BaseInv, SectionInv, StartInv, Critical,
         BirthInv, Conns
    <3> QED
      BY <1>4, <2>1, <3>1 DEF contrl_start, At, ConnInv, LifeInv, StatusInv,
         HandleInv, StreamInv, Alive, connVars
  <2>2. CASE epc = "start"
    BY <1>4, <2>2, ConnFrame DEF contrl_start, At
  <2> QED
    BY <1>4, <2>1, <2>2 DEF contrl_start, At
<1>5. CASE contrl_unlock
  BY <1>5, ConnFrame DEF contrl_unlock, At
<1>6. CASE UNCHANGED vars
  BY <1>6, ConnFrame DEF vars, blockVars, engineVars
<1> QED
  BY <1>1, <1>2, <1>3, <1>4, <1>5, <1>6, ConnMade, ConnAssign, ConnClose,
     ConnProcess, EngineSteps DEF Next

\* A refused packet is remembered for good.
LEMMA RefusedForGood ==
  ASSUME refused, [Next]_vars
  PROVE  refused'
<1>1. CASE quic_run
  BY <1>1 DEF quic_run, connVars
<1>2. ASSUME NEW c \in Callers, Caller(c)
      PROVE  refused'
  BY <1>2 DEF Caller, Enter, AlreadyConnected, NotYetConnected, Post, WaitStatus,
     WaitClock, Return, connVars
<1>3. CASE EngineThread
  BY <1>3, EngineSteps, MovesFrame DEF contrl_start, connect_made, connect_assign,
     contrl_close, contrl_unlock, client_process_conns, ProcessNothing,
     ProcessDestroy, ProcessOther, Destroy, LeaveUnsent, OpenStream, connVars
<1>4. CASE UNCHANGED vars
  BY <1>4 DEF vars, connVars
<1> QED
  BY <1>1, <1>2, <1>3, <1>4 DEF Next

\* There is no connection at the start.
LEMMA ConnInit == Init => ConnInv
  BY ControlAssumption DEF Init, ConnInv, LifeInv, StatusInv, HandleInv,
     StreamInv, Conns, Alive

\* The status, the handle and the streams agree with the engine's connection.
THEOREM ConnInvariance ==
  Spec => [](BaseInv /\ (refused \/ ConnInv))
<1>1. BaseInv /\ (refused \/ ConnInv) /\ [Next]_vars => (refused \/ ConnInv)'
  BY ConnStep, RefusedForGood
<1> QED
  BY BaseInvariance, ConnInit, <1>1, PTL DEF Spec

\* An open connection is never out of the program's reach.
THEOREM OpenConnectionIsHeld ==
  Spec => []OpenIsHeld
<1>1. BaseInv /\ (refused \/ ConnInv) => OpenIsHeld
  BY DEF BaseInv, SectionInv, Critical, ConnInv, HandleInv, OpenIsHeld
<1> QED
  BY ConnInvariance, <1>1, PTL

\* No stream gets a number that is not one of a queue.
THEOREM StreamsHaveQueues ==
  Spec => []StreamHasQueue
<1>1. BaseInv /\ (refused \/ ConnInv) => StreamHasQueue
  BY ControlAssumption DEF ConnInv, StreamInv, StreamHasQueue, NoStream
<1> QED
  BY ConnInvariance, <1>1, PTL

\* The 1 quic_connect and quic_close return is the truth when it is read.
THEOREM AnswersAreTrue ==
  Spec => AnswersHold
<1> DEFINE Truthful(c) ==
      ~refused /\ pc[c] \in {"ask", "wait"} /\ pc'[c] = "idle" =>
        /\ call[c] = "connect" => \E n \in Conns : Alive(n)
        /\ call[c] = "close" => \A n \in Conns : life[n] # "open"
<1>1. BaseInv /\ (refused \/ ConnInv) /\ [Next]_vars => [\A c \in Callers : Truthful(c)]_vars
  <2> SUFFICES ASSUME BaseInv, ConnInv, [Next]_vars, NEW c \in Callers,
                      pc[c] \in {"ask", "wait"}, pc'[c] = "idle"
               PROVE  /\ call[c] = "connect" => \E n \in Conns : Alive(n)
                      /\ call[c] = "close" => \A n \in Conns : life[n] # "open"
    OBVIOUS
  <2>1. CASE quic_run
    BY <2>1 DEF quic_run, CallerAt, BaseInv, TypeOK
  <2>2. ASSUME NEW d \in Callers, Caller(d), d # c
        PROVE  FALSE
    BY <2>2, CallerFrame DEF BaseInv
  <2>3. CASE Caller(c)
    <3>1. status = "CONNECTED" \/ status = Awaited[call[c]]
      BY <2>3 DEF Caller, Enter, AlreadyConnected, NotYetConnected, Post,
         WaitStatus, WaitClock, CallerAt, BaseInv, TypeOK
    <3>2. call[c] = "close" => status = "CLOSE"
      BY <2>3 DEF Caller, Enter, AlreadyConnected, NotYetConnected, Post,
         WaitStatus, WaitClock, CallerAt, BaseInv, TypeOK, Awaited
    <3> QED
      BY <3>1, <3>2 DEF ConnInv, StatusInv, Awaited
  <2>4. CASE EngineThread \/ UNCHANGED vars
    BY <2>4, EngineFrame DEF vars, callerVars
  <2> QED
    BY <2>1, <2>2, <2>3, <2>4 DEF Next
<1> QED
  BY ConnInvariance, <1>1, PTL DEF Spec, AnswersHold

-------------------------------------------------------------------------------
(* The ticks, when quic_run does not give up.                              *)

\* runing is set by START and stays; nothing else is asked for before.
LEMMA RuningStep ==
  ASSUME ~RunMayTimeOut, BaseInv, RuningInv, [Next]_vars
  PROVE  RuningInv'
<1> USE ControlAssumption DEF BaseInv, RuningInv
<1>1. CASE quic_run
  BY <1>1 DEF quic_run, CallerAt, connVars, CallInv, StartInv
<1>2. ASSUME NEW c \in Callers, Caller(c)
      PROVE  RuningInv'
  <2>1. call'[Main] # "run" => status # "NONE"
    <3>1. CASE c # Main \/ call[Main] # "run"
      BY <1>2, <3>1, CallerFrame
    <3>2. CASE c = Main /\ call[Main] = "run"
      BY <1>2, <3>2 DEF Caller, Enter, AlreadyConnected, NotYetConnected, Post,
         WaitStatus, WaitClock, CallerAt, TypeOK, Awaited
    <3> QED
      BY <3>1, <3>2
  <2>2. cmd' \in {"CONNECT", "CLOSE"} => runing
    <3>1. CASE cmd' = cmd
      BY <3>1
    <3>2. CASE mutex = Nobody /\ pc[c] \in {"ask", "post"}
      BY <3>2, AskersEntered DEF CallInv, SectionInv, Critical
    <3> QED
      BY <1>2, <3>1, <3>2, CallerFrame
  <2> QED
    BY <1>2, <2>1, <2>2, CallerFrame DEF engineVars, connVars
<1>3. CASE Moves
  BY <1>3, MovesFrame DEF callerVars, connVars
<1>4. CASE contrl_start
  BY <1>4 DEF contrl_start, At, callerVars, connVars
<1>5. CASE connect_made \/ connect_assign
  BY <1>5 DEF connect_made, connect_assign, At, SectionInv, Critical,
     callerVars, connVars
<1>6. CASE contrl_close
  BY <1>6 DEF contrl_close, At, SectionInv, Critical, callerVars
<1>7. CASE contrl_unlock
  BY <1>7 DEF contrl_unlock, At, callerVars, connVars
<1>8. CASE client_process_conns
  <2>1. status' = status \/ (status' = "CLOSE" /\ made > 0)
    BY <1>8 DEF client_process_conns, ProcessNothing, ProcessDestroy,
       ProcessOther, Destroy, on_conn_closed, LeaveUnsent, OpenStream,
       Alive, BirthInv, TypeOK, Conns
  <2> QED
    BY <1>8, <2>1 DEF client_process_conns, ProcessNothing, ProcessDestroy,
       ProcessOther, Processed, At, callerVars
<1>9. CASE UNCHANGED vars
  BY <1>9 DEF vars, blockVars, callerVars, engineVars, connVars
<1> QED
  BY <1>1, <1>2, <1>3, <1>4, <1>5, <1>6, <1>7, <1>8, <1>9, EngineSteps DEF Next

\* Nothing has been asked for at the start.
LEMMA RuningInit == Init => RuningInv
  BY ControlAssumption DEF Init, RuningInv

\* The engine has been told to run before it has a connection.
LEMMA RuningInvariance ==
  ASSUME ~RunMayTimeOut
  PROVE  Spec => []RuningInv
<1>1. BaseInv /\ RuningInv /\ [Next]_vars => RuningInv'
  BY RuningStep
<1> QED
  BY BaseInvariance, RuningInit, <1>1, PTL DEF Spec

\* While there is a connection runing is set.
LEMMA AliveRuns ==
  ASSUME BaseInv, RuningInv, NEW n \in Conns, Alive(n)
  PROVE  runing
  BY DEF BaseInv, TypeOK, RuningInv, BirthInv, Alive, Conns

\* Every processing arms the timer while a connection is alive.
LEMMA TickStep ==
  ASSUME BaseInv, RuningInv, TickToCome, [Next]_vars
  PROVE  TickToCome'
<1> USE DEF TickToCome, Processing, Alive
<1>1. CASE quic_run
  BY <1>1 DEF quic_run, CallerAt, connVars, BaseInv, StartInv
<1>2. ASSUME NEW c \in Callers, Caller(c)
      PROVE  TickToCome'
  BY <1>2, CallerFrame DEF engineVars, connVars, BaseInv
<1>3. CASE timer_handler
  BY <1>3, AliveRuns DEF timer_handler, At, connVars
<1>4. CASE Moves /\ ~timer_handler
  BY <1>4 DEF Moves, make_client_ctx, contrl_lock, contrl_none, contrl_connect,
     connect_null, timer_not_due, client_read_net_data, At, connVars
<1>5. CASE contrl_start \/ contrl_unlock
  BY <1>5 DEF contrl_start, contrl_unlock, At, connVars
<1>6. CASE connect_made \/ connect_assign
  BY <1>6 DEF connect_made, connect_assign, At
<1>7. CASE contrl_close
  BY <1>7 DEF contrl_close, At, Hashed, BaseInv, TypeOK
<1>8. CASE client_process_conns
  <2> SUFFICES ASSUME NEW n \in Conns, Alive(n)'
               PROVE  timer'
    OBVIOUS
  <2>1. Alive(n)
    BY <1>8 DEF client_process_conns, ProcessNothing, ProcessDestroy,
       ProcessOther, Destroy, on_conn_closed, LeaveUnsent, OpenStream, Hashed,
       BaseInv, TypeOK
  <2> QED
    BY <1>8, <2>1, AliveRuns DEF client_process_conns, ArmTimer
<1>9. CASE UNCHANGED vars
  BY <1>9 DEF vars, engineVars, connVars
<1> QED
  BY <1>1, <1>2, <1>3, <1>4, <1>5, <1>6, <1>7, <1>8, <1>9, EngineSteps DEF Next

\* Whatever the callers and the peer do, a connection has a tick to come.
THEOREM TickIsToCome ==
  ASSUME ~RunMayTimeOut
  PROVE  Spec => []TickToCome
<1>1. Init => TickToCome
  BY DEF Init, TickToCome, Alive
<1>2. BaseInv /\ RuningInv /\ TickToCome /\ [Next]_vars => TickToCome'
  BY TickStep
<1> QED
  BY BaseInvariance, RuningInvariance, <1>1, <1>2, PTL DEF Spec

\* The invariant the run checks.
THEOREM QuicInvariance ==
  ASSUME ~RunMayTimeOut
  PROVE  Spec => []QuicInv
<1>1. BaseInv /\ (refused \/ ConnInv) /\ RuningInv => QuicInv
  BY DEF QuicInv
<1> QED
  BY ConnInvariance, RuningInvariance, <1>1, PTL

===============================================================================
