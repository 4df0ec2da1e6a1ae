------------------------------ MODULE FrameQueue ------------------------------
(***************************************************************************)
(* The queue between the threads of the program that push frames with      *)
(* quic_push_data and the thread that runs the QUIC engine, whose on_write *)
(* callback takes frames from the head and hands their bytes to the stream *)
(* (lsquic/quic_interface_v2.c).  The queue is a ring of QUEUE_SIZE slots  *)
(* guarded by a mutex; one slot always stays empty.                        *)
(*                                                                         *)
(* quic_push_data is called once quic_run has returned, hence after        *)
(* initQueue; before that `max` is zero.  MAX_STREAM_COUNT is 1: there is  *)
(* one queue and one stream.  quic_setting has been called (fn_parse and   *)
(* fn_free are set), and one engine thread runs.                           *)
(***************************************************************************)
EXTENDS Integers, Sequences

CONSTANTS
  Producers,     \* the threads that push
  Frames,        \* the pool of frame objects
  FrameLen,      \* the number of bytes of each
  QUEUE_SIZE,
  HasRemake,     \* whether the program gives quic_setting an fn_remake
  MaxBytes,      \* bound: failed writes make no frame longer than this
  Nobody         \* NULL, and the owner of a free mutex

Engine == "engine"

ASSUME QueueAssumption ==
  /\ QUEUE_SIZE \in Nat \ {0}
  /\ FrameLen \in [Frames -> Nat \ {0}]
  /\ Nobody \notin Frames \cup Producers \cup {Engine}
  /\ Engine \notin Producers
  /\ HasRemake \in BOOLEAN

VARIABLES
  max, front, tail, data,   \* the queue
  mutex,    \* the thread inside a critical section of the queue, or Nobody
  pc,       \* where each producer is in quic_push_data
  frame,    \* the frame each producer has made last
  answer,   \* what enqueue has returned to it: "none" yet, or the result
  epc,      \* where the engine thread is
  item,     \* the frame queue_head has returned to send_data_from_queue
  reset,    \* whether the peer has reset the stream
  live,     \* frames allocated and not yet freed
  rest,     \* the length fn_parse finds in each frame
  written   \* auxiliary: bytes of each frame handed to the stream

queueVars == <<max, front, tail, data>>
producerVars == <<pc, frame, answer>>
engineVars == <<epc, item, reset>>
frameVars == <<live, rest, written>>
vars == <<queueVars, mutex, producerVars, engineVars, frameVars>>

Slots == 0..(QUEUE_SIZE - 1)

Init ==
  /\ max = 0 /\ front = 0 /\ tail = 0
  /\ data = [i \in Slots |-> Nobody]
  /\ mutex = Nobody
  /\ pc = [p \in Producers |-> "idle"]
  /\ frame = [p \in Producers |-> Nobody]
  /\ answer = [p \in Producers |-> "none"]
  /\ epc = "init" /\ item = Nobody /\ reset = FALSE
  /\ live = {}
  /\ rest = [f \in Frames |-> 0]
  /\ written = [f \in Frames |-> 0]

isEmpty == front = tail
isFull == (tail + 1) % max = front

\* quic_thread initialises the queue before it starts its loop.
initQueue ==
  /\ epc = "init"
  /\ max' = QUEUE_SIZE /\ front' = 0 /\ tail' = 0
  /\ epc' = "idle"
  /\ UNCHANGED <<data, mutex, producerVars, item, reset, frameVars>>

-------------------------------------------------------------------------------
(* A producer: quic_push_data, which is enqueue.                           *)

\* The program makes a frame and calls quic_push_data.
Push(p, f) ==
  /\ epc # "init"
  /\ pc[p] = "idle"
  /\ f \notin live
  /\ live' = live \cup {f}
  /\ rest' = [rest EXCEPT ![f] = FrameLen[f]]
  /\ written' = [written EXCEPT ![f] = 0]
  /\ frame' = [frame EXCEPT ![p] = f]
  /\ answer' = [answer EXCEPT ![p] = "none"]
  /\ pc' = [pc EXCEPT ![p] = "lock"]
  /\ UNCHANGED <<queueVars, mutex, engineVars>>

\* Mistake: the mutex is not taken.
EnqueueLock_skipped(p) ==
  /\ pc[p] = "lock"
  /\ pc' = [pc EXCEPT ![p] = "test"]
  /\ UNCHANGED <<queueVars, mutex, frame, answer, engineVars, frameVars>>

EnqueueLock(p) ==
  /\ pc[p] = "lock"
  /\ mutex = Nobody
  /\ mutex' = p
  /\ pc' = [pc EXCEPT ![p] = "test"]
  /\ UNCHANGED <<queueVars, frame, answer, engineVars, frameVars>>

\* Mistakes: a full queue is not noticed; it makes room by dropping its head.
EnqueueTest_never_full(p) ==
  /\ pc[p] = "test"
  /\ pc' = [pc EXCEPT ![p] = "store"]
  /\ UNCHANGED <<queueVars, mutex, frame, answer, engineVars, frameVars>>

EnqueueTest_overwriting(p) ==
  /\ pc[p] = "test"
  /\ front' = IF isFull THEN (front + 1) % max ELSE front
  /\ pc' = [pc EXCEPT ![p] = "store"]
  /\ UNCHANGED <<max, tail, data, mutex, frame, answer, engineVars, frameVars>>

EnqueueTest(p) ==
  /\ pc[p] = "test"
  /\ \/ isFull /\ answer' = [answer EXCEPT ![p] = "refused"]
               /\ pc' = [pc EXCEPT ![p] = "unlock"]
     \/ ~isFull /\ pc' = [pc EXCEPT ![p] = "store"] /\ UNCHANGED answer
  /\ UNCHANGED <<queueVars, mutex, frame, engineVars, frameVars>>

EnqueueStore(p) ==
  /\ pc[p] = "store"
  /\ data' = [data EXCEPT ![tail] = frame[p]]
  /\ pc' = [pc EXCEPT ![p] = "advance"]
  /\ UNCHANGED <<max, front, tail, mutex, frame, answer, engineVars, frameVars>>

\* Mistake: the ring's end is not looked at.
EnqueueAdvance_unwrapped(p) ==
  /\ pc[p] = "advance"
  /\ tail' = tail + 1
  /\ answer' = [answer EXCEPT ![p] = "accepted"]
  /\ pc' = [pc EXCEPT ![p] = "unlock"]
  /\ UNCHANGED <<max, front, data, mutex, frame, engineVars, frameVars>>

EnqueueAdvance(p) ==
  /\ pc[p] = "advance"
  /\ tail' = (tail + 1) % max
  /\ answer' = [answer EXCEPT ![p] = "accepted"]
  /\ pc' = [pc EXCEPT ![p] = "unlock"]
  /\ UNCHANGED <<max, front, data, mutex, frame, engineVars, frameVars>>

\* enqueue returns; the program frees a frame it has refused.
EnqueueUnlock(p) ==
  /\ pc[p] = "unlock"
  /\ mutex' = Nobody
  /\ pc' = [pc EXCEPT ![p] = "idle"]
  /\ live' = IF answer[p] = "refused" THEN live \ {frame[p]} ELSE live
  /\ frame' = [frame EXCEPT ![p] = Nobody]
  /\ UNCHANGED <<queueVars, answer, engineVars, rest, written>>

Producer(p) ==
  \/ EnqueueLock(p) \/ EnqueueTest(p) \/ EnqueueStore(p)
  \/ EnqueueAdvance(p) \/ EnqueueUnlock(p)

-------------------------------------------------------------------------------
(* The engine thread: on_write, which is send_data_from_queue.             *)

EngineGoto(from, to) == epc = from /\ epc' = to

\* The engine calls on_write whenever the stream can be written, or has
\* been reset.
OnWrite ==
  /\ EngineGoto("idle", "headLock")
  /\ reset => \A f \in live : written[f] + rest[f] < MaxBytes
  /\ UNCHANGED <<queueVars, mutex, producerVars, item, reset, frameVars>>

\* queue_head and dequeue take the mutex.
EngineLock ==
  /\ \/ EngineGoto("headLock", "head")
     \/ EngineGoto("dequeueLock", "dequeue")
  /\ mutex = Nobody
  /\ mutex' = Engine
  /\ UNCHANGED <<queueVars, producerVars, item, reset, frameVars>>

queue_head ==
  /\ EngineGoto("head", "headUnlock")
  /\ item' = IF isEmpty THEN Nobody ELSE data[front]
  /\ UNCHANGED <<queueVars, mutex, producerVars, reset, frameVars>>

HeadUnlock ==
  /\ EngineGoto("headUnlock", IF item = Nobody THEN "idle" ELSE "write")
  /\ mutex' = Nobody
  /\ UNCHANGED <<queueVars, producerVars, item, reset, frameVars>>

\* What lsquic_stream_write may return: all of the bytes or fewer, and -1
\* for a stream that has been reset.
StreamWrites(n) == IF reset THEN {-1} ELSE 0..n

\* Mistake: the frame leaves the queue after a short write.
WriteFrame_dropping ==
  /\ epc = "write"
  /\ \E wlen \in StreamWrites(rest[item]) :
       written' = [written EXCEPT ![item] = @ + (IF wlen > 0 THEN wlen ELSE 0)]
  /\ epc' = "dequeueLock"
  /\ UNCHANGED <<queueVars, mutex, producerVars, item, reset, live, rest>>

\* fn_parse, lsquic_stream_write and, for a short write, fn_remake, which
\* leaves the last len - wlen bytes in the frame at the head of the queue.
WriteFrame ==
  /\ epc = "write"
  /\ \E wlen \in StreamWrites(rest[item]) :
       LET short == wlen < rest[item] IN
       /\ written' = [written EXCEPT ![item] = @ + (IF wlen > 0 THEN wlen ELSE 0)]
       /\ rest' = IF short /\ HasRemake THEN [rest EXCEPT ![item] = @ - wlen] ELSE rest
       /\ epc' = IF short /\ HasRemake THEN "idle" ELSE "dequeueLock"
       /\ item' = IF short /\ HasRemake THEN Nobody ELSE item
  /\ UNCHANGED <<queueVars, mutex, producerVars, reset, live>>

dequeue ==
  /\ EngineGoto("dequeue", "dequeueUnlock")
  /\ front' = IF isEmpty THEN front ELSE (front + 1) % max
  /\ UNCHANGED <<max, tail, data, mutex, producerVars, item, reset, frameVars>>

DequeueUnlock ==
  /\ EngineGoto("dequeueUnlock", "free")
  /\ mutex' = Nobody
  /\ UNCHANGED <<queueVars, producerVars, item, reset, frameVars>>

\* fn_free, and the loop goes on with the next frame.
FreeFrame ==
  /\ EngineGoto("free", "headLock")
  /\ live' = live \ {item}
  /\ rest' = [rest EXCEPT ![item] = 0]
  /\ written' = [written EXCEPT ![item] = 0]
  /\ item' = Nobody
  /\ UNCHANGED <<queueVars, mutex, producerVars, reset>>

EngineThread ==
  \/ initQueue \/ OnWrite \/ EngineLock \/ queue_head \/ HeadUnlock
  \/ WriteFrame \/ dequeue \/ DequeueUnlock \/ FreeFrame

\* The peer resets the stream, between two calls of on_write; a later
\* connection brings another stream, and the queue stays as it is.
StreamChanges ==
  /\ epc = "idle"
  /\ reset' = ~reset
  /\ UNCHANGED <<queueVars, mutex, producerVars, epc, item, frameVars>>

Next ==
  \/ \E p \in Producers : Producer(p) \/ \E f \in Frames : Push(p, f)
  \/ EngineThread
  \/ StreamChanges

Spec == Init /\ [][Next]_vars

-------------------------------------------------------------------------------
(* Properties.                                                             *)

\* Types of the queue's and the threads' state.
TypeOK ==
  /\ max \in {0, QUEUE_SIZE}
  /\ front \in Slots /\ tail \in Slots
  /\ data \in [Slots -> Frames \cup {Nobody}]
  /\ mutex \in Producers \cup {Engine, Nobody}
  /\ pc \in [Producers -> {"idle", "lock", "test", "store", "advance", "unlock"}]
  /\ frame \in [Producers -> Frames \cup {Nobody}]
  /\ answer \in [Producers -> {"none", "accepted", "refused"}]
  /\ epc \in {"init", "idle", "headLock", "head", "headUnlock", "write",
              "dequeueLock", "dequeue", "dequeueUnlock", "free"}
  /\ item \in Frames \cup {Nobody}
  /\ reset \in BOOLEAN
  /\ live \subseteq Frames
  /\ rest \in [Frames -> Nat]
  /\ written \in [Frames -> Nat]

\* The frames in the queue, oldest first.
Count == IF front <= tail THEN tail - front ELSE tail - front + QUEUE_SIZE
Slot(i) == IF front + i - 1 < QUEUE_SIZE THEN front + i - 1 ELSE front + i - 1 - QUEUE_SIZE
Content == [i \in 1..Count |-> data[Slot(i)]]

\* The frame a producer is pushing and has not handed over.
Pushing(p) == pc[p] # "idle" /\ answer[p] # "accepted"

\* The engine has taken its frame out of the queue and not freed it yet.
Taken == epc \in {"dequeueUnlock", "free"}

\* Every frame has one owner: one place in the queue, one producer, or the
\* engine; so no frame is sent twice, freed twice or used after it is freed
\* (quic_interface_v2.c 151-185, 928-931).
OneOwner ==
  /\ \A i \in 1..Count : Content[i] \in live
  /\ \A i, j \in 1..Count : i # j => Content[i] # Content[j]
  /\ \A p \in Producers : Pushing(p) =>
       /\ frame[p] \in live
       /\ \A i \in 1..Count : Content[i] # frame[p]
       /\ \A r \in Producers \ {p} : Pushing(r) => frame[r] # frame[p]
       /\ Taken => item # frame[p]
  /\ Taken => item \in live /\ \A i \in 1..Count : Content[i] # item

\* The frame queue_head returned is the one dequeue removes, although the
\* mutex is released between the two and producers push meanwhile.
HeadStays ==
  item # Nobody /\ ~Taken => Count > 0 /\ Content[1] = item

\* With an fn_remake, a frame leaves the queue when all its bytes have been
\* handed to the stream, and not before.
SentBeforeFreed ==
  HasRemake /\ epc \in {"dequeueLock", "dequeue", "dequeueUnlock", "free"}
    => written[item] >= FrameLen[item]

\* The ring is a bounded queue of QUEUE_SIZE - 1 frames (one slot stays
\* empty), and enqueue and dequeue happen in an instant.
Fifo == INSTANCE BoundedFifo WITH
  Callers <- Producers,
  Items <- Frames,
  Capacity <- QUEUE_SIZE - 1,
  fifo <- Content,
  answer <- answer

QueueKeepsPromise == Fifo!Spec

\* The mutex is held by a thread exactly while it is in the code it guards:
\* two threads are never there together, and none leaves without giving the
\* mutex back, whichever way it returns (quic_interface_v2.c 100-140).
MutexInv ==
  /\ \A p \in Producers : mutex = p <=> pc[p] \in {"test", "store", "advance", "unlock"}
  /\ mutex = Engine <=> epc \in {"head", "headUnlock", "dequeue", "dequeueUnlock"}

\* The queue is initialised once, before anything is pushed.
Initialised ==
  IF epc = "init" THEN /\ front = 0 /\ tail = 0
                       /\ \A p \in Producers : pc[p] = "idle" /\ answer[p] = "none"
                  ELSE max = QUEUE_SIZE

\* A producer past the test for a full queue has a free slot at the tail and,
\* before it advances the tail, its frame there.
ProducerPlace ==
  \A p \in Producers :
    /\ pc[p] \in {"lock", "test", "store", "advance"} => answer[p] = "none"
    /\ pc[p] = "unlock" => answer[p] # "none"
    /\ pc[p] \in {"store", "advance"} => ~isFull
    /\ pc[p] = "advance" => data[tail] = frame[p]

\* The engine has an item in hand from queue_head to fn_free.
EnginePlace ==
  /\ epc \in {"init", "idle", "headLock", "head"} => item = Nobody
  /\ epc \in {"write", "dequeueLock", "dequeue", "dequeueUnlock", "free"} => item # Nobody

\* No byte of a frame is forgotten, though one may be counted twice.
BytesKept == \A f \in live : written[f] + rest[f] >= FrameLen[f]

\* The inductive invariant.
QInv ==
  /\ TypeOK /\ MutexInv /\ Initialised /\ ProducerPlace /\ EnginePlace
  /\ OneOwner /\ HeadStays /\ BytesKept /\ SentBeforeFreed

-------------------------------------------------------------------------------
(* A statement of the source that the code does not keep.                  *)

\* "the remaining data stays at the head of the queue"
\* (quic_interface_v2.c 169): what is left in a frame is what has not been
\* handed to the stream.
RemainderIsKept ==
  \A f \in live : written[f] + rest[f] = FrameLen[f]
===============================================================================
