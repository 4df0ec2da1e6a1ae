--------------------------- MODULE FrameQueue_proofs ---------------------------
(***************************************************************************)
(* The frame queue, for any number of producers and frames and any size of *)
(* the ring: its inductive invariant, and the proof that it implements     *)
(* BoundedFifo.                                                            *)
(***************************************************************************)
EXTENDS FrameQueue, SequenceTheorems, TLAPS

\* One step along the ring.
LEMMA NextSlot ==
  ASSUME NEW N \in Nat \ {0}, NEW x \in 0..(N - 1)
  PROVE  (x + 1) % N = IF x + 1 = N THEN 0 ELSE x + 1
<1>1. CASE x + 1 = N
  BY <1>1
<1>2. CASE x + 1 < N
  BY <1>2
<1> QED
  BY <1>1, <1>2

-------------------------------------------------------------------------------
(* The ring.                                                               *)

\* The occupied slots are slots of the ring, and the tail is not one.
LEMMA Ring ==
  ASSUME front \in Slots, tail \in Slots
  PROVE  /\ Count \in 0..(QUEUE_SIZE - 1)
         /\ \A i \in 1..Count : Slot(i) \in Slots /\ Slot(i) # tail
         /\ Count > 0 => Slot(1) = front
  BY QueueAssumption DEF Count, Slot, Slots

\* A full queue holds QUEUE_SIZE - 1 frames.
LEMMA FullCount ==
  ASSUME front \in Slots, tail \in Slots, max = QUEUE_SIZE
  PROVE  isFull <=> Count = QUEUE_SIZE - 1
<1>1. (tail + 1) % max = IF tail + 1 = max THEN 0 ELSE tail + 1
  BY QueueAssumption, NextSlot DEF Slots
<1> QED
  BY <1>1, QueueAssumption DEF isFull, Count, Slots

\* Advancing the tail of a queue that is not full.
LEMMA AdvanceTail ==
  ASSUME front \in Slots, tail \in Slots, max = QUEUE_SIZE, ~isFull,
         tail' = (tail + 1) % max, front' = front
  PROVE  /\ tail' \in Slots
         /\ Count' = Count + 1
         /\ Slot(Count + 1) = tail
         /\ \A i \in 1..Count' : Slot(i)' = Slot(i)
<1>1. (tail + 1) % max = IF tail + 1 = max THEN 0 ELSE tail + 1
  BY QueueAssumption, NextSlot DEF Slots
<1> QED
  BY <1>1, QueueAssumption DEF isFull, Count, Slots, Slot

\* Advancing the front of a queue that is not empty.
LEMMA AdvanceFront ==
  ASSUME front \in Slots, tail \in Slots, max = QUEUE_SIZE, front # tail,
         front' = (front + 1) % max, tail' = tail
  PROVE  /\ front' \in Slots
         /\ Count' = Count - 1
         /\ \A i \in 1..Count' : Slot(i)' = Slot(i + 1)
<1>1. (front + 1) % max = IF front + 1 = max THEN 0 ELSE front + 1
  BY QueueAssumption, NextSlot DEF Slots
<1> QED
  BY <1>1, QueueAssumption DEF Count, Slots, Slot

-------------------------------------------------------------------------------
(* The inductive invariant.                                                *)

LEMMA SameContent ==
  ASSUME UNCHANGED <<front, tail, data>>
  PROVE  Count' = Count /\ Content' = Content
BY DEF Count, Content, Slot

LEMMA InitInv == Init => QInv
<1> SUFFICES ASSUME Init PROVE QInv
  OBVIOUS
<1>1. 0 \in Slots /\ Count = 0
  BY QueueAssumption DEF Init, Slots, Count
<1>2. TypeOK
  BY <1>1, QueueAssumption DEF Init, TypeOK
<1>3. OneOwner
  BY <1>1 DEF Init, OneOwner, Pushing, Taken
<1>4. MutexInv /\ Initialised /\ ProducerPlace /\ EnginePlace
  BY QueueAssumption DEF Init, MutexInv, Initialised, ProducerPlace, EnginePlace, Engine
<1>5. HeadStays /\ BytesKept /\ SentBeforeFreed
  BY DEF Init, HeadStays, BytesKept, SentBeforeFreed
<1> QED
  BY <1>2, <1>3, <1>4, <1>5 DEF QInv

\* The frame in the engine's hand is allocated.
LEMMA ItemIsLive ==
  ASSUME QInv, item # Nobody
  PROVE  item \in live
<1>1. CASE Taken
  BY <1>1 DEF QInv, OneOwner
<1>2. CASE ~Taken
  <2>1. Count \in Nat /\ Count > 0 /\ Content[1] = item
    BY <1>2, Ring DEF QInv, HeadStays, TypeOK
  <2> QED
    BY <2>1 DEF QInv, OneOwner
<1> QED
  BY <1>1, <1>2

LEMMA PushInv ==
  ASSUME QInv, NEW p \in Producers, NEW f \in Frames, Push(p, f)
  PROVE  QInv'
<1> USE QueueAssumption DEF QInv, Push, queueVars, engineVars
<1>1. Count' = Count /\ Content' = Content /\ (isFull' <=> isFull)
  BY SameContent DEF isFull
<1>2. TypeOK'
  BY DEF TypeOK
<1>3. MutexInv' /\ Initialised' /\ EnginePlace'
  BY DEF TypeOK, MutexInv, Initialised, EnginePlace, Engine
<1>4. ProducerPlace'
  BY <1>1 DEF TypeOK, ProducerPlace
<1>5. OneOwner'
  BY <1>1 DEF TypeOK, OneOwner, Pushing, Taken
<1>6. HeadStays'
  BY <1>1 DEF HeadStays, Taken
<1>7. BytesKept'
  <2>1. written'[f] = 0 /\ rest'[f] = FrameLen[f] /\ FrameLen[f] \in Nat
    BY DEF TypeOK
  <2>2. \A g \in live : g # f => written'[g] = written[g] /\ rest'[g] = rest[g]
    BY DEF TypeOK
  <2>3. live' = live \cup {f} /\ f \notin live
    OBVIOUS
  <2> QED
    BY <2>1, <2>2, <2>3 DEF BytesKept
<1>8. SentBeforeFreed'
  <2>1. item # Nobody => item # f
    BY ItemIsLive
  <2> QED
    BY <2>1 DEF TypeOK, SentBeforeFreed, EnginePlace
<1> QED
  BY <1>2, <1>3, <1>4, <1>5, <1>6, <1>7, <1>8

LEMMA EnqueueInv ==
  ASSUME QInv, NEW p \in Producers,
         EnqueueLock(p) \/ EnqueueTest(p) \/ EnqueueStore(p) \/ EnqueueUnlock(p)
  PROVE  QInv'
<1> USE QueueAssumption DEF QInv, queueVars, engineVars, frameVars, Engine
<1>1. CASE EnqueueLock(p)
  <2>1. Count' = Count /\ Content' = Content /\ (isFull' <=> isFull)
    BY <1>1, SameContent DEF EnqueueLock, isFull
  <2>2. TypeOK' /\ MutexInv' /\ Initialised' /\ EnginePlace' /\ ProducerPlace'
    BY <1>1, <2>1 DEF EnqueueLock, TypeOK, MutexInv, Initialised, EnginePlace, ProducerPlace
  <2>3. OneOwner' /\ HeadStays' /\ BytesKept' /\ SentBeforeFreed'
    BY <1>1, <2>1 DEF EnqueueLock, TypeOK, OneOwner, Pushing, HeadStays, Taken, BytesKept,
                      SentBeforeFreed
  <2> QED
    BY <2>2, <2>3
<1>2. CASE EnqueueTest(p)
  <2>1. Count' = Count /\ Content' = Content /\ (isFull' <=> isFull)
    BY <1>2, SameContent DEF EnqueueTest, isFull
  <2>2. TypeOK' /\ MutexInv' /\ Initialised' /\ EnginePlace' /\ ProducerPlace'
    BY <1>2, <2>1 DEF EnqueueTest, TypeOK, MutexInv, Initialised, EnginePlace, ProducerPlace
  <2>3. \A r \in Producers : Pushing(r)' <=> Pushing(r)
    BY <1>2 DEF EnqueueTest, TypeOK, Pushing, ProducerPlace
  <2>4. OneOwner'
    BY <1>2, <2>1, <2>3 DEF EnqueueTest, OneOwner, Taken
  <2>5. HeadStays' /\ BytesKept' /\ SentBeforeFreed'
    BY <1>2, <2>1 DEF EnqueueTest, HeadStays, Taken, BytesKept, SentBeforeFreed
  <2> QED
    BY <2>2, <2>4, <2>5
<1>3. CASE EnqueueStore(p)
  <2>1. Count' = Count /\ (isFull' <=> isFull) /\ \A i \in 1..Count : Content'[i] = Content[i]
    BY <1>3, Ring DEF EnqueueStore, TypeOK, Count, Content, Slot, isFull
  <2>2. TypeOK' /\ MutexInv' /\ Initialised' /\ EnginePlace'
    BY <1>3 DEF EnqueueStore, TypeOK, MutexInv, Initialised, EnginePlace, OneOwner, Pushing, ProducerPlace
  <2>3. ProducerPlace'
    BY <1>3, <2>1 DEF EnqueueStore, TypeOK, MutexInv, ProducerPlace
  <2>4. OneOwner'
    BY <1>3, <2>1 DEF EnqueueStore, TypeOK, OneOwner, Pushing, Taken
  <2>5. HeadStays'
    <3>1. Count \in Nat
      BY Ring DEF TypeOK
    <3> QED
      BY <1>3, <2>1, <3>1 DEF EnqueueStore, HeadStays, Taken
  <2>6. BytesKept' /\ SentBeforeFreed'
    BY <1>3 DEF EnqueueStore, BytesKept, SentBeforeFreed
  <2> QED
    BY <2>2, <2>3, <2>4, <2>5, <2>6
<1>4. CASE EnqueueUnlock(p)
  <2>1. Count' = Count /\ Content' = Content /\ (isFull' <=> isFull)
    BY <1>4, SameContent DEF EnqueueUnlock, isFull
  <2>2. TypeOK' /\ MutexInv' /\ Initialised' /\ EnginePlace'
    BY <1>4 DEF EnqueueUnlock, TypeOK, MutexInv, Initialised, EnginePlace
  <2>3. ProducerPlace'
    BY <1>4, <2>1 DEF EnqueueUnlock, TypeOK, MutexInv, ProducerPlace
  <2>4. OneOwner'
    BY <1>4, <2>1 DEF EnqueueUnlock, TypeOK, OneOwner, Pushing, Taken, ProducerPlace
  <2>5. HeadStays' /\ BytesKept' /\ SentBeforeFreed'
    BY <1>4, <2>1 DEF EnqueueUnlock, TypeOK, HeadStays, Taken, BytesKept, SentBeforeFreed
  <2> QED
    BY <2>2, <2>3, <2>4, <2>5
<1> QED
  BY <1>1, <1>2, <1>3, <1>4

\* The step that puts the frame into the queue.
LEMMA EnqueueAdvanceInv ==
  ASSUME QInv, NEW p \in Producers, EnqueueAdvance(p)
  PROVE  QInv' /\ Count < QUEUE_SIZE - 1 /\ Content' = Append(Content, frame[p])
<1> USE QueueAssumption DEF QInv, EnqueueAdvance, engineVars, frameVars
<1>0. max = QUEUE_SIZE /\ ~isFull /\ data[tail] = frame[p] /\ front \in Slots /\ tail \in Slots
  BY DEF Initialised, ProducerPlace, TypeOK
<1>1. /\ tail' \in Slots
      /\ Count' = Count + 1
      /\ Slot(Count + 1) = tail
      /\ \A i \in 1..Count' : Slot(i)' = Slot(i)
  BY <1>0, AdvanceTail
<1>2. Count \in 0..(QUEUE_SIZE - 1) /\ Count < QUEUE_SIZE - 1
  BY <1>0, Ring, FullCount
<1>3. /\ \A i \in 1..Count : Content'[i] = Content[i]
      /\ Content'[Count + 1] = frame[p]
  BY <1>0, <1>1, <1>2 DEF Content
<1>4. Content' = Append(Content, frame[p])
  <2>1. Content \in Seq(Frames \cup {Nobody}) /\ Len(Content) = Count
    <3>1. \A i \in 1..Count : data[Slot(i)] \in Frames \cup {Nobody}
      BY <1>0, Ring DEF TypeOK
    <3> QED
      BY <3>1, <1>2 DEF Content
  <2>2. Content' = [i \in 1..(Count + 1) |-> Content'[i]]
    BY <1>1 DEF Content
  <2> QED
    BY <1>2, <1>3, <2>1, <2>2, AppendProperties
<1>5. TypeOK' /\ MutexInv' /\ Initialised' /\ EnginePlace'
  BY <1>1 DEF TypeOK, MutexInv, Initialised, EnginePlace, Engine
<1>6. ProducerPlace'
  BY DEF TypeOK, MutexInv, ProducerPlace
<1>7. OneOwner'
  <2>1. Pushing(p) /\ \A r \in Producers : Pushing(r)' <=> Pushing(r) /\ r # p
    BY DEF TypeOK, Pushing, ProducerPlace
  <2>2. frame[p] \in live /\ \A i \in 1..Count : Content[i] # frame[p]
    BY <2>1 DEF OneOwner
  <2>3. \A i \in 1..Count' : Content'[i] \in live
    BY <1>1, <1>2, <1>3, <2>2 DEF OneOwner
  <2>4. \A i, j \in 1..Count' : i # j => Content'[i] # Content'[j]
    BY <1>1, <1>2, <1>3, <2>2 DEF OneOwner
  <2>5. ASSUME NEW r \in Producers, r # p, Pushing(r)
        PROVE  \A i \in 1..Count' : Content'[i] # frame[r]
    BY <1>1, <1>2, <1>3, <2>1, <2>5 DEF OneOwner
  <2>6. Taken => \A i \in 1..Count' : Content'[i] # item
    BY <1>1, <1>2, <1>3, <2>1 DEF OneOwner
  <2> QED
    BY <2>1, <2>3, <2>4, <2>5, <2>6 DEF OneOwner, Taken
<1>8. HeadStays'
  BY <1>1, <1>2, <1>3 DEF HeadStays, Taken
<1>9. BytesKept' /\ SentBeforeFreed'
  BY DEF BytesKept, SentBeforeFreed
<1> QED
  BY <1>2, <1>4, <1>5, <1>6, <1>7, <1>8, <1>9

\* The steps of the engine thread that leave the queue alone.
LEMMA EngineInv ==
  ASSUME QInv, OnWrite \/ EngineLock \/ queue_head \/ HeadUnlock \/ DequeueUnlock \/ StreamChanges
  PROVE  QInv'
<1> USE QueueAssumption DEF QInv, queueVars, producerVars, frameVars, EngineGoto, OnWrite, EngineLock,
        queue_head, HeadUnlock, DequeueUnlock, StreamChanges
<1>1. Count' = Count /\ Content' = Content /\ (isFull' <=> isFull)
  BY SameContent DEF isFull
<1>2. TypeOK'
  BY DEF TypeOK
<1>3. MutexInv'
  BY DEF MutexInv, TypeOK, Engine
<1>4. Initialised' /\ ProducerPlace'
  BY <1>1 DEF Initialised, ProducerPlace
<1>5. Count \in Nat /\ (front # tail => Count > 0 /\ Content[1] = data[front] /\ Content[1] \in live)
  <2>1. front # tail => Count > 0
    BY DEF TypeOK, Slots, Count
  <2> QED
    BY <2>1, Ring DEF TypeOK, Content, OneOwner
<1>6. EnginePlace' /\ HeadStays'
  BY <1>1, <1>5 DEF TypeOK, EnginePlace, HeadStays, Taken, isEmpty
<1>7. OneOwner'
  BY <1>1 DEF OneOwner, Pushing, Taken
<1>8. BytesKept' /\ SentBeforeFreed'
  BY DEF BytesKept, SentBeforeFreed
<1> QED
  BY <1>2, <1>3, <1>4, <1>6, <1>7, <1>8

LEMMA WriteInv ==
  ASSUME QInv, WriteFrame
  PROVE  QInv'
<1> USE QueueAssumption DEF QInv, queueVars, producerVars
<1>0. PICK wlen \in StreamWrites(rest[item]) :
        /\ written' = [written EXCEPT ![item] = @ + (IF wlen > 0 THEN wlen ELSE 0)]
        /\ IF wlen < rest[item] /\ HasRemake
             THEN /\ rest' = [rest EXCEPT ![item] = @ - wlen]
                  /\ epc' = "idle" /\ item' = Nobody
             ELSE rest' = rest /\ epc' = "dequeueLock" /\ item' = item
  BY DEF WriteFrame
<1>a. epc = "write" /\ UNCHANGED <<queueVars, mutex, producerVars, reset, live>>
  BY DEF WriteFrame
<1>b. item \in live /\ item \in Frames /\ item # Nobody
  BY <1>a, ItemIsLive DEF EnginePlace, TypeOK
<1>c. rest[item] \in Nat /\ written[item] \in Nat /\ wlen \in -1..rest[item]
  BY <1>b, <1>0 DEF TypeOK, StreamWrites
<1>1. Count' = Count /\ Content' = Content /\ (isFull' <=> isFull)
  BY <1>a, SameContent DEF isFull
<1>2. TypeOK'
  BY <1>0, <1>a, <1>b, <1>c DEF TypeOK
<1>3. MutexInv' /\ Initialised' /\ ProducerPlace' /\ EnginePlace'
  BY <1>0, <1>1, <1>a, <1>b DEF TypeOK, MutexInv, Initialised, ProducerPlace, EnginePlace, Engine
<1>4. OneOwner' /\ HeadStays'
  BY <1>0, <1>1, <1>a DEF OneOwner, Pushing, HeadStays, Taken
<1>5. BytesKept'
  BY <1>0, <1>a, <1>b, <1>c DEF TypeOK, BytesKept
<1>6. SentBeforeFreed'
  BY <1>0, <1>a, <1>b, <1>c DEF TypeOK, BytesKept, SentBeforeFreed
<1> QED
  BY <1>2, <1>3, <1>4, <1>5, <1>6

LEMMA FreeInv ==
  ASSUME QInv, FreeFrame
  PROVE  QInv'
<1> USE QueueAssumption DEF QInv, queueVars, producerVars, FreeFrame, EngineGoto
<1>0. item \in live /\ item \in Frames /\ item # Nobody /\ Taken
  BY ItemIsLive DEF EnginePlace, TypeOK, Taken
<1>1. Count' = Count /\ Content' = Content /\ (isFull' <=> isFull)
  BY SameContent DEF isFull
<1>2. TypeOK'
  BY <1>0 DEF TypeOK
<1>3. MutexInv' /\ Initialised' /\ ProducerPlace' /\ EnginePlace'
  BY <1>0, <1>1 DEF TypeOK, MutexInv, Initialised, ProducerPlace, EnginePlace, Engine
<1>4. OneOwner' /\ HeadStays'
  BY <1>0, <1>1 DEF OneOwner, Pushing, HeadStays, Taken
<1>5. BytesKept' /\ SentBeforeFreed'
  BY <1>0 DEF TypeOK, BytesKept, SentBeforeFreed
<1> QED
  BY <1>2, <1>3, <1>4, <1>5

\* The step that takes the frame out of the queue.
LEMMA DequeueInv ==
  ASSUME QInv, dequeue
  PROVE  QInv' /\ Count > 0 /\ Content' = Tail(Content)
<1> USE QueueAssumption DEF QInv, dequeue, producerVars, frameVars, EngineGoto
<1>0. /\ max = QUEUE_SIZE /\ front \in Slots /\ tail \in Slots
      /\ item # Nobody /\ Count > 0 /\ Content[1] = item
  BY DEF Initialised, EnginePlace, HeadStays, Taken, TypeOK
<1>1. front # tail
  BY <1>0 DEF Count, Slots
<1>2. /\ front' \in Slots
      /\ Count' = Count - 1
      /\ \A i \in 1..Count' : Slot(i)' = Slot(i + 1)
  BY <1>0, <1>1, AdvanceFront DEF isEmpty
<1>3. Count \in Nat
  BY <1>0, Ring
<1>4. Content' = [i \in 1..(Count - 1) |-> Content[i + 1]]
  BY <1>2, <1>3 DEF Content
<1>5. Content' = Tail(Content)
  <2>1. Content \in Seq(Frames \cup {Nobody}) /\ Len(Content) = Count
    <3>1. \A i \in 1..Count : data[Slot(i)] \in Frames \cup {Nobody}
      BY <1>0, Ring DEF TypeOK
    <3> QED
      BY <3>1, <1>3 DEF Content
  <2>2. /\ Tail(Content) \in Seq(Frames \cup {Nobody})
        /\ Len(Tail(Content)) = Count - 1
        /\ \A i \in 1..(Count - 1) : Tail(Content)[i] = Content[i + 1]
    BY <1>0, <1>3, <2>1, HeadTailProperties
  <2>3. /\ Content' \in Seq(Frames \cup {Nobody})
        /\ Len(Content') = Count - 1
    <3>1. \A i \in 1..(Count - 1) : i + 1 \in 1..Count /\ Content[i + 1] \in Frames \cup {Nobody}
      BY <1>3, <2>1
    <3> QED
      BY <1>0, <1>3, <1>4, <3>1
  <2>4. \A i \in 1..(Count - 1) : Content'[i] = Tail(Content)[i]
    BY <1>4, <2>2
  <2> QED
    BY <2>2, <2>3, <2>4, SeqEqual
<1>6. TypeOK' /\ MutexInv' /\ Initialised' /\ EnginePlace'
  BY <1>0, <1>2 DEF TypeOK, MutexInv, Initialised, EnginePlace, Engine
<1>7. ProducerPlace'
  BY DEF TypeOK, MutexInv, ProducerPlace, Engine
<1>8. OneOwner'
  <2>1. \A i \in 1..Count' : i + 1 \in 1..Count /\ Content'[i] = Content[i + 1]
    BY <1>2, <1>3, <1>4
  <2>2. \A i \in 1..Count' : Content'[i] # item
    BY <1>0, <1>3, <2>1 DEF OneOwner
  <2>3. \A i, j \in 1..Count' : i # j => Content'[i] # Content'[j]
    BY <1>2, <1>3, <2>1 DEF OneOwner
  <2>4. \A i \in 1..Count' : Content'[i] \in live
    BY <2>1 DEF OneOwner
  <2>5. item \in live /\ \A r \in Producers : Pushing(r) => item # frame[r]
    BY <1>0, <1>3 DEF OneOwner
  <2>6. ASSUME NEW r \in Producers, Pushing(r)
        PROVE  \A i \in 1..Count' : Content'[i] # frame[r]
    BY <2>1, <2>6 DEF OneOwner
  <2> QED
    BY <2>2, <2>3, <2>4, <2>5, <2>6 DEF OneOwner, Pushing, Taken
<1>9. HeadStays' /\ BytesKept' /\ SentBeforeFreed'
  BY DEF HeadStays, Taken, BytesKept, SentBeforeFreed
<1> QED
  BY <1>0, <1>5, <1>6, <1>7, <1>8, <1>9

LEMMA InitQueueInv ==
  ASSUME QInv, initQueue
  PROVE  QInv' /\ Content' = Content
<1> USE QueueAssumption DEF QInv, initQueue, producerVars, frameVars
<1>1. Count' = Count /\ Content' = Content /\ Count = 0
  <2>1. UNCHANGED <<front, tail, data>> /\ front = tail
    BY DEF Initialised
  <2> QED
    BY <2>1, SameContent DEF Count, Initialised
<1>2. TypeOK' /\ MutexInv' /\ Initialised' /\ ProducerPlace' /\ EnginePlace'
  BY DEF TypeOK, MutexInv, Initialised, ProducerPlace, EnginePlace, Engine, Slots
<1>3. OneOwner' /\ HeadStays' /\ BytesKept' /\ SentBeforeFreed'
  BY <1>1 DEF OneOwner, Pushing, Taken, HeadStays, BytesKept, SentBeforeFreed, EnginePlace
<1> QED
  BY <1>1, <1>2, <1>3

\* Every step of the producers, the engine and the peer preserves QInv.
LEMMA StepInv == QInv /\ [Next]_vars => QInv'
<1> SUFFICES ASSUME QInv, [Next]_vars PROVE QInv'
  OBVIOUS
<1>1. ASSUME NEW p \in Producers, Producer(p) PROVE QInv'
  BY <1>1, EnqueueInv, EnqueueAdvanceInv DEF Producer
<1>2. ASSUME NEW p \in Producers, NEW f \in Frames, Push(p, f) PROVE QInv'
  BY <1>2, PushInv
<1>3. CASE EngineThread
  BY <1>3, EngineInv, WriteInv, FreeInv, DequeueInv, InitQueueInv DEF EngineThread
<1>4. CASE StreamChanges
  BY <1>4, EngineInv
<1>5. CASE UNCHANGED vars
  <2>1. Count' = Count /\ Content' = Content /\ (isFull' <=> isFull)
    BY <1>5, SameContent DEF vars, queueVars, isFull
  <2> QED
    BY <1>5, <2>1 DEF vars, queueVars, producerVars, engineVars, frameVars, QInv, TypeOK, MutexInv,
       Initialised, ProducerPlace, EnginePlace, OneOwner, Pushing, Taken, HeadStays, BytesKept,
       SentBeforeFreed
<1> QED
  BY <1>1, <1>2, <1>3, <1>4, <1>5 DEF Next

-------------------------------------------------------------------------------
(* The theorems.                                                           *)

\* The inductive invariant of the queue and its threads
\* (quic_interface_v2.c 66-189).
THEOREM QueueInvariance == Spec => []QInv
BY InitInv, StepInv, PTL DEF Spec

\* Every frame has one owner, so that none is sent twice, freed twice or used
\* after it is freed (quic_interface_v2.c 151-185).
THEOREM FramesHaveOneOwner == Spec => []OneOwner
<1>1. QInv => OneOwner
  BY DEF QInv
<1> QED
  BY <1>1, QueueInvariance, PTL

\* The frame send_data_from_queue has read is the one it removes, although the
\* mutex is free in between (quic_interface_v2.c 151-184).
THEOREM TheHeadStays == Spec => []HeadStays
<1>1. QInv => HeadStays
  BY DEF QInv
<1> QED
  BY <1>1, QueueInvariance, PTL

\* A frame is freed once the stream has taken all of its bytes, however short
\* its writes (quic_interface_v2.c 161-184).
THEOREM FreedFramesWereSent == Spec => []SentBeforeFreed
<1>1. QInv => SentBeforeFreed
  BY DEF QInv
<1> QED
  BY <1>1, QueueInvariance, PTL

\* The mutex excludes, and every path gives it back
\* (quic_interface_v2.c 100-140).
THEOREM MutualExclusion == Spec => []MutexInv
<1>1. QInv => MutexInv
  BY DEF QInv
<1> QED
  BY <1>1, QueueInvariance, PTL

-------------------------------------------------------------------------------
(* The ring implements the bounded queue.                                  *)

Abstract == <<Content, answer>>

LEMMA ProducerMaps ==
  ASSUME QInv, NEW p \in Producers, Producer(p)
  PROVE  Fifo!Next \/ UNCHANGED Abstract
<1> USE DEF QInv, Abstract, queueVars
<1>0. front \in Slots /\ tail \in Slots /\ Len(Content) = Count
  BY Ring DEF TypeOK, Content
<1>1. CASE EnqueueLock(p)
  BY <1>1, SameContent DEF EnqueueLock
<1>2. CASE EnqueueTest(p) /\ ~isFull
  BY <1>2, SameContent DEF EnqueueTest
<1>3. CASE EnqueueTest(p) /\ isFull
  <2>1. max = QUEUE_SIZE
    BY <1>3 DEF EnqueueTest, Initialised
  <2>2. Count = QUEUE_SIZE - 1
    BY <1>0, <1>3, <2>1, FullCount
  <2>3. Content' = Content
    BY <1>3, SameContent DEF EnqueueTest
  <2>4. answer' = [answer EXCEPT ![p] = "refused"]
    BY <1>3 DEF EnqueueTest
  <2>5. Fifo!Refuse(p)
    BY <1>0, <2>2, <2>3, <2>4 DEF Fifo!Refuse
  <2> QED
    BY <2>5 DEF Fifo!Next
<1>4. CASE EnqueueStore(p)
  <2>1. /\ UNCHANGED <<front, tail>>
        /\ \A i \in 1..Count : data'[Slot(i)] = data[Slot(i)]
    BY <1>4, <1>0, Ring DEF EnqueueStore, TypeOK
  <2>2. Content' = Content
    BY <2>1 DEF Content, Count, Slot
  <2> QED
    BY <1>4, <2>2 DEF EnqueueStore
<1>5. CASE EnqueueAdvance(p)
  <2>1. Count < QUEUE_SIZE - 1 /\ Content' = Append(Content, frame[p])
    BY <1>5, EnqueueAdvanceInv
  <2>2. frame[p] \in Frames
    BY <1>5 DEF EnqueueAdvance, OneOwner, Pushing, ProducerPlace, TypeOK
  <2>3. Fifo!Accept(p, frame[p])
    BY <1>0, <1>5, <2>1 DEF EnqueueAdvance, Fifo!Accept
  <2> QED
    BY <2>2, <2>3 DEF Fifo!Next
<1>6. CASE EnqueueUnlock(p)
  BY <1>6, SameContent DEF EnqueueUnlock
<1> QED
  BY <1>1, <1>2, <1>3, <1>4, <1>5, <1>6 DEF Producer

LEMMA EngineMaps ==
  ASSUME QInv, EngineThread \/ StreamChanges
  PROVE  Fifo!Next \/ UNCHANGED Abstract
<1> USE DEF Abstract, queueVars, producerVars
<1>1. CASE dequeue
  <2>1. Count > 0 /\ Content' = Tail(Content)
    BY <1>1, DequeueInv
  <2>2. Content # <<>>
    BY <2>1, Ring DEF QInv, TypeOK, Content
  <2>3. Fifo!Pop
    BY <1>1, <2>1, <2>2 DEF dequeue, Fifo!Pop
  <2> QED
    BY <2>3 DEF Fifo!Next
<1>2. CASE initQueue
  BY <1>2, InitQueueInv DEF initQueue
<1>3. CASE OnWrite \/ EngineLock \/ queue_head \/ HeadUnlock \/ WriteFrame \/ DequeueUnlock
           \/ FreeFrame \/ StreamChanges
  BY <1>3, SameContent
  DEF OnWrite, EngineLock, queue_head, HeadUnlock, WriteFrame, DequeueUnlock, FreeFrame, StreamChanges
<1> QED
  BY <1>1, <1>2, <1>3 DEF EngineThread

\* The ring with its mutex implements a queue whose operations take effect in
\* an instant: nothing is lost, duplicated or reordered, a push is refused only
\* when QUEUE_SIZE - 1 frames are waiting (quic_interface_v2.c 94-140).
THEOREM QueueRefinesFifo == Spec => QueueKeepsPromise
<1>1. Init => Fifo!Init
  <2> SUFFICES ASSUME Init PROVE Fifo!Init
    OBVIOUS
  <2>1. Count = 0
    BY DEF Init, Count
  <2>2. Content = <<>>
    BY <2>1 DEF Content
  <2> QED
    BY <2>2 DEF Init, Fifo!Init
<1>2. QInv /\ [Next]_vars => [Fifo!Next]_(Fifo!vars)
  <2> SUFFICES ASSUME QInv, [Next]_vars PROVE Fifo!Next \/ UNCHANGED Abstract
    BY DEF Abstract, Fifo!vars
  <2>1. CASE UNCHANGED vars
    BY <2>1, SameContent DEF vars, queueVars, producerVars, Abstract
  <2>2. ASSUME NEW p \in Producers, Producer(p) PROVE Fifo!Next \/ UNCHANGED Abstract
    BY <2>2, ProducerMaps
  <2>3. ASSUME NEW p \in Producers, NEW f \in Frames, Push(p, f) PROVE Fifo!Next \/ UNCHANGED Abstract
    <3>1. Fifo!Again(p)
      BY <2>3, SameContent DEF Push, queueVars, Fifo!Again
    <3> QED
      BY <3>1 DEF Fifo!Next
  <2>4. CASE EngineThread \/ StreamChanges
    BY <2>4, EngineMaps
  <2> QED
    BY <2>1, <2>2, <2>3, <2>4 DEF Next
<1> QED
  BY <1>1, <1>2, QueueInvariance, PTL DEF Spec, QueueKeepsPromise, Fifo!Spec
===============================================================================
