------------------------ MODULE ConcurrentQueueProofs ------------------------
(***************************************************************************)
(* Theorems about ConcurrentQueue, for any number of poppers, any limit    *)
(* and any number of pushes.                                               *)
(***************************************************************************)
EXTENDS ConcurrentQueue, FiniteSetTheorems, TLAPS

(* The order and the accounting need each other: a value is known to be     *)
(* older than the queued ones only because the queue holds the newest.      *)
IInv ==
    /\ TypeOK
    /\ Len(data_queue) <= nPushed
    /\ FifoOrder
    /\ DropsOnlyWhenFull

LEMMA InitIInv == Init => IInv
<1> SUFFICES ASSUME Init
             PROVE  IInv
  OBVIOUS
<1> USE DEF Init
<1>1. Len(data_queue) = 0 /\ data_queue \in Seq(Nat)
  OBVIOUS
<1>2. TypeOK
  <2>1. nPushed \in 0..MaxPush
    BY MaxPushAssumption DEF MaxPushAssumption
  <2>2. MaxSize > 0 => Len(data_queue) <= MaxSize
    BY <1>1, MaxSizeAssumption DEF MaxSizeAssumption
  <2>3. pc \in [Poppers -> PopperStates]
    BY DEF PopperStates
  <2>4. QED
    BY <1>1, <2>1, <2>2, <2>3 DEF TypeOK
<1>3. FifoOrder
  BY <1>1 DEF FifoOrder, HoldsNewestInOrder, EveryValueAccountedFor
<1>4. QED
  BY <1>1, <1>2, <1>3 DEF IInv, DropsOnlyWhenFull

(* The front of a non-empty queue is the oldest value in it. *)
LEMMA FrontIsOldest ==
  ASSUME IInv, data_queue # <<>>
  PROVE  /\ Len(data_queue) \in Nat \ {0}
         /\ Head(data_queue) = nPushed - Len(data_queue) + 1
         /\ Head(data_queue) \in 1..nPushed
         /\ Head(data_queue) \notin popped \cup dropped
  BY DEF IInv, TypeOK, FifoOrder, HoldsNewestInOrder, EveryValueAccountedFor

LEMMA TakeFrontIInv ==
  ASSUME IInv, NEW p \in Poppers, TakeFront(p)
  PROVE  IInv'
<1> USE DEF IInv, TakeFront
<1>1. /\ Len(data_queue) \in Nat \ {0}
      /\ Head(data_queue) = nPushed - Len(data_queue) + 1
      /\ Head(data_queue) \in 1..nPushed
      /\ Head(data_queue) \notin popped \cup dropped
  BY FrontIsOldest
<1>2. /\ data_queue' \in Seq(Nat)
      /\ Len(data_queue') = Len(data_queue) - 1
      /\ \A i \in 1..Len(data_queue') : data_queue'[i] = data_queue[i + 1]
  BY <1>1 DEF TypeOK
<1>3. TypeOK'
  <2>1. pc' \in [Poppers -> PopperStates]
    BY DEF TypeOK, PopperStates
  <2>2. MaxSize > 0 => Len(data_queue') <= MaxSize
    BY <1>1, <1>2, MaxSizeAssumption DEF TypeOK, MaxSizeAssumption
  <2>3. QED
    BY <1>1, <1>2, <2>1, <2>2 DEF TypeOK
<1>4. HoldsNewestInOrder'
  BY <1>1, <1>2 DEF TypeOK, FifoOrder, HoldsNewestInOrder
<1>5. EveryValueAccountedFor'
  BY <1>1, <1>2 DEF TypeOK, FifoOrder, EveryValueAccountedFor
<1>6. QED
  BY <1>1, <1>2, <1>3, <1>4, <1>5 DEF TypeOK, FifoOrder, DropsOnlyWhenFull

LEMMA PushIInv ==
  ASSUME IInv, Push
  PROVE  IInv'
<1> USE DEF IInv
<1>1. pc' \in [Poppers -> PopperStates]
  BY DEF TypeOK, Push, NotifyOne, PopperStates
<1>2. CASE IsFull
  <2> DEFINE n == Len(data_queue)
             front == nPushed - n + 1
  <2>1. n = MaxSize /\ 0 < MaxSize /\ data_queue # <<>>
    BY <1>2, MaxSizeAssumption DEF IsFull
  <2>2. /\ n \in Nat \ {0}
        /\ nPushed \in Nat
        /\ front \in 1..nPushed
        /\ front \notin popped \cup dropped
    BY <2>1, FrontIsOldest, MaxPushAssumption DEF TypeOK, MaxPushAssumption
  <2>3. /\ nPushed' = nPushed + 1
        /\ dropped' = dropped \cup {front}
        /\ popped' = popped
        /\ stopOnceEmpty' = stopOnceEmpty
    BY <1>2, <2>1, FrontIsOldest DEF Push, TypeOK
  <2>4. /\ data_queue' \in Seq(Nat)
        /\ Len(data_queue') = n
        /\ \A i \in 1..(n - 1) : data_queue'[i] = data_queue[i + 1]
        /\ data_queue'[n] = nPushed + 1
    BY <1>2, <2>1, <2>2 DEF Push, TypeOK
  <2> HIDE DEF n
  <2>5. TypeOK'
    <3>1. nPushed' \in 0..MaxPush
      BY <2>2, <2>3, MaxPushAssumption DEF Push, MaxPushAssumption
    <3>2. popped' \subseteq 1..nPushed'
      BY <2>2, <2>3 DEF TypeOK
    <3>3. dropped' \subseteq 1..nPushed'
      BY <2>2, <2>3 DEF TypeOK
    <3>4. MaxSize > 0 => Len(data_queue') <= MaxSize
      BY <2>1, <2>4, MaxSizeAssumption DEF MaxSizeAssumption
    <3>5. QED
      BY <1>1, <2>3, <2>4, <3>1, <3>2, <3>3, <3>4 DEF TypeOK
  <2>6. HoldsNewestInOrder'
    <3>1. \A i \in 1..n : data_queue[i] = nPushed - n + i
      BY DEF FifoOrder, HoldsNewestInOrder, n
    <3>2. ASSUME NEW i \in 1..n
          PROVE  data_queue'[i] = (nPushed + 1) - n + i
      <4>1. CASE i = n
        BY <2>2, <2>4, <4>1
      <4>2. CASE i # n
        <5>1. i \in 1..(n - 1) /\ i + 1 \in 1..n
          BY <2>2, <4>2
        <5>2. QED
          BY <2>2, <2>4, <3>1, <5>1
      <4>3. QED
        BY <4>1, <4>2
    <3>3. QED
      BY <2>3, <2>4, <3>2 DEF HoldsNewestInOrder
  <2>7. EveryValueAccountedFor'
    <3>1. /\ popped \cap dropped = {}
          /\ popped \cup dropped = 1..(nPushed - n)
      BY DEF FifoOrder, EveryValueAccountedFor, n
    <3>2. (popped \cup dropped) \cup {front} = 1..(nPushed + 1 - n)
      BY <2>2, <3>1
    <3>3. QED
      BY <2>2, <2>3, <2>4, <3>1, <3>2 DEF EveryValueAccountedFor
  <2>8. DropsOnlyWhenFull'
    BY <2>1, <2>2, <2>3, MaxSizeAssumption
       DEF TypeOK, DropsOnlyWhenFull, MaxSizeAssumption
  <2>9. Len(data_queue') <= nPushed'
    BY <2>2, <2>3, <2>4
  <2>10. QED
    BY <2>5, <2>6, <2>7, <2>8, <2>9 DEF FifoOrder
<1>3. CASE ~IsFull
  <2>1. /\ nPushed' = nPushed + 1
        /\ nPushed' \in 0..MaxPush
        /\ data_queue' = Append(data_queue, nPushed + 1)
        /\ dropped' = dropped
        /\ popped' = popped
        /\ stopOnceEmpty' = stopOnceEmpty
    BY <1>3, MaxPushAssumption DEF Push, TypeOK
  <2>2. /\ data_queue' \in Seq(Nat)
        /\ Len(data_queue) \in Nat
        /\ Len(data_queue') = Len(data_queue) + 1
        /\ \A i \in 1..Len(data_queue) : data_queue'[i] = data_queue[i]
        /\ data_queue'[Len(data_queue) + 1] = nPushed + 1
    BY <2>1 DEF TypeOK
  <2>3. TypeOK'
    BY <1>1, <1>3, <2>1, <2>2, MaxSizeAssumption DEF TypeOK, IsFull
  <2>4. HoldsNewestInOrder'
    <3>1. /\ Len(data_queue) <= nPushed /\ nPushed \in Nat
          /\ \A i \in 1..Len(data_queue) :
                data_queue[i] = nPushed - Len(data_queue) + i
      BY DEF TypeOK, FifoOrder, HoldsNewestInOrder
    <3>2. ASSUME NEW i \in 1..Len(data_queue')
          PROVE  data_queue'[i] = nPushed' - Len(data_queue') + i
      <4>1. CASE i \in 1..Len(data_queue)
        BY <2>1, <2>2, <3>1, <4>1
      <4>2. CASE i = Len(data_queue) + 1
        BY <2>1, <2>2, <3>1, <4>2
      <4>3. QED
        BY <2>2, <3>2, <4>1, <4>2
    <3>3. QED
      BY <3>2 DEF HoldsNewestInOrder
  <2>5. EveryValueAccountedFor'
    BY <2>1, <2>2 DEF TypeOK, FifoOrder, EveryValueAccountedFor
  <2>6. DropsOnlyWhenFull'
    BY <2>1, MaxSizeAssumption DEF TypeOK, DropsOnlyWhenFull
  <2>7. QED
    BY <2>1, <2>2, <2>3, <2>4, <2>5, <2>6 DEF TypeOK, FifoOrder
<1>4. QED
  BY <1>2, <1>3

(* Every other step leaves the values alone. *)
LEMMA SameValuesIInv ==
  ASSUME IInv,
         UNCHANGED <<data_queue, nPushed, popped, dropped>>,
         pc' \in [Poppers -> PopperStates],
         stopOnceEmpty' \in BOOLEAN
  PROVE  IInv'
  BY DEF IInv, TypeOK, FifoOrder, HoldsNewestInOrder, EveryValueAccountedFor,
         DropsOnlyWhenFull

LEMMA NextIInv == IInv /\ [Next]_vars => IInv'
<1> SUFFICES ASSUME IInv, [Next]_vars
             PROVE  IInv'
  OBVIOUS
<1> pc \in [Poppers -> PopperStates] /\ stopOnceEmpty \in BOOLEAN
  BY DEF IInv, TypeOK
<1>1. CASE Push
  BY <1>1, PushIInv
<1>2. CASE StopOnceEmpty
  <2>1. pc' \in [Poppers -> PopperStates]
    BY <1>2 DEF StopOnceEmpty, NotifyAll, PopperStates
  <2>2. QED
    BY <1>2, <2>1, SameValuesIInv DEF StopOnceEmpty
<1>3. ASSUME NEW p \in Poppers, WaitAndPop(p)
      PROVE  IInv'
  <2>1. CASE TakeFront(p)
    BY <2>1, TakeFrontIInv
  <2>2. CASE UNCHANGED <<data_queue, stopOnceEmpty, nPushed, popped, dropped>>
             /\ pc' = [pc EXCEPT ![p] = IF stopOnceEmpty THEN "done"
                                                         ELSE "waiting"]
    BY <2>2, SameValuesIInv DEF PopperStates
  <2>3. QED
    BY <1>3, <2>1, <2>2 DEF WaitAndPop
<1>4. ASSUME NEW p \in Poppers, TryPop(p)
      PROVE  IInv'
  BY <1>4, TakeFrontIInv DEF TryPop
<1>5. ASSUME NEW p \in Poppers, SpuriousWakeup(p)
      PROVE  IInv'
  BY <1>5, SameValuesIInv DEF SpuriousWakeup, PopperStates
<1>6. CASE UNCHANGED vars
  BY <1>6, SameValuesIInv DEF vars
<1>7. QED
  BY <1>1, <1>2, <1>3, <1>4, <1>5, <1>6 DEF Next

(* Type correctness, and a limited queue never holds more than its limit.   *)
THEOREM TypeCorrect == Spec => []TypeOK
<1>1. IInv => TypeOK
  BY DEF IInv
<1>2. QED
  BY InitIInv, NextIInv, <1>1, PTL DEF Spec

(* Values leave the queue in the order of their pushes, each one once.      *)
THEOREM FifoOrderHolds == Spec => []FifoOrder
<1>1. IInv => FifoOrder
  BY DEF IInv
<1>2. QED
  BY InitIInv, NextIInv, <1>1, PTL DEF Spec

(* push discards a value only when m_maxSize newer ones are in the queue.   *)
THEOREM DropsOnlyWhenFullHolds == Spec => []DropsOnlyWhenFull
<1>1. IInv => DropsOnlyWhenFull
  BY DEF IInv
<1>2. QED
  BY InitIInv, NextIInv, <1>1, PTL DEF Spec

------------------------------------------------------------------------------
(* The wake-up argument counts notified poppers. *)

LEMMA AtFinite ==
  ASSUME NEW state
  PROVE  /\ IsFiniteSet(At(state)) /\ Cardinality(At(state)) \in Nat
         /\ IsFiniteSet(At(state)') /\ Cardinality(At(state)') \in Nat
<1>1. At(state) \subseteq Poppers /\ At(state)' \subseteq Poppers
  BY DEF At
<1>2. QED
  BY <1>1, PoppersAssumption, FS_Subset, FS_CardinalityType
     DEF PoppersAssumption

(* Notifying one sleeper adds one to the poppers on their way. *)
LEMMA WakeOne ==
  ASSUME pc \in [Poppers -> PopperStates],
         NEW p \in At("waiting"),
         pc' = [pc EXCEPT ![p] = "woken"]
  PROVE  Cardinality(At("woken")') = Cardinality(At("woken")) + 1
<1>1. At("woken")' = At("woken") \cup {p} /\ p \notin At("woken")
  BY DEF At
<1>2. QED
  BY <1>1, AtFinite, FS_AddElement

(* A popper that takes a value was at most one of them. *)
LEMMA TakeFrontKeepsWakeups ==
  ASSUME IInv, NoLostWakeup,
         NEW p \in Poppers, pc[p] \in {"idle", "woken"}, TakeFront(p)
  PROVE  NoLostWakeup'
<1> USE DEF TakeFront
<1>1. pc \in [Poppers -> PopperStates] /\ data_queue \in Seq(Nat)
  BY DEF IInv, TypeOK
<1>2. At("waiting")' = At("waiting")
  BY <1>1 DEF At
<1>3. At("woken")' = At("woken") \ {p}
  BY <1>1 DEF At
<1>4. /\ Cardinality(At("woken")') \in Nat
      /\ Cardinality(At("woken")) \in Nat
      /\ Cardinality(At("woken")) <= Cardinality(At("woken")') + 1
  <2>1. CASE p \in At("woken")
    BY <1>3, <2>1, AtFinite, FS_RemoveElement
  <2>2. CASE p \notin At("woken")
    <3>1. At("woken")' = At("woken")
      BY <1>3, <2>2
    <3>2. QED
      BY <3>1, AtFinite
  <2>3. QED
    BY <2>1, <2>2
<1>5. /\ Len(data_queue) \in Nat
      /\ Len(data_queue') = Len(data_queue) - 1
  BY <1>1
<1>6. QED
  BY <1>2, <1>4, <1>5 DEF NoLostWakeup

LEMMA PushKeepsWakeups ==
  ASSUME IInv, NoLostWakeup, Push
  PROVE  NoLostWakeup'
<1>1. pc \in [Poppers -> PopperStates] /\ data_queue \in Seq(Nat)
  BY DEF IInv, TypeOK
<1>2. /\ Len(data_queue) \in Nat
      /\ Len(data_queue') \in Nat
      /\ Len(data_queue') <= Len(data_queue) + 1
  <2>1. CASE IsFull
    <3>1. data_queue # <<>>
      BY <1>1, <2>1, MaxSizeAssumption DEF IsFull, MaxSizeAssumption
    <3>2. QED
      BY <1>1, <2>1, <3>1 DEF Push
  <2>2. CASE ~IsFull
    BY <1>1, <2>2 DEF Push
  <2>3. QED
    BY <2>1, <2>2
<1>3. CASE At("waiting") = {} /\ UNCHANGED pc
  BY <1>3 DEF NoLostWakeup, At
<1>4. ASSUME NEW p \in At("waiting"), pc' = [pc EXCEPT ![p] = "woken"]
      PROVE  NoLostWakeup'
  <2>1. Cardinality(At("woken")') = Cardinality(At("woken")) + 1
    BY <1>1, <1>4, WakeOne
  <2>2. Cardinality(At("woken")) \in Nat
    BY AtFinite
  <2>3. ~stopOnceEmpty /\ Len(data_queue) <= Cardinality(At("woken"))
    BY DEF NoLostWakeup
  <2>4. ~stopOnceEmpty'
    BY <2>3 DEF Push
  <2>5. QED
    BY <1>2, <2>1, <2>2, <2>3, <2>4 DEF NoLostWakeup
<1>5. QED
  BY <1>3, <1>4 DEF Push, NotifyOne

LEMMA WakeupNext == IInv /\ NoLostWakeup /\ [Next]_vars => NoLostWakeup'
<1> SUFFICES ASSUME IInv, NoLostWakeup, [Next]_vars
             PROVE  NoLostWakeup'
  OBVIOUS
<1>0. pc \in [Poppers -> PopperStates]
  BY DEF IInv, TypeOK
<1>1. CASE Push
  BY <1>1, PushKeepsWakeups
<1>2. CASE StopOnceEmpty
  <2>1. At("waiting")' = {}
    BY <1>2 DEF StopOnceEmpty, NotifyAll, At
  <2>2. QED
    BY <2>1 DEF NoLostWakeup
<1>3. ASSUME NEW p \in Poppers, WaitAndPop(p)
      PROVE  NoLostWakeup'
  <2>1. CASE TakeFront(p)
    BY <1>3, <2>1, TakeFrontKeepsWakeups DEF WaitAndPop
  <2>2. CASE /\ data_queue = <<>>
             /\ pc' = [pc EXCEPT ![p] = IF stopOnceEmpty THEN "done"
                                                         ELSE "waiting"]
             /\ UNCHANGED <<data_queue, stopOnceEmpty, nPushed, popped, dropped>>
    <3>1. Len(data_queue') <= Cardinality(At("woken")')
      <4>1. Cardinality(At("woken")') \in Nat
        BY AtFinite
      <4>2. Len(data_queue') = 0
        BY <2>2
      <4>3. QED
        BY <4>1, <4>2
    <3>2. CASE stopOnceEmpty
      <4>1. At("waiting") = {}
        BY <3>2 DEF NoLostWakeup
      <4>2. At("waiting")' = {}
        BY <1>0, <2>2, <3>2, <4>1 DEF At
      <4>3. QED
        BY <4>2 DEF NoLostWakeup
    <3>3. CASE ~stopOnceEmpty
      BY <2>2, <3>1, <3>3 DEF NoLostWakeup
    <3>4. QED
      BY <3>2, <3>3
  <2>3. QED
    BY <1>3, <2>1, <2>2 DEF WaitAndPop
<1>4. ASSUME NEW p \in Poppers, TryPop(p)
      PROVE  NoLostWakeup'
  BY <1>4, TakeFrontKeepsWakeups DEF TryPop
<1>5. ASSUME NEW p \in Poppers, SpuriousWakeup(p)
      PROVE  NoLostWakeup'
  <2>1. p \in At("waiting")
    BY <1>5 DEF SpuriousWakeup, At
  <2>2. ~stopOnceEmpty /\ Len(data_queue) <= Cardinality(At("woken"))
    BY <2>1 DEF NoLostWakeup
  <2>3. Cardinality(At("woken")') = Cardinality(At("woken")) + 1
    BY <1>0, <1>5, <2>1, WakeOne DEF SpuriousWakeup
  <2>4. Cardinality(At("woken")) \in Nat /\ Len(data_queue) \in Nat
    BY AtFinite DEF IInv, TypeOK
  <2>5. UNCHANGED <<data_queue, stopOnceEmpty>>
    BY <1>5 DEF SpuriousWakeup
  <2>6. QED
    BY <2>2, <2>3, <2>4, <2>5 DEF NoLostWakeup
<1>6. CASE UNCHANGED vars
  BY <1>6 DEF vars, NoLostWakeup, At
<1>7. QED
  BY <1>1, <1>2, <1>3, <1>4, <1>5, <1>6 DEF Next

(* While a popper sleeps, every queued value has a notified popper coming   *)
(* for it; so a push never leaves a value behind among sleepers.            *)
THEOREM NoLostWakeupHolds == Spec => []NoLostWakeup
<1>1. Init => NoLostWakeup
  BY DEF Init, NoLostWakeup, At
<1>2. QED
  BY <1>1, InitIInv, NextIInv, WakeupNext, PTL DEF Spec

------------------------------------------------------------------------------
(* Refinement: safety only, the fairness of FifoSpec stays with TLC. *)

LEMMA TakeFrontTakes ==
  ASSUME IInv, NEW p \in Poppers, pc[p] \in {"idle", "woken"}, TakeFront(p)
  PROVE  Fifo!Take
<1>1. pc \in [Poppers -> PopperStates]
  BY DEF IInv, TypeOK
<1>2. At("done")' = At("done")
  BY <1>1 DEF TakeFront, At
<1>3. p \in Poppers \ At("done")
  BY DEF At
<1>4. QED
  BY <1>2, <1>3 DEF TakeFront, Fifo!Take

LEMMA StepRefines == IInv /\ [Next]_vars => [Fifo!FifoNext]_(Fifo!fifoVars)
<1> SUFFICES ASSUME IInv, [Next]_vars
             PROVE  [Fifo!FifoNext]_(Fifo!fifoVars)
  OBVIOUS
<1>0. /\ pc \in [Poppers -> PopperStates]
      /\ data_queue \in Seq(Nat)
      /\ MaxSize > 0 => Len(data_queue) <= MaxSize
  BY DEF IInv, TypeOK
<1>1. CASE Push
  <2>1. At("done")' = At("done")
    BY <1>0, <1>1 DEF Push, NotifyOne, At
  <2>2. IsFull <=> ~Fifo!HasRoom
    BY <1>0, MaxSizeAssumption DEF IsFull, Fifo!HasRoom, MaxSizeAssumption
  <2>3. Fifo!Put
    BY <1>1, <2>1, <2>2 DEF Push, Fifo!Put
  <2>4. QED
    BY <2>3 DEF Fifo!FifoNext
<1>2. CASE StopOnceEmpty
  <2>1. At("done")' = At("done")
    BY <1>0, <1>2 DEF StopOnceEmpty, NotifyAll, At
  <2>2. Fifo!Shut
    BY <1>2, <2>1 DEF StopOnceEmpty, Fifo!Shut
  <2>3. QED
    BY <2>2 DEF Fifo!FifoNext
<1>3. ASSUME NEW p \in Poppers, WaitAndPop(p)
      PROVE  [Fifo!FifoNext]_(Fifo!fifoVars)
  <2>1. CASE TakeFront(p)
    BY <1>3, <2>1, TakeFrontTakes DEF WaitAndPop, Fifo!FifoNext
  <2>2. CASE /\ data_queue = <<>>
             /\ pc' = [pc EXCEPT ![p] = IF stopOnceEmpty THEN "done"
                                                         ELSE "waiting"]
             /\ UNCHANGED <<data_queue, stopOnceEmpty, nPushed, popped, dropped>>
    <3>1. pc[p] # "done"
      BY <1>3 DEF WaitAndPop
    <3>2. CASE stopOnceEmpty
      <4>1. /\ p \in Poppers \ At("done")
            /\ Poppers \ At("done")' = (Poppers \ At("done")) \ {p}
        BY <1>0, <2>2, <3>1, <3>2 DEF At
      <4>2. Fifo!Leave(p)
        BY <2>2, <3>2, <4>1 DEF Fifo!Leave
      <4>3. QED
        BY <4>2 DEF Fifo!FifoNext
    <3>3. CASE ~stopOnceEmpty
      <4>1. At("done")' = At("done")
        BY <1>0, <2>2, <3>1, <3>3 DEF At
      <4>2. QED
        BY <2>2, <4>1 DEF Fifo!fifoVars
    <3>4. QED
      BY <3>2, <3>3
  <2>3. QED
    BY <1>3, <2>1, <2>2 DEF WaitAndPop
<1>4. ASSUME NEW p \in Poppers, TryPop(p)
      PROVE  [Fifo!FifoNext]_(Fifo!fifoVars)
  BY <1>4, TakeFrontTakes DEF TryPop, Fifo!FifoNext
<1>5. ASSUME NEW p \in Poppers, SpuriousWakeup(p)
      PROVE  [Fifo!FifoNext]_(Fifo!fifoVars)
  <2>1. At("done")' = At("done")
    BY <1>0, <1>5 DEF SpuriousWakeup, At
  <2>2. QED
    BY <1>5, <2>1 DEF SpuriousWakeup, Fifo!fifoVars
<1>6. CASE UNCHANGED vars
  BY <1>6 DEF vars, Fifo!fifoVars, At
<1>7. QED
  BY <1>1, <1>2, <1>3, <1>4, <1>5, <1>6 DEF Next

(* Every behaviour of the queue is one of the lossy fifo: sleeping, waking  *)
(* and notifying are invisible from outside.                                *)
THEOREM RefinesLossyFifo ==
  Spec => Fifo!FifoInit /\ [][Fifo!FifoNext]_(Fifo!fifoVars)
<1>1. Init => Fifo!FifoInit
  BY DEF Init, Fifo!FifoInit, At
<1>2. QED
  BY <1>1, InitIInv, NextIInv, StepRefines, PTL DEF Spec
==============================================================================
