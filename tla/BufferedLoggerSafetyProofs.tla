----------------------- MODULE BufferedLoggerSafetyProofs -----------------------
(***************************************************************************)
(* Proofs of BufferedLogger's safety properties.  None is inductive: each  *)
(* rests on where the tags in every part of the system come from, on what  *)
(* the acks in flight say, and on the order in which items are added,      *)
(* queued and cached.                                                      *)
(***************************************************************************)
EXTENDS BufferedLoggerProofs, FiniteSetTheorems

(* What the sender looks up was put into the cache before, as was whatever  *)
(* the resender copied and whatever travels.                                *)
Flow ==
    /\ DeliveryFlow
    /\ senderPc \in {"get", "getAgain"} => useCache
    /\ useCache /\ senderPc \in {"get", "getAgain", "send"} => item \in cached

(* Items are cached in the order in which they were added, each one once:   *)
(* what is cached comes before the sender's new item and that before what   *)
(* is queued.                                                               *)
Increasing(seq) == \A i, j \in DOMAIN seq : i < j => seq[i] < seq[j]

InOrder ==
    /\ Elements(queue) \cup cached \subseteq added
    /\ item # NoItem => item \in added
    /\ Increasing(queue)
    /\ \A next \in Elements(queue) : item < next
    /\ \A next \in Elements(queue) : \A tag \in cached : tag < next
    /\ senderPc = "popped" => \A tag \in cached : tag < item

(* What expired is out of the cache for good.                               *)
ExpiredGone ==
    /\ expired \subseteq cached
    /\ expired \cap dataCache = {}
    /\ ObsoleteNotResent

(* A sender that ended without being told to found the queue stopped.       *)
EndedAsTold == senderPc = "ended" /\ ~senderStopped => stopOnceEmpty

IInv ==
    /\ TypeInv
    /\ Flow
    /\ AcksTrue
    /\ AckedWereCached
    /\ InOrder
    /\ ExpiredGone
    /\ NoSilentLoss
    /\ EndedAsTold

------------------------------------------------------------------------------
(* Flow. *)

(* What the main thread leaves alone.                                       *)
LEMMA AddDataKeeps ==
  ASSUME AddData
  PROVE  /\ UNCHANGED <<cacheVars, connVars, lines, cacheBak, cacheCopy,
                        historyVars, item, attempted, thrown>>
         /\ senderPc' = IF senderPc = "none" THEN "loop" ELSE senderPc
<1>1. CASE senderPc = "none"
  BY <1>1 DEF AddData, StartWorkers, StartReaderAndResender
<1>2. CASE senderPc # "none"
  BY <1>2 DEF AddData, StartWorkers, deliveryVars, readerVars, resenderVars
<1>3. QED
  BY <1>1, <1>2

LEMMA MainKeeps ==
  ASSUME Main, ~AddData
  PROVE  /\ UNCHANGED <<cacheVars, readerVars, resenderVars, historyVars,
                        senderVars, queue, overflowed, added>>
         /\ UNCHANGED connVars \/ DropConnection
<1>1. CASE Destroy
  BY <1>1 DEF Destroy, StopClient, queueVars
<1>2. CASE ~Destroy
  <2>1. UNCHANGED <<cacheVars, connVars, readerVars, resenderVars,
                    historyVars, senderVars, added>>
    BY <1>2
       DEF Main, WaitUntilAllSend, WaitReturns, Destructor, DestroyQueue,
           DestroySender, DestroyResender, DestroyReader, Join, deliveryVars
  <2>2. UNCHANGED <<queue, overflowed>>
    BY <1>2
       DEF Main, WaitUntilAllSend, WaitReturns, Destructor, DestroyQueue,
           DestroySender, DestroyResender, DestroyReader, Join, StopQueue,
           queueVars
  <2>3. QED
    BY <2>1, <2>2
<1>3. QED
  BY <1>1, <1>2

\* what a thread whose call never returns leaves alone
LEMMA HangKeeps ==
  ASSUME HangStep
  PROVE  /\ UNCHANGED <<cacheVars, lines, cacheBak, cacheCopy, historyVars,
                        queueVars, callerVars, item, thrown>>
         /\ LoseConnection \/ UNCHANGED <<toServer, toClient, cut, stale>>
         /\ attempted \subseteq attempted'
         /\ senderPc' = senderPc \/ (senderPc = "send" /\ senderPc' = "stuck")
<1>1. CASE SenderHangs
  BY <1>1, NeverReturnsLeaves
     DEF SenderHangs, SenderGoes, readerVars, resenderVars
<1>2. CASE Hangs /\ UNCHANGED loggerVars
  BY <1>2, HangsLeave DEF loggerVars, senderVars
<1>3. QED
  BY <1>1, <1>2 DEF HangStep

LEMMA FlowMain ==
  ASSUME TypeOK, Flow, Main
  PROVE  Flow'
<1>1. UNCHANGED <<useCache, dataCache, cached, cacheBak, cacheCopy, item, lines>>
  <2>1. CASE AddData
    BY <2>1, AddDataKeeps DEF cacheVars, historyVars
  <2>2. CASE ~AddData
    BY <2>2, MainKeeps
       DEF cacheVars, historyVars, resenderVars, readerVars, senderVars
  <2>3. QED
    BY <2>1, <2>2
<1>2. senderPc' \in {senderPc, "loop"}
  BY AddDataKeeps, MainKeeps DEF senderVars
<1>3. Travelling' \subseteq Travelling
  BY <1>1, AddDataKeeps, MainKeeps, TravellingUnchanged, TravellingDropped
     DEF connVars, DropConnection
<1>4. QED
  <2>1. DeliveryFlow'
    BY <1>1, <1>3, FlowParts, FlowByParts DEF Flow
  <2>2. QED
    BY <1>1, <1>2, <2>1 DEF Flow

LEMMA FlowSender ==
  ASSUME TypeOK, Flow, Sender
  PROVE  Flow'
<1>1. UNCHANGED <<useCache, resenderVars, lines>>
  BY DEF Sender, SenderLoop, SenderPop, SenderPopNothing, SenderInterrupted,
         SenderCache, SenderGet, SenderSend, SenderThrows, deliveryVars,
         cacheVars,
         readerVars
<1>2. CASE SenderCache
  <2>1. UNCHANGED Travelling
    BY <1>1, <1>2, TravellingUnchanged DEF SenderCache, connVars
  <2>2. CASE useCache
    <3>1. /\ dataCache' = dataCache \cup {item}
          /\ cached' = cached \cup {item}
          /\ item' = item /\ senderPc' = "get"
      BY <1>2, <2>2 DEF SenderCache, AddToCache, SenderGoes
    <3>2. QED
      BY <1>1, <2>1, <2>2, <3>1, FlowParts, FlowByParts DEF resenderVars, Flow
  <2>3. CASE ~useCache
    <3>1. UNCHANGED <<dataCache, cached>> /\ senderPc' = "send"
      BY <1>2, <2>3 DEF SenderCache, SenderGoes, historyVars
    <3>2. QED
      BY <1>1, <2>1, <2>3, <3>1, FlowParts, FlowByParts DEF resenderVars, Flow
  <2>4. QED
    BY <2>2, <2>3
<1>3. CASE SenderSend
  <2>1. UNCHANGED <<dataCache, cached>> /\ senderPc' = "loop"
    BY <1>3 DEF SenderSend, SenderGoes, cacheVars, historyVars
  <2>2. useCache => Travelling' \subseteq cached
    <3>1. item \in Tags /\ ConnTypeOK
      BY <1>3 DEF SenderSend, TypeOK, SenderTypeOK, DeliveryTypeOK
    <3>2. useCache => item \in cached
      BY <1>3 DEF SenderSend, Flow
    <3>3. Travelling' \subseteq Travelling \cup {item}
      BY <1>1, <1>3, <3>1, TravellingWritten, TravellingDropped
         DEF SenderSend, NotWritten, DropConnection
    <3>4. QED
      BY <3>2, <3>3, FlowParts DEF Flow
  <2>3. QED
    BY <1>1, <2>1, <2>2, FlowParts, FlowByParts DEF resenderVars, Flow
<1>4. CASE SenderLoop \/ SenderPop \/ SenderPopNothing \/ SenderInterrupted
             \/ SenderGet \/ SenderThrows
  <2>1. UNCHANGED <<dataCache, cached, toServer, toClient>>
    BY <1>4
       DEF SenderLoop, SenderPop, SenderPopNothing, SenderInterrupted,
           SenderGet, SenderThrows, deliveryVars, cacheVars, historyVars,
           connVars
  <2>2. /\ senderPc' \in {"get", "getAgain"} => useCache
        /\ useCache /\ senderPc' \in {"get", "getAgain", "send"} => item' \in cached
    BY <1>4
       DEF SenderLoop, SenderPop, SenderPopNothing, SenderInterrupted,
           SenderGet, SenderThrows, SenderGoes, Flow
  <2>3. QED
    BY <1>1, <2>1, <2>2, TravellingUnchanged, FlowParts, FlowByParts
       DEF resenderVars, Flow
<1>5. QED
  BY <1>2, <1>3, <1>4 DEF Sender

LEMMA FlowStep ==
  ASSUME TypeOK, Flow, [Next]_vars
  PROVE  Flow'
<1>1. CASE \/ ReaderStep \/ ResenderStep \/ ServerStep \/ LateCloseStep
           \/ \E tag \in Tags : AgeStep(tag)
  <2>1. UNCHANGED <<senderVars, useCache, cached>>
    <3>1. UNCHANGED senderVars
      BY <1>1
         DEF ReaderStep, ResenderStep, ServerStep, LateCloseStep, AgeStep,
             loggerVars
    <3>2. UNCHANGED <<useCache, cached>>
      BY <1>1, FlowResender, FlowOthers
         DEF ReaderStep, ResenderStep, ServerStep, LateCloseStep, AgeStep,
             TypeOK, Flow
    <3>3. QED
      BY <3>1, <3>2
  <2>2. DeliveryFlow'
    BY <1>1, FlowDelivery
       DEF ReaderStep, ResenderStep, ServerStep, LateCloseStep, AgeStep,
           TypeOK, Flow
  <2>3. QED
    BY <2>1, <2>2 DEF senderVars, Flow
<1>2. CASE UNCHANGED vars
  <2>1. UNCHANGED <<useCache, dataCache, cached, cacheBak, cacheCopy, lines,
                    toServer, toClient, item, senderPc>>
    BY <1>2
       DEF vars, deliveryVars, loggerVars, cacheVars, connVars, readerVars,
           resenderVars, historyVars, senderVars
  <2>2. DeliveryFlow'
    BY <2>1, TravellingUnchanged, FlowParts, FlowByParts DEF Flow
  <2>3. QED
    BY <2>1, <2>2 DEF Flow
<1>3. CASE HangStep
  <2>1. UNCHANGED <<useCache, dataCache, cached, cacheBak, cacheCopy, lines, item>>
    BY <1>3, HangKeeps DEF cacheVars, historyVars
  <2>2. senderPc' \in {senderPc, "stuck"}
    BY <1>3, HangKeeps
  <2>3. Travelling' \subseteq Travelling
    BY <1>3, <2>1, HangKeeps, TravellingUnchanged, TravellingDropped
  <2>4. DeliveryFlow'
    BY <2>1, <2>3, FlowParts, FlowByParts DEF Flow
  <2>5. QED
    BY <2>1, <2>2, <2>4 DEF Flow
<1>4. QED
  BY <1>1, <1>2, <1>3, FlowMain, FlowSender DEF Next, Terminated

------------------------------------------------------------------------------
(* AcksTrue. *)

LEMMA AcksStep ==
  ASSUME TypeOK, AcksTrue, [Next]_vars
  PROVE  AcksTrue'
<1>1. CASE Main
  BY <1>1, AddDataKeeps, MainKeeps, AcksOthers
     DEF connVars, readerVars, historyVars, DropConnection, LoseConnection
<1>2. CASE Sender
  <2>1. toClient' \in {toClient, <<>>}
    BY <1>2
       DEF Sender, SenderLoop, SenderPop, SenderPopNothing, SenderInterrupted,
           SenderCache, SenderGet, SenderSend, SenderThrows, deliveryVars,
           connVars, Written,
           NotWritten, DropConnection, LoseConnection
  <2>2. UNCHANGED <<lines, acked>>
    BY <1>2
       DEF Sender, SenderLoop, SenderPop, SenderPopNothing, SenderInterrupted,
           SenderCache, SenderGet, SenderSend, SenderThrows, AddToCache,
           deliveryVars,
           readerVars, historyVars
  <2>3. QED
    BY <2>1, <2>2, AcksOthers
<1>3. CASE \/ ReaderStep \/ ResenderStep \/ ServerStep \/ LateCloseStep
           \/ \E tag \in Tags : AgeStep(tag)
  BY <1>3, AcksDelivery
     DEF TypeOK, ReaderStep, ResenderStep, ServerStep, LateCloseStep, AgeStep
<1>4. CASE UNCHANGED vars
  BY <1>4, AcksOthers
     DEF vars, deliveryVars, connVars, readerVars, historyVars
<1>5. CASE HangStep
  BY <1>5, HangKeeps, AcksOthers DEF historyVars, LoseConnection
<1>6. QED
  BY <1>1, <1>2, <1>3, <1>4, <1>5 DEF Next, Terminated

------------------------------------------------------------------------------
(* InOrder. *)

(* Only AddData and SenderPop change the queue, and only SenderCache the    *)
(* set of cached items.                                                     *)
LEMMA QueueKeeps ==
  ASSUME [Next]_vars, ~AddData, ~Sender
  PROVE  /\ UNCHANGED <<queue, added, cached, item, overflowed, thrown>>
         /\ attempted \subseteq attempted'
         /\ senderPc' = senderPc \/ (senderPc = "send" /\ senderPc' = "stuck")
<1>1. CASE Main
  BY <1>1, MainKeeps DEF historyVars, senderVars
<1>2. CASE ReaderStep
  BY <1>2
     DEF ReaderStep, Reader, ReaderRead, ReaderClose, ReaderProcess,
         ReaderExit, historyVars, loggerVars, queueVars, senderVars,
         callerVars
<1>3. CASE ResenderStep
  BY <1>3
     DEF ResenderStep, Resender, ResenderTimer, ResenderErase, ResenderCopy,
         ResenderSend, ResenderRoundEnd, ResenderThrows, ResenderExit,
         historyVars, loggerVars,
         queueVars, senderVars, callerVars
<1>4. CASE ServerStep \/ LateCloseStep \/ \E tag \in Tags : AgeStep(tag)
  BY <1>4
     DEF ServerStep, Server, ServerReads, HangUp, Ignore, Acknowledge,
         LateCloseStep, LateClose, AgeStep, Age, historyVars, loggerVars,
         queueVars, senderVars, callerVars
<1>5. CASE UNCHANGED vars
  BY <1>5
     DEF vars, deliveryVars, historyVars, loggerVars, queueVars, senderVars,
         callerVars
<1>6. CASE HangStep
  BY <1>6, HangKeeps DEF historyVars, queueVars, callerVars
<1>7. QED
  BY <1>1, <1>2, <1>3, <1>4, <1>5, <1>6 DEF Next, Terminated

LEMMA TailIncreasing ==
  ASSUME NEW s \in Seq(Tags), s # <<>>, Increasing(s)
  PROVE  /\ Increasing(Tail(s))
         /\ \A next \in Elements(Tail(s)) : Head(s) < next
<1>1. DOMAIN s = 1..Len(s) /\ Len(s) \in Nat \ {0}
  BY TailElement
<1>2. /\ DOMAIN Tail(s) = 1..(Len(s) - 1)
      /\ \A i \in 1..(Len(s) - 1) : Tail(s)[i] = s[i + 1]
      /\ Head(s) = s[1]
  BY TailElement
<1>3. ASSUME NEW i \in DOMAIN Tail(s), NEW j \in DOMAIN Tail(s), i < j
      PROVE  Tail(s)[i] < Tail(s)[j]
  <2>1. i + 1 \in DOMAIN s /\ j + 1 \in DOMAIN s /\ i + 1 < j + 1
    BY <1>1, <1>2, <1>3
  <2>2. QED
    BY <1>2, <2>1 DEF Increasing
<1>4. ASSUME NEW i \in DOMAIN Tail(s)
      PROVE  Head(s) < Tail(s)[i]
  <2>1. 1 \in DOMAIN s /\ i + 1 \in DOMAIN s /\ 1 < i + 1
    BY <1>1, <1>2
  <2>2. QED
    BY <1>2, <2>1 DEF Increasing
<1>5. QED
  BY <1>3, <1>4 DEF Increasing, Elements

LEMMA AppendIncreasing ==
  ASSUME NEW s \in Seq(Tags), Increasing(s), NEW tag \in Tags,
         \A earlier \in Elements(s) : earlier < tag
  PROVE  Increasing(Append(s, tag))
<1>1. DOMAIN s = 1..Len(s) /\ Len(s) \in Nat
  OBVIOUS
<1>2. /\ DOMAIN Append(s, tag) = 1..(Len(s) + 1)
      /\ \A i \in 1..Len(s) : Append(s, tag)[i] = s[i]
      /\ Append(s, tag)[Len(s) + 1] = tag
  BY AppendElement
<1>3. ASSUME NEW i \in 1..(Len(s) + 1), NEW j \in 1..(Len(s) + 1), i < j
      PROVE  Append(s, tag)[i] < Append(s, tag)[j]
  <2>1. i \in DOMAIN s
    BY <1>1, <1>3
  <2>2. CASE j \in DOMAIN s
    BY <1>1, <1>2, <1>3, <2>1, <2>2 DEF Increasing
  <2>3. CASE j = Len(s) + 1
    BY <1>1, <1>2, <2>1, <2>3 DEF Elements
  <2>4. QED
    BY <1>1, <2>2, <2>3
<1>4. QED
  BY <1>2, <1>3 DEF Increasing

LEMMA InOrderAddData ==
  ASSUME TypeOK, TypeOK', InOrder, AddData
  PROVE  InOrder'
<1> DEFINE rest == IF QueueFull THEN Tail(queue) ELSE queue
<1>1. PICK tag \in Tags :
        /\ \A earlier \in added : earlier < tag
        /\ added' = added \cup {tag}
        /\ queue' = Append(rest, tag)
  BY DEF AddData
<1>2. UNCHANGED <<item, cached>> /\ senderPc' \in {senderPc, "loop"}
  BY AddDataKeeps DEF historyVars
<1>3. rest \in Seq(Tags) /\ Increasing(rest) /\ Elements(rest) \subseteq Elements(queue)
  <2>1. queue \in Seq(Tags) /\ Increasing(queue)
    BY DEF TypeOK, QueueTypeOK, InOrder
  <2>2. QueueFull => queue # <<>>
    BY BufferLimitAssumption DEF QueueFull, BufferLimitAssumption
  <2>3. CASE QueueFull
    <3>1. rest = Tail(queue) /\ queue # <<>>
      BY <2>2, <2>3
    <3>2. Tail(queue) \in Seq(Tags)
      BY <2>1, <3>1, TailElement
    <3>3. Increasing(Tail(queue))
      BY <2>1, <3>1, TailIncreasing
    <3>4. Elements(Tail(queue)) \subseteq Elements(queue)
      BY <2>1, <3>1, ElementsOfTail
    <3>5. QED
      BY <3>1, <3>2, <3>3, <3>4
  <2>4. CASE ~QueueFull
    <3>1. rest = queue
      BY <2>4
    <3>2. QED
      BY <2>1, <3>1
  <2>5. QED
    BY <2>3, <2>4
<1> HIDE DEF rest
<1>4. Elements(queue') = Elements(rest) \cup {tag}
  BY <1>1, <1>3, ElementsOfAppend
<1>5. \A earlier \in Elements(rest) : earlier < tag
  BY <1>1, <1>3 DEF InOrder
<1>6. Increasing(queue')
  BY <1>1, <1>3, <1>5, AppendIncreasing
<1>7. Elements(queue') \cup cached' \subseteq added'
  BY <1>1, <1>2, <1>3, <1>4 DEF InOrder
<1>8. item < tag /\ \A old \in cached : old < tag
  <2>1. item = 0 \/ item \in added
    BY DEF InOrder, NoItem
  <2>2. 0 < tag
    BY TagsAssumption DEF TagsAssumption
  <2>3. QED
    BY <1>1, <2>1, <2>2 DEF InOrder
<1>9. /\ \A next \in Elements(queue') : item' < next
      /\ \A next \in Elements(queue') : \A old \in cached' : old < next
  BY <1>2, <1>3, <1>4, <1>8 DEF InOrder
<1>10. QED
  BY <1>1, <1>2, <1>6, <1>7, <1>9 DEF InOrder

LEMMA InOrderSender ==
  ASSUME TypeOK, InOrder, Sender
  PROVE  InOrder'
<1>1. added' = added
  BY DEF Sender, SenderLoop, SenderPop, SenderPopNothing, SenderInterrupted,
         SenderCache, SenderGet, SenderSend, SenderThrows, SenderGoes,
         callerVars
<1>2. CASE SenderPop
  <2>1. queue \in Seq(Tags) /\ queue # <<>>
    BY <1>2 DEF SenderPop, TypeOK, QueueTypeOK
  <2>2. Elements(queue) = {Head(queue)} \cup Elements(Tail(queue))
    BY <2>1, ElementsOfTail
  <2>3. /\ Increasing(Tail(queue))
        /\ \A next \in Elements(Tail(queue)) : Head(queue) < next
    BY <2>1, TailIncreasing DEF InOrder
  <2>4. item' = Head(queue) /\ queue' = Tail(queue) /\ cached' = cached
    BY <1>2 DEF SenderPop, deliveryVars, historyVars
  <2>5. QED
    BY <1>1, <2>2, <2>3, <2>4 DEF InOrder
<1>3. CASE SenderCache
  <2>1. /\ queue' = queue /\ item' = item /\ senderPc' # "popped"
        /\ cached' \subseteq cached \cup {item}
    BY <1>3 DEF SenderCache, AddToCache, SenderGoes, queueVars, historyVars
  <2>2. item \in added
    BY <1>3, TagsAssumption
       DEF SenderCache, TypeOK, SenderTypeOK, InOrder, NoItem, TagsAssumption
  <2>3. QED
    BY <1>1, <2>1, <2>2 DEF InOrder
<1>4. CASE SenderLoop \/ SenderPopNothing \/ SenderInterrupted \/ SenderGet
             \/ SenderSend \/ SenderThrows
  <2>1. queue' = queue /\ cached' = cached /\ senderPc' # "popped"
    BY <1>4
       DEF SenderLoop, SenderPopNothing, SenderInterrupted, SenderGet,
           SenderSend, SenderThrows, SenderGoes, deliveryVars, queueVars,
           historyVars
  <2>2. item' \in {item, NoItem}
    BY <1>4
       DEF SenderLoop, SenderPopNothing, SenderInterrupted, SenderGet,
           SenderSend, SenderThrows
  <2>3. \A next \in Elements(queue) : 0 < next
    <3>1. Elements(queue) \subseteq Tags
      BY DEF TypeOK, QueueTypeOK, Elements
    <3>2. ASSUME NEW next \in Elements(queue) PROVE 0 < next
      <4>1. next \in Nat \ {0}
        BY <3>1, TagsAssumption DEF TagsAssumption
      <4>2. QED
        BY <4>1
    <3>3. QED
      BY <3>2
  <2>4. QED
    BY <1>1, <2>1, <2>2, <2>3 DEF InOrder, NoItem
<1>5. QED
  BY <1>2, <1>3, <1>4 DEF Sender

LEMMA InOrderStep ==
  ASSUME TypeOK, TypeOK', InOrder, [Next]_vars
  PROVE  InOrder'
<1>1. CASE ~AddData /\ ~Sender
  BY <1>1, QueueKeeps DEF InOrder, Increasing, Elements
<1>2. QED
  BY <1>1, InOrderAddData, InOrderSender

------------------------------------------------------------------------------
(* What leaves the cache. *)

LEMMA NewItem ==
  ASSUME TypeOK, InOrder, SenderCache
  PROVE  item \in Tags /\ item \notin cached
<1>1. item \in Tags /\ senderPc = "popped"
  BY DEF SenderCache, TypeOK, SenderTypeOK
<1>2. item \in Nat
  BY <1>1, TagsAssumption DEF TagsAssumption
<1>3. ~(item < item)
  BY <1>2
<1>4. QED
  BY <1>1, <1>3 DEF InOrder

LEMMA CacheSteps ==
  ASSUME [Next]_vars, ~SenderCache, ~ReaderStep, ~ResenderStep
  PROVE  UNCHANGED <<dataCache, cached, cacheCopy, expired, misread>> /\ acked \subseteq acked'
<1>1. CASE Main
  BY <1>1, AddDataKeeps, MainKeeps DEF cacheVars, historyVars, resenderVars
<1>2. CASE Sender
  BY <1>2
     DEF Sender, SenderLoop, SenderPop, SenderPopNothing, SenderInterrupted,
         SenderGet, SenderSend, SenderThrows, deliveryVars, cacheVars,
         historyVars,
         resenderVars
<1>3. CASE ServerStep
  BY <1>3
     DEF ServerStep, Server, ServerReads, HangUp, Ignore, Acknowledge,
         cacheVars, historyVars, resenderVars
<1>4. CASE LateCloseStep \/ \E tag \in Tags : AgeStep(tag)
  BY <1>4
     DEF LateCloseStep, LateClose, AgeStep, Age, cacheVars, historyVars,
         resenderVars
<1>5. CASE UNCHANGED vars
  BY <1>5 DEF vars, deliveryVars, cacheVars, historyVars, resenderVars
<1>6. CASE HangStep
  BY <1>6, HangKeeps DEF cacheVars, historyVars
<1>7. QED
  BY <1>1, <1>2, <1>3, <1>4, <1>5, <1>6 DEF Next, Terminated

LEMMA CacheReader ==
  ASSUME ReaderStep
  PROVE  /\ UNCHANGED <<cached, cacheCopy, acked, expired>>
         /\ dataCache' \subseteq dataCache
         /\ misread \subseteq misread'
  BY
     DEF EraseFromCache, ReaderStep, Reader, ReaderRead, ReaderClose,
         ReaderProcess,
         ReaderExit, cacheVars, historyVars, resenderVars

LEMMA ExpiredGoneStep ==
  ASSUME TypeOK, Flow, InOrder, ExpiredGone, [Next]_vars
  PROVE  ExpiredGone'
<1> USE DEF ExpiredGone, ObsoleteNotResent
<1>1. CASE SenderCache
  <2>1. /\ dataCache' \subseteq dataCache \cup {item}
        /\ cached \subseteq cached'
        /\ UNCHANGED <<expired, cacheCopy>>
    BY <1>1 DEF SenderCache, AddToCache, historyVars, resenderVars
  <2>2. QED
    BY <1>1, <2>1, NewItem
<1>2. CASE ReaderStep
  BY <1>2, CacheReader
<1>3. CASE ResenderStep
  <2>1. cached' = cached
    BY <1>3, FlowResender DEF ResenderStep, TypeOK, Flow
  <2>2. CASE ResenderErase
    <3>1. cacheCopy = {} /\ cacheBak \subseteq cached
      BY <2>2, FlowParts
         DEF Flow, ResenderErase, TypeOK, DeliveryTypeOK, ResenderTypeOK
    <3>2. QED
      BY <2>1, <2>2, <3>1 DEF EraseFromCache, ResenderErase
  <2>3. CASE ~ResenderErase
    <3>1. expired' = expired /\ dataCache' = dataCache
      BY <1>3, <2>3
         DEF ResenderStep, Resender, ResenderTimer, ResenderCopy,
             ResenderSend,
             ResenderRoundEnd, ResenderThrows, ResenderExit, historyVars,
             cacheVars
    <3>2. cacheCopy' \subseteq cacheCopy \/ cacheCopy' = dataCache
      BY <1>3, <2>3
         DEF ResenderStep, Resender, ResenderTimer, ResenderCopy,
             ResenderSend,
             ResenderRoundEnd, ResenderThrows, ResenderExit
    <3>3. QED
      BY <2>1, <3>1, <3>2
  <2>4. QED
    BY <2>2, <2>3
<1>4. CASE ~SenderCache /\ ~ReaderStep /\ ~ResenderStep
  BY <1>4, CacheSteps
<1>5. QED
  BY <1>1, <1>2, <1>3, <1>4

------------------------------------------------------------------------------
(* NoSilentLoss. *)

Retained == cached \subseteq dataCache \cup acked \cup expired \cup misread

LEMMA RetainedStep ==
  ASSUME TypeOK, AcksTrue, Retained, [Next]_vars
  PROVE  Retained'
<1> USE DEF Retained
<1>1. CASE SenderCache
  BY <1>1 DEF SenderCache, AddToCache, historyVars
<1>2. CASE ReaderStep \/ ResenderStep
  BY <1>2, CacheLosses DEF TypeOK, ReaderStep, ResenderStep
<1>3. CASE ~SenderCache /\ ~ReaderStep /\ ~ResenderStep
  BY <1>3, CacheSteps
<1>4. QED
  BY <1>1, <1>2, <1>3

(* The second part of NoSilentLoss, which the caller and the sender share.  *)
Passed ==
    ~senderStopped =>
        added \subseteq Elements(queue) \cup {item} \cup overflowed
                           \cup cached \cup attempted \cup thrown

LEMMA PassedAddData ==
  ASSUME TypeOK, Passed, AddData
  PROVE  Passed'
<1>1. PICK tag \in Tags :
        /\ added' = added \cup {tag}
        /\ queue' = Append(IF QueueFull THEN Tail(queue) ELSE queue, tag)
  BY DEF AddData
<1>2. UNCHANGED <<item, cached, attempted, thrown, senderStopped>>
  BY AddDataKeeps DEF AddData, historyVars
<1>3. queue \in Seq(Tags)
  BY DEF TypeOK, QueueTypeOK
<1>4. CASE QueueFull
  <2>1. queue # <<>>
    BY <1>4, BufferLimitAssumption DEF QueueFull, BufferLimitAssumption
  <2>2. Elements(queue) = {Head(queue)} \cup Elements(Tail(queue))
    BY <1>3, <2>1, ElementsOfTail
  <2>3. Tail(queue) \in Seq(Tags)
    BY <1>3, <2>1, TailElement
  <2>4. Elements(queue') = Elements(Tail(queue)) \cup {tag}
    <3>1. queue' = Append(Tail(queue), tag)
      BY <1>1, <1>4
    <3>2. ASSUME NEW rest \in Seq(Tags)
          PROVE  Elements(Append(rest, tag)) = Elements(rest) \cup {tag}
      BY ElementsOfAppend
    <3>3. QED
      BY <2>3, <3>1, <3>2
  <2>5. overflowed' = overflowed \cup {Head(queue)}
    BY <1>4 DEF AddData
  <2>6. QED
    BY <1>1, <1>2, <2>2, <2>4, <2>5 DEF Passed
<1>5. CASE ~QueueFull
  <2>1. Elements(queue') = Elements(queue) \cup {tag}
    <3>1. queue' = Append(queue, tag)
      BY <1>1, <1>5
    <3>2. Elements(Append(queue, tag)) = Elements(queue) \cup {tag}
      BY <1>3, ElementsOfAppend
    <3>3. QED
      BY <3>1, <3>2
  <2>2. overflowed' = overflowed
    BY <1>5 DEF AddData
  <2>3. QED
    BY <1>1, <1>2, <2>1, <2>2 DEF Passed
<1>6. QED
  BY <1>4, <1>5

LEMMA PassedSender ==
  ASSUME TypeOK, Flow, Passed, Sender
  PROVE  Passed'
<1>1. UNCHANGED <<added, senderStopped, overflowed>>
  BY DEF Sender, SenderLoop, SenderPop, SenderPopNothing, SenderInterrupted,
         SenderCache, SenderGet, SenderSend, SenderThrows, SenderGoes,
         callerVars, queueVars
<1>2. NoItem \notin Tags
  BY TagsAssumption DEF TagsAssumption, NoItem
<1>3. CASE SenderPop
  <2>1. Elements(queue) = {Head(queue)} \cup Elements(Tail(queue))
    BY <1>3, ElementsOfTail DEF SenderPop, TypeOK, QueueTypeOK
  <2>2. /\ item' = Head(queue) /\ queue' = Tail(queue)
        /\ UNCHANGED <<cached, attempted, thrown>>
    BY <1>3 DEF SenderPop, deliveryVars, historyVars
  <2>3. added \subseteq Tags
    BY DEF TypeOK, CallerTypeOK
  <2>4. item = NoItem
    BY <1>3 DEF SenderPop, TypeOK, SenderTypeOK
  <2>5. QED
    BY <1>1, <1>2, <2>1, <2>2, <2>3, <2>4 DEF Passed
<1>4. CASE SenderCache
  BY <1>1, <1>4
     DEF SenderCache, AddToCache, queueVars, historyVars, Passed, Elements
<1>5. CASE SenderGet
  <2>1. item \in cached
    BY <1>5 DEF SenderGet, Flow
  <2>2. UNCHANGED <<queue, cached, attempted, thrown>> /\ item' \in {item, NoItem}
    BY <1>5 DEF SenderGet, deliveryVars, historyVars, queueVars
  <2>3. QED
    BY <1>1, <2>1, <2>2 DEF Passed, Elements
<1>6. CASE SenderSend
  <2>1. item \in cached \cup attempted'
    BY <1>6 DEF SenderSend, Flow
  <2>2. UNCHANGED <<queue, cached, thrown>> /\ attempted \subseteq attempted'
    BY <1>6 DEF SenderSend, historyVars, queueVars
  <2>3. QED
    BY <1>1, <2>1, <2>2 DEF Passed, Elements
<1>7. CASE SenderInterrupted
  BY <1>1, <1>7 DEF SenderInterrupted, Passed
<1>8. CASE SenderLoop \/ SenderPopNothing
  BY <1>1, <1>8
     DEF SenderLoop, SenderPopNothing, deliveryVars, historyVars, queueVars,
         Passed, Elements
<1>9. CASE SenderThrows
  <2>1. item \in cached \cup thrown'
    BY <1>9 DEF SenderThrows, Flow
  <2>2. UNCHANGED <<queue, cached, attempted>> /\ thrown \subseteq thrown'
    BY <1>9 DEF SenderThrows, deliveryVars, historyVars, queueVars
  <2>3. QED
    BY <1>1, <2>1, <2>2 DEF Passed, Elements
<1>10. QED
  BY <1>3, <1>4, <1>5, <1>6, <1>7, <1>8, <1>9 DEF Sender

LEMMA PassedStep ==
  ASSUME TypeOK, Flow, Passed, [Next]_vars
  PROVE  Passed'
<1>1. CASE ~AddData /\ ~Sender
  <2>1. senderStopped' = senderStopped \/ senderStopped' = TRUE
    BY <1>1
       DEF Next, Terminated, Main, WaitUntilAllSend, WaitReturns, Destroy,
           Destructor, DestroyQueue, DestroySender, DestroyResender,
           DestroyReader, Join, ReaderStep, ResenderStep, ServerStep,
           LateCloseStep, HangStep, SenderHangs, SenderGoes, AgeStep, vars,
           loggerVars, callerVars
  <2>2. QED
    BY <1>1, <2>1, QueueKeeps DEF Passed, Elements
<1>2. QED
  BY <1>1, PassedAddData, PassedSender

LEMMA LossParts == NoSilentLoss <=> Retained /\ Passed
  BY DEF NoSilentLoss, Retained, Passed

------------------------------------------------------------------------------
(* EndedAsTold. *)

LEMMA EndedStep ==
  ASSUME EndedAsTold, [Next]_vars
  PROVE  EndedAsTold'
<1> USE DEF EndedAsTold
<1>1. CASE AddData
  BY <1>1, AddDataKeeps DEF AddData
<1>2. CASE Main /\ ~AddData
  <2>1. senderPc' = senderPc
    BY <1>2, MainKeeps DEF senderVars
  <2>2. /\ stopOnceEmpty => stopOnceEmpty'
        /\ senderStopped => senderStopped'
    BY <1>2
       DEF Main, WaitUntilAllSend, WaitReturns, Destroy, Destructor,
           DestroyQueue, DestroySender, DestroyResender, DestroyReader, Join,
           StopQueue, queueVars
  <2>3. QED
    BY <2>1, <2>2
<1>3. CASE Sender
  BY <1>3
     DEF Sender, SenderLoop, SenderPop, SenderPopNothing, SenderInterrupted,
         SenderCache, SenderGet, SenderSend, SenderThrows, SenderGoes,
         callerVars, queueVars
<1>4. CASE ~Main /\ ~Sender
  <2>1. UNCHANGED <<senderStopped, stopOnceEmpty>>
    BY <1>4, HangKeeps
       DEF Next, Terminated, ReaderStep, ResenderStep, ServerStep,
           LateCloseStep, AgeStep, vars, loggerVars, queueVars, callerVars
  <2>2. senderPc' = senderPc \/ senderPc' = "stuck"
    BY <1>4, QueueKeeps DEF Main
  <2>3. QED
    BY <2>1, <2>2
<1>5. QED
  BY <1>1, <1>2, <1>3, <1>4

------------------------------------------------------------------------------
(* AckedWereCached, and what the steps of the logger's own threads show. *)

LEMMA EffectOfOthers ==
  ASSUME [Next]_vars, ~SenderCache, ~ReaderStep, ~ResenderStep, ~ServerStep
  PROVE  UNCHANGED <<useCache, dataCache, cached, acked, expired, misread>>
<1>1. CASE Main
  BY <1>1, AddDataKeeps, MainKeeps DEF cacheVars, historyVars
<1>2. CASE Sender
  BY <1>2
     DEF Sender, SenderLoop, SenderPop, SenderPopNothing, SenderInterrupted,
         SenderGet, SenderSend, SenderThrows, deliveryVars, cacheVars,
         historyVars
<1>3. CASE LateCloseStep \/ \E tag \in Tags : AgeStep(tag)
  BY <1>3 DEF LateCloseStep, LateClose, AgeStep, Age, cacheVars, historyVars
<1>4. CASE UNCHANGED vars
  BY <1>4 DEF vars, deliveryVars, cacheVars, historyVars
<1>5. CASE HangStep
  BY <1>5, HangKeeps DEF cacheVars, historyVars
<1>6. QED
  BY <1>1, <1>2, <1>3, <1>4, <1>5 DEF Next, Terminated

LEMMA EffectOfThreadSteps ==
  ASSUME TypeOK, Flow, AcksTrue, ReaderStep \/ ResenderStep \/ ServerStep
  PROVE  Effect /\ UNCHANGED <<useCache, cached>>
  BY EffectOfThreads DEF TypeOK, Flow, ReaderStep, ResenderStep, ServerStep

LEMMA SenderCacheShows ==
  ASSUME SenderCache
  PROVE  /\ useCache' = useCache
         /\ UNCHANGED <<acked, expired, misread>>
         /\ useCache => /\ dataCache' = dataCache \cup {item}
                        /\ cached' = cached \cup {item}
         /\ ~useCache => UNCHANGED <<dataCache, cached>>
  BY DEF SenderCache, AddToCache, historyVars

LEMMA AckedStep ==
  ASSUME TypeOK, Flow, AcksTrue, AckedWereCached, [Next]_vars
  PROVE  AckedWereCached'
<1>1. CASE SenderCache
  BY <1>1, SenderCacheShows DEF AckedWereCached
<1>2. CASE ReaderStep \/ ResenderStep \/ ServerStep
  BY <1>2, EffectOfThreadSteps, AckedThreads
<1>3. CASE ~SenderCache /\ ~ReaderStep /\ ~ResenderStep /\ ~ServerStep
  BY <1>3, EffectOfOthers DEF AckedWereCached
<1>4. QED
  BY <1>1, <1>2, <1>3

------------------------------------------------------------------------------
(* The inductive invariant and the theorems. *)

LEMMA IInvInit == Init => IInv
<1> SUFFICES ASSUME Init PROVE IInv
  OBVIOUS
<1>1. TypeInv
  BY InitType DEF TypeInv, StartedTogether, Init, DeliveryInit
<1>2. /\ queue = <<>> /\ toServer = <<>> /\ toClient = <<>> /\ lines = <<>>
      /\ dataCache = {} /\ cacheBak = {} /\ cacheCopy = {}
      /\ cached = {} /\ expired = {} /\ added = {}
      /\ senderPc = "none" /\ item = NoItem
  BY DEF Init, DeliveryInit
<1>3. Flow
  BY <1>2, FlowInit DEF Flow, Init
<1>4. AcksTrue /\ AckedWereCached
  BY <1>2, AckedInit DEF AcksTrue, Init
<1>5. InOrder
  BY <1>2, ElementsOfEmpty DEF InOrder, Increasing
<1>6. ExpiredGone /\ NoSilentLoss
  BY <1>2 DEF ExpiredGone, ObsoleteNotResent, NoSilentLoss
<1>7. EndedAsTold
  BY <1>2 DEF EndedAsTold
<1>8. QED
  BY <1>1, <1>3, <1>4, <1>5, <1>6, <1>7 DEF IInv

LEMMA IInvStep == IInv /\ [Next]_vars => IInv'
<1> SUFFICES ASSUME IInv, [Next]_vars PROVE IInv'
  OBVIOUS
<1>1. TypeInv /\ TypeOK /\ TypeInv' /\ TypeOK'
  BY TypeStep DEF IInv, TypeInv
<1>2. Flow'
  BY <1>1, FlowStep DEF IInv
<1>3. AcksTrue' /\ AckedWereCached'
  BY <1>1, AcksStep, AckedStep DEF IInv
<1>4. InOrder'
  BY <1>1, InOrderStep DEF IInv
<1>5. ExpiredGone'
  BY <1>1, ExpiredGoneStep DEF IInv
<1>6. NoSilentLoss'
  <2>1. Retained'
    BY <1>1, RetainedStep, LossParts DEF IInv
  <2>2. Passed'
    BY <1>1, PassedStep, LossParts DEF IInv
  <2>3. QED
    BY <2>1, <2>2 DEF NoSilentLoss, Retained, Passed
<1>7. EndedAsTold'
  BY EndedStep DEF IInv
<1>8. QED
  BY <1>1, <1>2, <1>3, <1>4, <1>5, <1>6, <1>7 DEF IInv

LEMMA IInvHolds == Spec => []IInv
  BY IInvInit, IInvStep, PTL DEF Spec

(* No item is lost without a reason: it is queued, held or cached, or left  *)
(* the full queue, or was acknowledged, too old or misread, or, uncached,   *)
(* was passed to Send or is the one whose GetData threw, or the sender was  *)
(* stopped; the accounting of AddData, DataSender::Run with its exception   *)
(* handlers, DataReader::ProcessTag and DataResender::ResendData together.  *)
THEOREM NoSilentLossHolds == Spec => []NoSilentLoss
<1>1. IInv => NoSilentLoss
  BY DEF IInv
<1>2. QED
  BY <1>1, IInvHolds, PTL

(* With acks, nothing travels to mdsd or back that was not cached first:    *)
(* DataSender.cc:80-91.                                                     *)
THEOREM CachedBeforeSentHolds == Spec => []CachedBeforeSent
<1>1. IInv => CachedBeforeSent
  BY DEF IInv, Flow, DeliveryFlow
<1>2. QED
  BY <1>1, IInvHolds, PTL

(* The resender never sends an item that it dropped for its age:            *)
(* DataResender.h:74, DataResender.cc:107-153.                              *)
THEOREM ObsoleteNotResentHolds == Spec => []ObsoleteNotResent
<1>1. IInv => ObsoleteNotResent
  BY DEF IInv, ExpiredGone
<1>2. QED
  BY <1>1, IInvHolds, PTL

(* An item that left the cache never comes back, whatever the resender's    *)
(* copies hold: ConcurrentMap.h, DataResender.cc:107-153.                   *)
THEOREM ErasedStaysErasedHolds == Spec => ErasedStaysErased
<1>1. IInv /\ [Next]_vars => dataCache' \cap cached \subseteq dataCache
  <2> SUFFICES ASSUME IInv, [Next]_vars
               PROVE  dataCache' \cap cached \subseteq dataCache
    OBVIOUS
  <2>1. TypeOK /\ InOrder
    BY DEF IInv, TypeInv
  <2>2. CASE SenderCache
    <3>1. dataCache' \subseteq dataCache \cup {item}
      BY <2>2 DEF SenderCache, AddToCache
    <3>2. QED
      BY <2>1, <2>2, <3>1, NewItem
  <2>3. CASE ReaderStep
    BY <2>3, CacheReader
  <2>4. CASE ResenderStep
    BY <2>4
       DEF EraseFromCache, ResenderStep, Resender, ResenderTimer,
           ResenderErase, ResenderCopy,
           ResenderSend, ResenderRoundEnd, ResenderThrows, ResenderExit,
           cacheVars
  <2>5. CASE ~SenderCache /\ ~ReaderStep /\ ~ResenderStep
    BY <2>5, CacheSteps
  <2>6. QED
    BY <2>2, <2>3, <2>4, <2>5
<1>2. QED
  BY <1>1, IInvHolds, PTL DEF Spec, ErasedStaysErased

------------------------------------------------------------------------------
(* The promise. *)

LEMMA PromiseThreads ==
  ASSUME IInv, Effect, UNCHANGED <<useCache, cached>>
  PROVE  [Promise!PromiseNext]_(Promise!promiseVars)
<1> USE DEF Promise!promiseVars, Promise!PromiseNext
<1>1. TypeOK /\ dataCache \subseteq cached /\ AckedWereCached
  BY FlowParts DEF IInv, TypeInv, Flow
<1>2. CASE UNCHANGED <<dataCache, acked, expired, misread>>
  BY <1>2
<1>3. ASSUME NEW tag \in Tags, Acknowledged(tag)
      PROVE  [Promise!PromiseNext]_(Promise!promiseVars)
  <2>1. CASE useCache
    <3>1. tag \in cached /\ (acked \cap cached)' = (acked \cap cached) \cup {tag}
      BY <1>3, <2>1 DEF Acknowledged
    <3>2. Promise!Acknowledge(tag)
      BY <1>3, <3>1 DEF Acknowledged, Promise!Acknowledge
    <3>3. QED
      BY <3>2
  <2>2. CASE ~useCache
    BY <1>1, <1>3, <2>2 DEF Acknowledged, AckedWereCached
  <2>3. QED
    BY <2>1, <2>2
<1>4. ASSUME NEW tag \in Tags, LetGo(tag)
      PROVE  [Promise!PromiseNext]_(Promise!promiseVars)
  <2>1. Promise!LetGo(tag)
    BY <1>1, <1>4 DEF LetGo, Promise!LetGo
  <2>2. QED
    BY <2>1
<1>5. ASSUME NEW tag \in Tags, Mistaken(tag)
      PROVE  [Promise!PromiseNext]_(Promise!promiseVars)
  <2>1. Promise!Mistake(tag)
    BY <1>5 DEF Mistaken, Promise!Mistake
  <2>2. QED
    BY <2>1
<1>6. ASSUME NEW tags \in SUBSET dataCache, Outdated(tags)
      PROVE  [Promise!PromiseNext]_(Promise!promiseVars)
  <2>1. Promise!Expire(tags)
    BY <1>6 DEF Outdated, Promise!Expire
  <2>2. QED
    BY <2>1
<1>7. QED
  BY <1>2, <1>3, <1>4, <1>5, <1>6 DEF Effect

LEMMA PromiseStep == IInv /\ [Next]_vars => [Promise!PromiseNext]_(Promise!promiseVars)
<1> SUFFICES ASSUME IInv, [Next]_vars
             PROVE  [Promise!PromiseNext]_(Promise!promiseVars)
  OBVIOUS
<1>1. TypeOK /\ Flow /\ AcksTrue /\ AckedWereCached /\ InOrder
  BY DEF IInv, TypeInv
<1>2. CASE SenderCache /\ useCache
  <2>1. item \in Tags /\ item \notin cached
    BY <1>1, <1>2, NewItem
  <2>2. /\ dataCache' = dataCache \cup {item} /\ cached' = cached \cup {item}
        /\ UNCHANGED <<acked, expired, misread>>
    BY <1>2, SenderCacheShows
  <2>3. (acked \cap cached)' = acked \cap cached
    BY <1>1, <1>2, <2>1, <2>2 DEF AckedWereCached
  <2>4. Promise!Take(item)
    BY <2>1, <2>2, <2>3 DEF Promise!Take
  <2>5. QED
    BY <2>1, <2>4 DEF Promise!PromiseNext
<1>3. CASE SenderCache /\ ~useCache
  BY <1>3, SenderCacheShows DEF Promise!promiseVars
<1>4. CASE ReaderStep \/ ResenderStep \/ ServerStep
  BY <1>1, <1>4, EffectOfThreadSteps, PromiseThreads
<1>5. CASE ~SenderCache /\ ~ReaderStep /\ ~ResenderStep /\ ~ServerStep
  BY <1>5, EffectOfOthers DEF Promise!promiseVars
<1>6. QED
  BY <1>2, <1>3, <1>4, <1>5

(* BufferedLogger implements DeliveryPromise, for any tags, queue limit and *)
(* buffers: DataSender::Run takes each item once, and it is let go of only  *)
(* in a step of DataReader::ProcessTag, whose ack names it or, misread, is  *)
(* another item's, or of DataResender::ResendData, for its age.             *)
THEOREM KeepsItsPromiseHolds == Spec => KeepsItsPromise
<1>1. Init => Promise!PromiseInit
  BY DEF Init, DeliveryInit, Promise!PromiseInit
<1>2. QED
  BY <1>1, PromiseStep, IInvHolds, PTL
     DEF Spec, KeepsItsPromise, Promise!PromiseSpec

------------------------------------------------------------------------------
(* Why KeptUntilAckedOrTimedOut and AllSentMeansQueueEmpty fail. *)

LEMMA WholeStep ==
  ASSUME TypeOK, WholeLines, [Next]_vars, [~CutOff]_vars
  PROVE  WholeLines'
<1>1. CASE UNCHANGED vars
  BY <1>1, WholeUnchanged
     DEF vars, deliveryVars, connVars, readerVars, historyVars
<1> SUFFICES ASSUME ~CutOff, Next
             PROVE  WholeLines'
  BY <1>1
<1>2. CASE Main
  <2>1. UNCHANGED <<lines, misread>>
    BY <1>2, AddDataKeeps, MainKeeps DEF historyVars, readerVars
  <2>2. UNCHANGED stale
    BY <1>2, AddDataKeeps, MainKeeps, DropsWhole DEF connVars, DropConnection
  <2>3. QED
    BY <2>1, <2>2, WholeUnchanged
<1>3. CASE Sender
  <2>1. UNCHANGED <<lines, misread>>
    BY <1>3
       DEF Sender, SenderLoop, SenderPop, SenderPopNothing, SenderInterrupted,
           SenderCache, AddToCache, SenderGet, SenderSend, SenderThrows,
           deliveryVars,
           readerVars, historyVars
  <2>2. UNCHANGED stale
    BY <1>3, DropsWhole
       DEF Sender, SenderLoop, SenderPop, SenderPopNothing, SenderInterrupted,
           SenderCache, SenderGet, SenderSend, SenderThrows, deliveryVars,
           connVars, Written,
           NotWritten, DropConnection
  <2>3. QED
    BY <2>1, <2>2, WholeUnchanged
<1>4. CASE \/ ReaderStep \/ ResenderStep \/ ServerStep \/ LateCloseStep
           \/ \E tag \in Tags : AgeStep(tag)
  BY <1>4, WholeDelivery
     DEF ReaderStep, ResenderStep, ServerStep, LateCloseStep, AgeStep, TypeOK
<1>5. CASE HangStep
  BY <1>5, HangKeeps, DropsWhole, WholeUnchanged DEF historyVars
<1>6. QED
  BY <1>1, <1>2, <1>3, <1>4, <1>5 DEF Next, Terminated

(* The README's promise, kept until acknowledged or timed out, holds as     *)
(* long as no connection ends while DataReader has part of a line of it:    *)
(* partialData (DataReader.cc), not cleared for a new connection, is the    *)
(* only way to lose an item for another's ack.                              *)
THEOREM KeptUnlessCutOff == Spec /\ [][~CutOff]_vars => []KeptUntilAckedOrTimedOut
<1>1. Init => WholeLines
  BY WholeInit DEF Init
<1>2. IInv /\ WholeLines /\ [Next]_vars /\ [~CutOff]_vars => WholeLines'
  BY WholeStep DEF IInv, TypeInv
<1>3. IInv /\ WholeLines => KeptUntilAckedOrTimedOut
  BY DEF IInv, NoSilentLoss, WholeLines, KeptUntilAckedOrTimedOut
<1>4. QED
  BY <1>1, <1>2, <1>3, IInvHolds, PTL DEF Spec

(* The sender ends for one of three reasons: it was told to, the queue was  *)
(* stopped, or Get or GetData threw: DataSender.cc:68-102.                  *)
THEOREM SenderEndsForAReason ==
  Spec => [](SenderDone => senderStopped \/ stopOnceEmpty \/ senderPc = "died")
<1>1. IInv => (SenderDone => senderStopped \/ stopOnceEmpty \/ senderPc = "died")
  BY DEF IInv, EndedAsTold, SenderDone
<1>2. QED
  BY <1>1, IInvHolds, PTL

(* And it throws only for an item whose GetData may throw, or that is no    *)
(* loss: one that mdsd acknowledged, though the sender did not send it, or  *)
(* that got too old, or that another's ack was taken for, between Add and   *)
(* Get.  The items queued behind it, which nobody takes out any more        *)
(* although WaitUntilAllSend says that all are sent, are what is lost.      *)
EndsRunFor == Throwing \cup acked \cup expired \cup misread

THEOREM SenderDiesForAReason ==
  Spec => [][senderPc # "died" /\ senderPc' = "died" => item \in EndsRunFor]_vars
<1>1. ASSUME IInv, [Next]_vars, senderPc # "died", senderPc' = "died"
      PROVE  item \in EndsRunFor
  <2>1. SenderGet \/ SenderThrows
    <3>1. CASE Main
      BY <1>1, <3>1, AddDataKeeps, MainKeeps DEF senderVars
    <3>2. CASE Sender
      BY <1>1, <3>2
         DEF Sender, SenderLoop, SenderPop, SenderPopNothing,
             SenderInterrupted, SenderCache, SenderSend, SenderGoes
    <3>3. CASE ~Main /\ ~Sender
      BY <1>1, <3>3, QueueKeeps DEF Main
    <3>4. QED
      BY <3>1, <3>2, <3>3
  <2>2. CASE SenderThrows
    BY <2>2 DEF SenderThrows, EndsRunFor
  <2>3. CASE SenderGet
    <3>1. senderPc \in {"get", "getAgain"} /\ item \notin dataCache
      BY <1>1, <2>3 DEF SenderGet, SenderGoes
    <3>2. item \in cached
      BY <1>1, <2>3, <3>1 DEF SenderGet, IInv, Flow
    <3>3. QED
      BY <1>1, <3>1, <3>2 DEF IInv, NoSilentLoss, EndsRunFor
  <2>4. QED
    BY <2>1, <2>2, <2>3
<1>2. QED
  BY <1>1, IInvHolds, PTL DEF Spec
------------------------------------------------------------------------------
(* The queue is the lossy fifo that ConcurrentQueue implements, with the    *)
(* items numbered in the order in which AddData got them.                   *)

Rank(tags, tag) == Cardinality({earlier \in tags : earlier <= tag})
Ranks(tags, some) == {Rank(tags, tag) : tag \in some}
Ranked(tags, seq) == [n \in DOMAIN seq |-> Rank(tags, seq[n])]

\* the items that the sender took out of the queue
TakenOut == added \ (Elements(queue) \cup overflowed)

Fifo == INSTANCE LossyFifo
    WITH Readers <- {"sender"}, Capacity <- BufferLimit,
         buffer <- Ranked(added, queue), put <- Cardinality(added),
         taken <- Ranks(added, TakenOut),
         forgotten <- Ranks(added, overflowed),
         closed <- stopOnceEmpty, readers <- {"sender"}

LEMMA RankStays ==
  ASSUME NEW tags \in SUBSET Nat, NEW new \in Nat, \A old \in tags : old < new,
         NEW tag \in tags
  PROVE  Rank(tags \cup {new}, tag) = Rank(tags, tag)
<1>1. {earlier \in tags \cup {new} : earlier <= tag} = {earlier \in tags : earlier <= tag}
  OBVIOUS
<1>2. QED
  BY <1>1 DEF Rank

LEMMA RankOfNew ==
  ASSUME NEW tags \in SUBSET Nat, IsFiniteSet(tags), NEW new \in Nat,
         \A old \in tags : old < new
  PROVE  /\ IsFiniteSet(tags \cup {new})
         /\ Cardinality(tags \cup {new}) = Cardinality(tags) + 1
         /\ Rank(tags \cup {new}, new) = Cardinality(tags) + 1
<1>1. new \notin tags
  OBVIOUS
<1>2. /\ IsFiniteSet(tags \cup {new})
      /\ Cardinality(tags \cup {new}) = Cardinality(tags) + 1
  BY <1>1, FS_AddElement
<1>3. \A old \in tags \cup {new} : old <= new
  <2>1. \A old \in tags : old \in Nat /\ old < new
    OBVIOUS
  <2>2. QED
    BY <2>1
<1>4. {earlier \in tags \cup {new} : earlier <= new} = tags \cup {new}
  BY <1>3
<1>5. QED
  BY <1>2, <1>4 DEF Rank

LEMMA RanksStay ==
  ASSUME NEW tags \in SUBSET Nat, NEW new \in Nat, \A old \in tags : old < new,
         NEW some \in SUBSET tags
  PROVE  Ranks(tags \cup {new}, some) = Ranks(tags, some)
  BY RankStays DEF Ranks

LEMMA RankIsNat ==
  ASSUME NEW tags, IsFiniteSet(tags), NEW tag
  PROVE  Rank(tags, tag) \in Nat
<1>1. {earlier \in tags : earlier <= tag} \in SUBSET tags
  OBVIOUS
<1>2. QED
  BY <1>1, FS_Subset, FS_CardinalityType DEF Rank

LEMMA RankedSeq ==
  ASSUME NEW tags, IsFiniteSet(tags), NEW seq \in Seq(Tags)
  PROVE  /\ Ranked(tags, seq) \in Seq(Nat)
         /\ Len(Ranked(tags, seq)) = Len(seq)
         /\ DOMAIN Ranked(tags, seq) = 1..Len(seq)
         /\ Ranked(tags, seq) = <<>> <=> seq = <<>>
<1>1. DOMAIN seq = 1..Len(seq) /\ Len(seq) \in Nat
  OBVIOUS
<1>2. DOMAIN Ranked(tags, seq) = 1..Len(seq)
  BY <1>1 DEF Ranked
<1>3. Ranked(tags, seq) \in [1..Len(seq) -> Nat]
  BY <1>1, RankIsNat DEF Ranked
<1>4. Ranked(tags, seq) \in Seq(Nat)
  BY <1>1, <1>3
<1>5. Len(Ranked(tags, seq)) = Len(seq)
  BY <1>1, <1>2, <1>4
<1>6. QED
  BY <1>1, <1>2, <1>4, <1>5

LEMMA SameSeq ==
  ASSUME NEW S, NEW s \in Seq(S), NEW r \in Seq(S), Len(s) = Len(r),
         \A n \in 1..Len(s) : s[n] = r[n]
  PROVE  s = r
  OBVIOUS

LEMMA RankedAppend ==
  ASSUME NEW tags \in SUBSET Nat, IsFiniteSet(tags), NEW new \in Tags,
         \A old \in tags : old < new, NEW seq \in Seq(Tags), Elements(seq) \subseteq tags
  PROVE  Ranked(tags \cup {new}, Append(seq, new))
           = Append(Ranked(tags, seq), Cardinality(tags) + 1)
<1> DEFINE more == tags \cup {new}
           longer == Ranked(more, Append(seq, new))
           ranks == Ranked(tags, seq)
           next == Cardinality(tags) + 1
<1>0. new \in Nat
  BY TagsAssumption DEF TagsAssumption
<1>1. IsFiniteSet(more) /\ Rank(more, new) = next
  BY <1>0, RankOfNew
<1>2. /\ Append(seq, new) \in Seq(Tags) /\ Len(Append(seq, new)) = Len(seq) + 1
      /\ DOMAIN Append(seq, new) = 1..(Len(seq) + 1)
      /\ \A n \in 1..Len(seq) : Append(seq, new)[n] = seq[n]
      /\ Append(seq, new)[Len(seq) + 1] = new
  BY AppendElement
<1>3. DOMAIN seq = 1..Len(seq) /\ Len(seq) \in Nat
  OBVIOUS
<1>4. /\ longer \in Seq(Nat) /\ Len(longer) = Len(seq) + 1
      /\ ranks \in Seq(Nat) /\ Len(ranks) = Len(seq) /\ next \in Nat
  <2>1. longer \in Seq(Nat) /\ Len(longer) = Len(seq) + 1
    <3> HIDE DEF more
    <3>1. PICK seq2 \in Seq(Tags) : seq2 = Append(seq, new)
      BY <1>2
    <3>2. Ranked(more, seq2) \in Seq(Nat) /\ Len(Ranked(more, seq2)) = Len(seq2)
      BY <1>1, RankedSeq
    <3>3. QED
      BY <1>2, <3>1, <3>2
  <2>2. ranks \in Seq(Nat) /\ Len(ranks) = Len(seq)
    BY RankedSeq
  <2>3. next \in Nat
    BY FS_CardinalityType
  <2>4. QED
    BY <2>1, <2>2, <2>3
<1>5. \A n \in 1..Len(seq) : longer[n] = ranks[n]
  <2> SUFFICES ASSUME NEW n \in 1..Len(seq) PROVE longer[n] = ranks[n]
    OBVIOUS
  <2>1. seq[n] \in tags
    BY <1>3 DEF Elements
  <2>2. longer[n] = Rank(more, seq[n]) /\ ranks[n] = Rank(tags, seq[n])
    BY <1>2, <1>3 DEF Ranked
  <2>3. QED
    BY <1>0, <2>1, <2>2, RankStays
<1>6. longer[Len(seq) + 1] = next
  BY <1>1, <1>2, <1>3 DEF Ranked
<1> HIDE DEF more, longer, ranks, next
<1>7. /\ Append(ranks, next) \in Seq(Nat) /\ Len(Append(ranks, next)) = Len(seq) + 1
      /\ \A n \in 1..Len(seq) : Append(ranks, next)[n] = ranks[n]
      /\ Append(ranks, next)[Len(seq) + 1] = next
  BY <1>4, AppendElement
<1>8. longer = Append(ranks, next)
  BY <1>3, <1>4, <1>5, <1>6, <1>7, SameSeq
<1>9. QED
  BY <1>8 DEF more, longer, ranks, next

LEMMA RankedTail ==
  ASSUME NEW tags, IsFiniteSet(tags), NEW seq \in Seq(Tags), seq # <<>>
  PROVE  /\ Ranked(tags, Tail(seq)) = Tail(Ranked(tags, seq))
         /\ Rank(tags, Head(seq)) = Head(Ranked(tags, seq))
<1> DEFINE shorter == Ranked(tags, Tail(seq))
           ranks == Ranked(tags, seq)
<1>1. /\ Tail(seq) \in Seq(Tags) /\ Len(seq) \in Nat \ {0}
      /\ DOMAIN seq = 1..Len(seq) /\ Head(seq) = seq[1]
      /\ Len(Tail(seq)) = Len(seq) - 1 /\ DOMAIN Tail(seq) = 1..(Len(seq) - 1)
      /\ \A n \in 1..(Len(seq) - 1) : Tail(seq)[n] = seq[n + 1]
  BY TailElement
<1>2. /\ shorter \in Seq(Nat) /\ Len(shorter) = Len(seq) - 1
      /\ ranks \in Seq(Nat) /\ Len(ranks) = Len(seq) /\ ranks # <<>>
  BY <1>1, RankedSeq
<1>3. \A n \in 1..(Len(seq) - 1) : shorter[n] = ranks[n + 1]
  BY <1>1 DEF Ranked
<1>4. ranks[1] = Rank(tags, Head(seq))
  BY <1>1 DEF Ranked
<1> HIDE DEF shorter, ranks
<1>5. /\ Tail(ranks) \in Seq(Nat) /\ Len(Tail(ranks)) = Len(seq) - 1
      /\ Head(ranks) = ranks[1]
      /\ \A n \in 1..(Len(seq) - 1) : Tail(ranks)[n] = ranks[n + 1]
  BY <1>2, TailElement
<1>6. shorter = Tail(ranks)
  <2>1. PICK rest \in Seq(Nat) : rest = Tail(ranks)
    BY <1>5
  <2>2. Len(shorter) = Len(rest) /\ \A n \in 1..Len(shorter) : shorter[n] = rest[n]
    BY <1>2, <1>3, <1>5, <2>1
  <2>3. shorter = rest
    BY <1>2, <2>2, SameSeq
  <2>4. QED
    BY <2>1, <2>3
<1>7. QED
  BY <1>4, <1>5, <1>6 DEF shorter, ranks

(* What was pushed out of the queue came before what is in it, and the      *)
(* items added are finitely many.                                           *)
OldGoFirst ==
    /\ IsFiniteSet(added)
    /\ overflowed \subseteq added
    /\ \A gone \in overflowed : \A next \in Elements(queue) : gone < next

\* the items in the queue, and its first one
LEMMA QueueFacts ==
  ASSUME IInv, OldGoFirst
  PROVE  /\ queue \in Seq(Tags) /\ added \subseteq Tags /\ Tags \subseteq Nat
         /\ Elements(queue) \subseteq added
         /\ queue # <<>> =>
              /\ Tail(queue) \in Seq(Tags)
              /\ Head(queue) \in added \ overflowed
              /\ Elements(queue) = {Head(queue)} \cup Elements(Tail(queue))
              /\ \A next \in Elements(Tail(queue)) : Head(queue) < next
<1>1. /\ queue \in Seq(Tags) /\ added \subseteq Tags /\ Tags \subseteq Nat
      /\ Elements(queue) \subseteq added /\ Increasing(queue)
  BY TagsAssumption
     DEF TagsAssumption, IInv, TypeInv, TypeOK, QueueTypeOK, CallerTypeOK,
         InOrder
<1>2. ASSUME queue # <<>>
      PROVE  /\ Tail(queue) \in Seq(Tags)
             /\ Head(queue) \in Tags
             /\ Elements(queue) = {Head(queue)} \cup Elements(Tail(queue))
             /\ \A next \in Elements(Tail(queue)) : Head(queue) < next
  BY <1>1, <1>2, ElementsOfTail, TailElement, TailIncreasing
<1>3. ASSUME queue # <<>>
      PROVE  Head(queue) \in added /\ Head(queue) \notin overflowed
  <2>1. Head(queue) \in Elements(queue) /\ Head(queue) \in Nat
    BY <1>1, <1>2, <1>3
  <2>2. ~(Head(queue) < Head(queue))
    BY <2>1
  <2>3. QED
    BY <1>1, <2>1, <2>2 DEF OldGoFirst
<1>4. QED
  BY <1>1, <1>2, <1>3

\* AddData puts an item that is later than all before
LEMMA AddDataPuts ==
  ASSUME IInv, OldGoFirst, AddData
  PROVE  \E tag \in Tags :
           /\ \A old \in added : old < tag
           /\ added' = added \cup {tag}
           /\ stopOnceEmpty' = stopOnceEmpty
           /\ \/ /\ BufferLimit = 0 \/ Len(queue) < BufferLimit
                 /\ queue' = Append(queue, tag) /\ overflowed' = overflowed
                 /\ Elements(queue') = Elements(queue) \cup {tag}
              \/ /\ ~(BufferLimit = 0 \/ Len(queue) < BufferLimit) /\ queue # <<>>
                 /\ queue' = Append(Tail(queue), tag)
                 /\ overflowed' = overflowed \cup {Head(queue)}
                 /\ Elements(queue') = Elements(Tail(queue)) \cup {tag}
<1>1. PICK tag \in Tags :
        /\ \A old \in added : old < tag
        /\ added' = added \cup {tag}
        /\ queue' = Append(IF QueueFull THEN Tail(queue) ELSE queue, tag)
  BY DEF AddData
<1>2. /\ stopOnceEmpty' = stopOnceEmpty
      /\ overflowed' = IF QueueFull THEN overflowed \cup {Head(queue)}
                                    ELSE overflowed
  BY DEF AddData
<1>3. queue \in Seq(Tags)
  BY QueueFacts
<1>4. /\ QueueFull <=> ~(BufferLimit = 0 \/ Len(queue) < BufferLimit)
      /\ QueueFull => queue # <<>>
  BY <1>3, BufferLimitAssumption
     DEF BufferLimitAssumption, QueueFull, IInv, TypeInv, TypeOK, QueueTypeOK
<1>5. CASE QueueFull
  <2>1. queue' = Append(Tail(queue), tag) /\ Tail(queue) \in Seq(Tags) /\ queue # <<>>
    BY <1>1, <1>4, <1>5, QueueFacts
  <2>2. Elements(queue') = Elements(Tail(queue)) \cup {tag}
    <3>1. PICK rest \in Seq(Tags) : rest = Tail(queue)
      BY <2>1
    <3>2. Elements(Append(rest, tag)) = Elements(rest) \cup {tag}
      BY ElementsOfAppend
    <3>3. QED
      BY <2>1, <3>1, <3>2
  <2>3. QED
    BY <1>1, <1>2, <1>4, <1>5, <2>1, <2>2
<1>6. CASE ~QueueFull
  <2>1. queue' = Append(queue, tag)
    BY <1>1, <1>6
  <2>2. Elements(queue') = Elements(queue) \cup {tag}
    BY <1>3, <2>1, ElementsOfAppend
  <2>3. QED
    BY <1>1, <1>2, <1>4, <1>6, <2>1, <2>2
<1>7. QED
  BY <1>5, <1>6

\* the sender takes the first item, or leaves the queue as it is
LEMMA SenderTakes ==
  ASSUME Sender
  PROVE  /\ UNCHANGED <<added, overflowed, stopOnceEmpty>>
         /\ \/ queue' = queue
            \/ queue # <<>> /\ queue' = Tail(queue)
  BY DEF Sender, SenderLoop, SenderPop, SenderPopNothing, SenderInterrupted,
         SenderCache, SenderGet, SenderSend, SenderThrows, SenderGoes,
         callerVars, queueVars

LEMMA OldGoFirstStep ==
  ASSUME IInv, OldGoFirst, [Next]_vars
  PROVE  OldGoFirst'
<1>1. CASE AddData
  <2>1. PICK tag \in Tags :
          /\ \A old \in added : old < tag
          /\ added' = added \cup {tag}
          /\ \/ /\ overflowed' = overflowed
                /\ Elements(queue') = Elements(queue) \cup {tag}
             \/ /\ queue # <<>>
                /\ overflowed' = overflowed \cup {Head(queue)}
                /\ Elements(queue') = Elements(Tail(queue)) \cup {tag}
    BY <1>1, AddDataPuts
  <2>2. IsFiniteSet(added')
    BY <2>1, FS_AddElement DEF OldGoFirst
  <2>3. QED
    BY <2>1, <2>2, QueueFacts DEF OldGoFirst
<1>2. CASE Sender
  BY <1>2, SenderTakes, QueueFacts DEF OldGoFirst, Elements
<1>3. CASE ~AddData /\ ~Sender
  BY <1>3, QueueKeeps DEF OldGoFirst, Elements
<1>4. QED
  BY <1>1, <1>2, <1>3

LEMMA AddDataIsPut ==
  ASSUME IInv, OldGoFirst, AddData
  PROVE  Fifo!Put
<1>1. PICK tag \in Tags :
        /\ \A old \in added : old < tag
        /\ added' = added \cup {tag}
        /\ stopOnceEmpty' = stopOnceEmpty
        /\ \/ /\ BufferLimit = 0 \/ Len(queue) < BufferLimit
              /\ queue' = Append(queue, tag) /\ overflowed' = overflowed
              /\ Elements(queue') = Elements(queue) \cup {tag}
           \/ /\ ~(BufferLimit = 0 \/ Len(queue) < BufferLimit) /\ queue # <<>>
              /\ queue' = Append(Tail(queue), tag)
              /\ overflowed' = overflowed \cup {Head(queue)}
              /\ Elements(queue') = Elements(Tail(queue)) \cup {tag}
  BY AddDataPuts
<1>2. /\ added \in SUBSET Nat /\ tag \in Nat /\ IsFiniteSet(added)
      /\ overflowed \subseteq added /\ tag \notin added
  BY <1>1, QueueFacts DEF OldGoFirst
<1>3. Cardinality(added') = Cardinality(added) + 1
  BY <1>1, <1>2, RankOfNew
<1>4. Len(Ranked(added, queue)) = Len(queue)
  BY <1>2, QueueFacts, RankedSeq
<1>5. TakenOut' = TakenOut /\ TakenOut \subseteq added
  BY <1>1, <1>2, QueueFacts DEF TakenOut
<1>6. Ranks(added', TakenOut') = Ranks(added, TakenOut)
  BY <1>1, <1>2, <1>5, RanksStay
<1>7. CASE /\ BufferLimit = 0 \/ Len(queue) < BufferLimit
           /\ queue' = Append(queue, tag) /\ overflowed' = overflowed
  <2>1. Ranked(added', queue') = Append(Ranked(added, queue), Cardinality(added) + 1)
    BY <1>1, <1>2, <1>7, QueueFacts, RankedAppend
  <2>2. Ranks(added', overflowed') = Ranks(added, overflowed)
    BY <1>1, <1>2, <1>7, RanksStay
  <2>3. QED
    BY <1>1, <1>3, <1>4, <1>6, <1>7, <2>1, <2>2 DEF Fifo!Put, Fifo!HasRoom
<1>8. CASE /\ ~(BufferLimit = 0 \/ Len(queue) < BufferLimit) /\ queue # <<>>
           /\ queue' = Append(Tail(queue), tag)
           /\ overflowed' = overflowed \cup {Head(queue)}
  <2>1. /\ Ranked(added, Tail(queue)) = Tail(Ranked(added, queue))
        /\ Rank(added, Head(queue)) = Head(Ranked(added, queue))
    BY <1>2, <1>8, QueueFacts, RankedTail
  <2>2. Tail(queue) \in Seq(Tags) /\ Elements(Tail(queue)) \subseteq added
    BY <1>8, QueueFacts
  <2>3. Ranked(added', queue')
          = Append(Tail(Ranked(added, queue)), Cardinality(added) + 1)
    BY <1>1, <1>2, <1>8, <2>1, <2>2, RankedAppend
  <2>4. Ranks(added', overflowed')
          = Ranks(added, overflowed) \cup {Head(Ranked(added, queue))}
    <3>1. overflowed' \subseteq added
      BY <1>2, <1>8, QueueFacts
    <3>2. Ranks(added', overflowed') = Ranks(added, overflowed')
      BY <1>1, <1>2, <3>1, RanksStay
    <3>3. Ranks(added, overflowed') = Ranks(added, overflowed) \cup {Rank(added, Head(queue))}
      BY <1>8 DEF Ranks
    <3>4. QED
      BY <2>1, <3>2, <3>3
  <2>5. QED
    BY <1>1, <1>3, <1>4, <1>6, <1>8, <2>3, <2>4 DEF Fifo!Put, Fifo!HasRoom
<1>9. QED
  BY <1>1, <1>7, <1>8

LEMMA SenderPopIsTake ==
  ASSUME IInv, OldGoFirst, UNCHANGED <<added, overflowed, stopOnceEmpty>>,
         queue # <<>>, queue' = Tail(queue)
  PROVE  Fifo!Take
<1>1. IsFiniteSet(added) /\ queue \in Seq(Tags)
  BY QueueFacts DEF OldGoFirst
<1>2. /\ Ranked(added, Tail(queue)) = Tail(Ranked(added, queue))
      /\ Rank(added, Head(queue)) = Head(Ranked(added, queue))
      /\ Ranked(added, queue) # <<>>
  BY <1>1, RankedTail, RankedSeq
<1>3. TakenOut' = TakenOut \cup {Head(queue)}
  <2>1. /\ Head(queue) \in added \ overflowed
        /\ Elements(queue) = {Head(queue)} \cup Elements(Tail(queue))
        /\ Head(queue) \notin Elements(Tail(queue))
    <3>1. Head(queue) \in Nat /\ \A next \in Elements(Tail(queue)) : Head(queue) < next
      BY QueueFacts
    <3>2. QED
      BY <3>1, QueueFacts
  <2>2. Elements(queue') = Elements(Tail(queue))
    OBVIOUS
  <2>3. QED
    BY <2>1, <2>2 DEF TakenOut
<1>4. Ranks(added, TakenOut') = Ranks(added, TakenOut) \cup {Rank(added, Head(queue))}
  BY <1>3 DEF Ranks
<1>5. QED
  BY <1>2, <1>4 DEF Fifo!Take

LEMMA QueueStep ==
  IInv /\ OldGoFirst /\ [Next]_vars => [Fifo!FifoNext]_(Fifo!fifoVars)
<1> SUFFICES ASSUME IInv, OldGoFirst, [Next]_vars
             PROVE  [Fifo!FifoNext]_(Fifo!fifoVars)
  OBVIOUS
<1>1. CASE AddData
  BY <1>1, AddDataIsPut DEF Fifo!FifoNext
<1>2. ASSUME UNCHANGED <<added, overflowed, queue, stopOnceEmpty>>
      PROVE  UNCHANGED Fifo!fifoVars
  BY <1>2 DEF Fifo!fifoVars, TakenOut
<1>3. CASE Sender
  BY <1>2, <1>3, SenderTakes, SenderPopIsTake DEF Fifo!FifoNext
<1>4. CASE ~AddData /\ ~Sender
  <2>1. UNCHANGED <<queue, added, overflowed>>
    BY <1>4, QueueKeeps
  <2>2. stopOnceEmpty' \in {stopOnceEmpty, TRUE}
    BY <1>4
       DEF Next, Terminated, Main, WaitUntilAllSend, WaitReturns, Destroy,
           Destructor, DestroyQueue, DestroySender, DestroyResender,
           DestroyReader, Join, StopQueue, ReaderStep, ResenderStep,
           ServerStep,
           LateCloseStep, HangStep, SenderHangs, AgeStep, vars, loggerVars,
           queueVars
  <2>3. CASE stopOnceEmpty' = TRUE
    BY <2>1, <2>3 DEF Fifo!FifoNext, Fifo!Shut, TakenOut
  <2>4. QED
    BY <1>2, <2>1, <2>2, <2>3
<1>5. QED
  BY <1>1, <1>3, <1>4

(* The queue of a BufferedLogger, as AddData, DataSender::Run and           *)
(* stop_once_empty use it, takes the steps of the lossy fifo that           *)
(* ConcurrentQueue was shown to implement (RefinesLossyFifo) and no others: *)
(* ConcurrentQueue.h:62-100 may be put in its place.                        *)
THEOREM QueueIsLossyFifo ==
  Spec => Fifo!FifoInit /\ [][Fifo!FifoNext]_(Fifo!fifoVars)
<1>1. Init => Fifo!FifoInit /\ OldGoFirst
  <2> SUFFICES ASSUME Init PROVE Fifo!FifoInit /\ OldGoFirst
    OBVIOUS
  <2>1. added = {} /\ queue = <<>> /\ overflowed = {} /\ stopOnceEmpty = FALSE
    BY DEF Init
  <2>2. Ranked({}, <<>>) = <<>> /\ Ranks({}, {}) = {}
    BY DEF Ranked, Ranks
  <2>3. Elements(queue) = {} /\ TakenOut = {}
    BY <2>1, ElementsOfEmpty DEF TakenOut
  <2>4. Cardinality(added) = 0 /\ IsFiniteSet(added)
    BY <2>1, FS_EmptySet
  <2>5. Ranked(added, queue) = <<>> /\ Ranks(added, TakenOut) = {}
        /\ Ranks(added, overflowed) = {}
    BY <2>1, <2>2, <2>3
  <2>6. QED
    BY <2>1, <2>3, <2>4, <2>5 DEF Fifo!FifoInit, OldGoFirst
<1>2. IInv /\ OldGoFirst /\ [Next]_vars => OldGoFirst'
  BY OldGoFirstStep
<1>3. QED
  BY <1>1, <1>2, QueueStep, IInvHolds, PTL DEF Spec
------------------------------------------------------------------------------
(* The destructor's joins. *)

SenderFinished == SenderDone \/ senderPc = "none"

\* what the joins that the destructor has behind it waited for still holds
Joined ==
    /\ mainPc \in {"joinResender", "joinReader", "gone"} => SenderFinished
    /\ mainPc \in {"joinReader", "gone"} => Finished(resenderPc)
    /\ mainPc = "gone" => Finished(readerPc)

\* a thread but the reader and the resender leaves their places alone
LEMMA OthersLeavePlaces ==
  ASSUME [Next]_vars, ~AddData
  PROVE  /\ ~ResenderStep /\ ~HangStep => resenderPc' = resenderPc
         /\ ~ReaderStep /\ ~HangStep => readerPc' = readerPc
<1>1. CASE Main
  BY <1>1, MainKeeps DEF readerVars, resenderVars
<1>2. CASE Sender
  BY <1>2
     DEF Sender, SenderLoop, SenderPop, SenderPopNothing, SenderInterrupted,
         SenderCache, SenderGet, SenderSend, SenderThrows, deliveryVars,
         readerVars,
         resenderVars
<1>3. CASE ReaderStep
  BY <1>3
     DEF ReaderStep, Reader, ReaderRead, ReaderClose, ReaderProcess,
         ReaderExit, resenderVars
<1>4. CASE ResenderStep
  BY <1>4
     DEF ResenderStep, Resender, ResenderTimer, ResenderErase, ResenderCopy,
         ResenderSend, ResenderRoundEnd, ResenderThrows, ResenderExit,
         readerVars
<1>5. CASE ServerStep \/ LateCloseStep \/ \E tag \in Tags : AgeStep(tag)
  BY <1>5
     DEF ServerStep, Server, ServerReads, HangUp, Ignore, Acknowledge,
         LateCloseStep, LateClose, AgeStep, Age, readerVars, resenderVars
<1>6. CASE UNCHANGED vars
  BY <1>6 DEF vars, deliveryVars, readerVars, resenderVars
<1>7. QED
  BY <1>1, <1>2, <1>3, <1>4, <1>5, <1>6 DEF Next, Terminated

\* a thread that hangs was running, and no other thread moves meanwhile
LEMMA HangPlaces ==
  ASSUME HangStep
  PROVE  /\ resenderPc' = resenderPc \/ resenderPc = "send"
         /\ readerPc' = readerPc \/ readerPc = "read"
  BY DEF HangStep, SenderHangs, Hangs, ReaderHangs, ResenderHangs, readerVars,
         resenderVars

\* only AddData starts a thread
LEMMA FinishedStays ==
  ASSUME [Next]_vars, ~AddData
  PROVE  /\ SenderFinished => SenderFinished'
         /\ Finished(resenderPc) => Finished(resenderPc)'
         /\ Finished(readerPc) => Finished(readerPc)'
<1>1. SenderFinished => SenderFinished'
  <2>1. CASE Sender
    BY <2>1
       DEF Sender, SenderLoop, SenderPop, SenderPopNothing, SenderInterrupted,
           SenderCache, SenderGet, SenderSend, SenderThrows, SenderFinished,
           SenderDone
  <2>2. CASE ~Sender
    BY <2>2, QueueKeeps DEF SenderFinished, SenderDone
  <2>3. QED
    BY <2>1, <2>2
<1>2. Finished(resenderPc) => Finished(resenderPc)'
  <2>1. CASE ResenderStep
    BY <2>1
       DEF ResenderStep, Resender, ResenderTimer, ResenderErase, ResenderCopy,
           ResenderSend, ResenderRoundEnd, ResenderThrows, ResenderExit,
           Finished
  <2>2. CASE ~ResenderStep
    BY <2>2, OthersLeavePlaces, HangPlaces DEF Finished
  <2>3. QED
    BY <2>1, <2>2
<1>3. Finished(readerPc) => Finished(readerPc)'
  <2>1. CASE ReaderStep
    BY <2>1
       DEF ReaderStep, Reader, ReaderRead, ReaderClose, ReaderProcess,
           ReaderExit, Finished
  <2>2. CASE ~ReaderStep
    BY <2>2, OthersLeavePlaces, HangPlaces DEF Finished
  <2>3. QED
    BY <2>1, <2>2
<1>4. QED
  BY <1>1, <1>2, <1>3

LEMMA JoinedStep == Joined /\ [Next]_vars => Joined'
<1> SUFFICES ASSUME Joined, [Next]_vars PROVE Joined'
  OBVIOUS
<1>1. CASE AddData
  BY <1>1 DEF AddData, Joined
<1>2. CASE Main /\ ~AddData
  <2>1. UNCHANGED <<senderPc, readerPc, resenderPc>>
    BY <1>2, MainKeeps DEF senderVars, readerVars, resenderVars
  <2>2. CASE Join("joinSender", SenderDone \/ senderPc = "none", "joinResender")
    BY <2>1, <2>2 DEF Join, Joined, SenderFinished, SenderDone
  <2>3. CASE Join("joinResender", Finished(resenderPc), "joinReader")
    BY <2>1, <2>3 DEF Join, Joined, SenderFinished, SenderDone, Finished
  <2>4. CASE Join("joinReader", Finished(readerPc), "gone")
    BY <2>1, <2>4 DEF Join, Joined, SenderFinished, SenderDone, Finished
  <2>5. CASE mainPc' \notin {"joinResender", "joinReader", "gone"}
    BY <2>5 DEF Joined
  <2>6. QED
    BY <1>2, <2>2, <2>3, <2>4, <2>5
       DEF Main, WaitUntilAllSend, WaitReturns, Destroy, Destructor,
           DestroyQueue, DestroySender, DestroyResender, DestroyReader
<1>3. CASE ~Main
  <2>1. mainPc' = mainPc /\ ~AddData
    BY <1>3
       DEF Next, Main, Sender, SenderLoop, SenderPop, SenderPopNothing,
           SenderInterrupted, SenderCache, SenderGet, SenderSend,
           SenderThrows, SenderGoes,
           callerVars, loggerVars, vars, Terminated, ReaderStep, ResenderStep,
           ServerStep, LateCloseStep, HangStep, SenderHangs, AgeStep
  <2>2. QED
    BY <2>1, FinishedStays DEF Joined
<1>4. QED
  BY <1>1, <1>2, <1>3

(* When ~BufferedLogger has waited for its three tasks, and the members go  *)
(* that the tasks refer to, BufferedLogger.cc:44-52, none of them runs, and *)
(* none was started again behind the join that waited for it.               *)
THEOREM NoThreadOutlivesLogger ==
  Spec => [](mainPc = "gone" =>
               SenderFinished /\ Finished(resenderPc) /\ Finished(readerPc))
<1>1. Init => Joined
  BY DEF Init, Joined
<1>2. Joined => (mainPc = "gone" =>
                   SenderFinished /\ Finished(resenderPc) /\ Finished(readerPc))
  BY DEF Joined
<1>3. QED
  BY <1>1, <1>2, JoinedStep, PTL DEF Spec
==============================================================================
