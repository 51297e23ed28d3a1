-------------------------- MODULE BufferedLoggerProofs --------------------------
(***************************************************************************)
(* Proofs about BufferedLogger for any tags, queue limit and socket        *)
(* buffer: its types, and below them the safety properties.                *)
(***************************************************************************)
EXTENDS BufferedLogger, DeliveryProofs

(* TypeOK is not inductive: AddData starts the threads, and would break     *)
(* their types if one of them were running already.                         *)
StartedTogether ==
    senderPc = "none" => readerPc = "none" /\ resenderPc = "none"

TypeInv == TypeOK /\ StartedTogether

LEMMA LoggerUnchanged ==
  ASSUME QueueTypeOK, SenderTypeOK, CallerTypeOK, UNCHANGED loggerVars
  PROVE  QueueTypeOK' /\ SenderTypeOK' /\ CallerTypeOK'
  BY DEF QueueTypeOK, SenderTypeOK, CallerTypeOK, loggerVars, queueVars,
         senderVars, callerVars

LEMMA QueueUnchanged ==
  ASSUME QueueTypeOK, UNCHANGED queueVars
  PROVE  QueueTypeOK'
  BY DEF QueueTypeOK, queueVars

LEMMA InitType == Init => TypeOK
<1> SUFFICES ASSUME Init PROVE TypeOK
  OBVIOUS
<1>1. DeliveryTypeOK
  BY DeliveryInitType DEF Init
<1>2. QueueTypeOK
  <2>1. queue = <<>>
    BY DEF Init
  <2>2. queue \in Seq(Tags)
    BY <2>1
  <2>3. BufferLimit > 0 => Len(queue) <= BufferLimit
    BY <2>1, BufferLimitAssumption DEF BufferLimitAssumption
  <2>4. QED
    BY <2>2, <2>3 DEF Init, QueueTypeOK
<1>3. SenderTypeOK /\ CallerTypeOK
  BY DEF Init, SenderTypeOK, CallerTypeOK, SenderStates, MainStates, NoItem
<1>4. QED
  BY <1>1, <1>2, <1>3 DEF TypeOK

(* What AddData does to the queue, at its limit and below it.               *)
LEMMA PushType ==
  ASSUME QueueTypeOK, NEW tag \in Tags,
         queue' = Append(IF QueueFull THEN Tail(queue) ELSE queue, tag)
  PROVE  /\ queue' \in Seq(Tags)
         /\ BufferLimit > 0 => Len(queue') <= BufferLimit
<1>1. queue \in Seq(Tags) /\ Len(queue) \in Nat /\ BufferLimit \in Nat
  BY BufferLimitAssumption DEF QueueTypeOK, BufferLimitAssumption
<1>2. CASE QueueFull
  <2>1. queue # <<>>
    BY <1>1, <1>2 DEF QueueFull
  <2>2. Tail(queue) \in Seq(Tags) /\ Len(Tail(queue)) = Len(queue) - 1
    BY <1>1, <2>1, TailElement
  <2>3. queue' \in Seq(Tags) /\ Len(queue') = Len(Tail(queue)) + 1
    BY <1>2, <2>2, AppendElement
  <2>4. QED
    BY <1>1, <1>2, <2>2, <2>3 DEF QueueFull
<1>3. CASE ~QueueFull
  <2>1. queue' \in Seq(Tags) /\ Len(queue') = Len(queue) + 1
    BY <1>1, <1>3, AppendElement
  <2>2. BufferLimit > 0 => Len(queue) <= BufferLimit
    BY DEF QueueTypeOK
  <2>3. QED
    BY <1>1, <1>3, <2>1, <2>2 DEF QueueFull
<1>4. QED
  BY <1>2, <1>3

LEMMA AddDataType == TypeInv /\ AddData => TypeOK'
<1> SUFFICES ASSUME TypeOK, StartedTogether, AddData PROVE TypeOK'
  BY DEF TypeInv
<1>1. PICK tag \in Tags :
        /\ added' = added \cup {tag}
        /\ queue' = Append(IF QueueFull THEN Tail(queue) ELSE queue, tag)
  BY DEF AddData
<1>2. QueueTypeOK'
  <2>1. overflowed' \subseteq Tags
    <3>1. QueueFull => queue # <<>>
      BY BufferLimitAssumption DEF QueueFull, BufferLimitAssumption
    <3>2. QueueFull => Head(queue) \in Tags
      BY <3>1, TailElement DEF TypeOK, QueueTypeOK
    <3>3. QED
      BY <3>2 DEF AddData, TypeOK, QueueTypeOK
  <2>2. /\ queue' \in Seq(Tags)
        /\ BufferLimit > 0 => Len(queue') <= BufferLimit
    BY <1>1, PushType DEF TypeOK
  <2>3. QED
    BY <2>1, <2>2 DEF AddData, TypeOK, QueueTypeOK
<1>3. CallerTypeOK'
  BY <1>1 DEF AddData, TypeOK, CallerTypeOK
<1>4. SenderTypeOK'
  BY DEF AddData, StartWorkers, TypeOK, SenderTypeOK, SenderStates
<1>5. DeliveryTypeOK'
  <2>1. CASE senderPc = "none"
    <3>1. StartReaderAndResender /\ readerPc = "none" /\ resenderPc = "none"
      BY <2>1 DEF AddData, StartWorkers, StartedTogether
    <3>2. ReaderTypeOK'
      BY <3>1 DEF StartReaderAndResender, TypeOK, DeliveryTypeOK, ReaderTypeOK
    <3>3. ResenderTypeOK'
      BY <3>1 DEF StartReaderAndResender, TypeOK, DeliveryTypeOK, ResenderTypeOK
    <3>4. QED
      BY <3>1, <3>2, <3>3
         DEF StartReaderAndResender, TypeOK, DeliveryTypeOK, CacheTypeOK,
             ConnTypeOK, StopTypeOK, HistoryTypeOK, cacheVars, connVars,
             stopVars, historyVars
  <2>2. CASE senderPc # "none"
    BY <2>2, DeliveryUnchanged DEF TypeOK, AddData, StartWorkers
  <2>3. QED
    BY <2>1, <2>2
<1>6. QED
  BY <1>2, <1>3, <1>4, <1>5 DEF TypeOK

LEMMA MainType == TypeInv /\ Main => TypeOK'
<1> SUFFICES ASSUME TypeInv, Main PROVE TypeOK'
  OBVIOUS
<1> USE DEF TypeInv, TypeOK
<1>1. CASE AddData
  BY <1>1, AddDataType
<1>2. CASE WaitUntilAllSend \/ WaitReturns \/ DestroyQueue \/ DestroySender
  <2>1. DeliveryTypeOK'
    BY <1>2, DeliveryUnchanged
       DEF WaitUntilAllSend, WaitReturns, DestroyQueue, DestroySender
  <2>2. QueueTypeOK' /\ SenderTypeOK'
    BY <1>2
       DEF WaitUntilAllSend, WaitReturns, DestroyQueue, DestroySender,
           StopQueue, queueVars, senderVars, QueueTypeOK, SenderTypeOK
  <2>3. CallerTypeOK'
    <3>1. SenderDone \in BOOLEAN
      BY DEF SenderDone
    <3>2. allSent' \in BOOLEAN
      BY <1>2, <3>1
         DEF WaitUntilAllSend, WaitReturns, DestroyQueue, DestroySender,
             CallerTypeOK
    <3>3. QED
      BY <1>2, <3>2
         DEF WaitUntilAllSend, WaitReturns, DestroyQueue, DestroySender,
             CallerTypeOK, MainStates
  <2>4. QED
    BY <2>1, <2>2, <2>3
<1>3. CASE Destroy \/ DestroyResender \/ DestroyReader
  <2>1. ConnTypeOK'
    BY <1>3, DropConnectionType
       DEF Destroy, StopClient, DestroyResender, DestroyReader, connVars,
           DeliveryTypeOK, ConnTypeOK
  <2>2. StopTypeOK'
    BY <1>3
       DEF Destroy, StopClient, DestroyResender, DestroyReader,
           DeliveryTypeOK, StopTypeOK, CacheTypeOK
  <2>3. CacheTypeOK' /\ HistoryTypeOK'
    BY <1>3
       DEF Destroy, DestroyResender, DestroyReader, cacheVars, historyVars,
           DeliveryTypeOK, CacheTypeOK, HistoryTypeOK
  <2>4. UNCHANGED <<readerVars, resenderVars, senderVars, queueVars>>
    BY <1>3 DEF Destroy, DestroyResender, DestroyReader
  <2>5. DeliveryTypeOK'
    BY <2>1, <2>2, <2>3, <2>4, DeliveryByParts
  <2>6. QueueTypeOK' /\ SenderTypeOK'
    BY <2>4 DEF queueVars, senderVars, QueueTypeOK, SenderTypeOK
  <2>7. CallerTypeOK'
    BY <1>3
       DEF Destroy, DestroyResender, DestroyReader, CallerTypeOK, MainStates
  <2>8. QED
    BY <2>5, <2>6, <2>7
<1>4. ASSUME NEW from, NEW finished, NEW to \in MainStates,
             Join(from, finished, to)
      PROVE  TypeOK'
  <2>1. DeliveryTypeOK'
    BY <1>4, DeliveryUnchanged DEF Join
  <2>2. QueueTypeOK' /\ SenderTypeOK' /\ CallerTypeOK'
    BY <1>4
       DEF Join, queueVars, senderVars, QueueTypeOK, SenderTypeOK,
           CallerTypeOK
  <2>3. QED
    BY <2>1, <2>2
<1>5. QED
  BY <1>1, <1>2, <1>3, <1>4 DEF Main, Destructor, MainStates

LEMMA SenderType == TypeOK /\ Sender => TypeOK'
<1> SUFFICES ASSUME TypeOK, Sender PROVE TypeOK'
  OBVIOUS
<1> USE DEF TypeOK
<1>1. CallerTypeOK'
  BY DEF Sender, SenderLoop, SenderPop, SenderPopNothing, SenderInterrupted,
         SenderCache, SenderGet, SenderSend, SenderThrows, SenderGoes,
         callerVars, CallerTypeOK
<1>2. CASE SenderPop
  <2>1. Head(queue) \in Tags /\ Tail(queue) \in Seq(Tags)
    BY <1>2, TailElement DEF SenderPop, QueueTypeOK
  <2>2. BufferLimit > 0 => Len(queue') <= BufferLimit
    <3>1. Len(queue) \in Nat /\ Len(queue') = Len(queue) - 1
      BY <1>2, TailElement DEF SenderPop, QueueTypeOK
    <3>2. QED
      BY <3>1, BufferLimitAssumption DEF QueueTypeOK, BufferLimitAssumption
  <2>3. QueueTypeOK'
    BY <1>2, <2>1, <2>2 DEF SenderPop, QueueTypeOK
  <2>4. SenderTypeOK'
    BY <1>2, <2>1 DEF SenderPop, SenderGoes, SenderTypeOK, SenderStates
  <2>5. DeliveryTypeOK'
    BY <1>2, DeliveryUnchanged DEF SenderPop
  <2>6. QED
    BY <1>1, <2>3, <2>4, <2>5
<1>3. CASE SenderCache
  <2>1. item \in Tags
    BY <1>3 DEF SenderCache, SenderTypeOK
  <2>2. CacheTypeOK' /\ HistoryTypeOK'
    BY <1>3, <2>1
       DEF SenderCache, AddToCache, historyVars, DeliveryTypeOK, CacheTypeOK,
           HistoryTypeOK
  <2>3. ConnTypeOK' /\ StopTypeOK'
    BY <1>3
       DEF SenderCache, connVars, stopVars, DeliveryTypeOK, ConnTypeOK,
           StopTypeOK
  <2>4. DeliveryTypeOK'
    BY <1>3, <2>2, <2>3, DeliveryByParts DEF SenderCache
  <2>5. QueueTypeOK'
    BY <1>3, QueueUnchanged DEF SenderCache
  <2>6. SenderTypeOK'
    BY <1>3, <2>1 DEF SenderCache, SenderGoes, SenderTypeOK, SenderStates
  <2>7. QED
    BY <1>1, <2>4, <2>5, <2>6
<1>4. CASE SenderSend
  <2>1. item \in Tags
    BY <1>4 DEF SenderSend, SenderTypeOK
  <2>2. ConnTypeOK'
    BY <1>4, <2>1, WrittenType, DropConnectionType
       DEF SenderSend, NotWritten, DeliveryTypeOK
  <2>3. CacheTypeOK' /\ HistoryTypeOK' /\ StopTypeOK'
    BY <1>4
       DEF SenderSend, cacheVars, historyVars, stopVars, DeliveryTypeOK,
           CacheTypeOK, HistoryTypeOK, StopTypeOK
  <2>4. DeliveryTypeOK'
    BY <1>4, <2>2, <2>3, DeliveryByParts DEF SenderSend
  <2>5. QueueTypeOK'
    BY <1>4, QueueUnchanged DEF SenderSend
  <2>6. SenderTypeOK'
    BY <1>4, <2>1 DEF SenderSend, SenderGoes, SenderTypeOK, SenderStates
  <2>7. QED
    BY <1>1, <2>4, <2>5, <2>6
<1>5. CASE \/ SenderLoop \/ SenderPopNothing \/ SenderInterrupted
           \/ SenderGet \/ SenderThrows
  <2>1. DeliveryTypeOK'
    BY <1>5, DeliveryUnchanged
       DEF SenderLoop, SenderPopNothing, SenderInterrupted, SenderGet,
           SenderThrows
  <2>2. QueueTypeOK'
    BY <1>5, QueueUnchanged
       DEF SenderLoop, SenderPopNothing, SenderInterrupted, SenderGet,
           SenderThrows
  <2>3. SenderTypeOK'
    BY <1>5
       DEF SenderLoop, SenderPopNothing, SenderInterrupted, SenderGet,
           SenderThrows, SenderGoes, SenderTypeOK, SenderStates
  <2>4. QED
    BY <1>1, <2>1, <2>2, <2>3
<1>6. QED
  BY <1>2, <1>3, <1>4, <1>5 DEF Sender

LEMMA SenderHangsType == TypeOK /\ SenderHangs => TypeOK'
<1> SUFFICES ASSUME TypeOK, SenderHangs PROVE TypeOK'
  OBVIOUS
<1> USE DEF TypeOK
<1>1. item \in Tags
  BY DEF SenderHangs, SenderTypeOK
<1>2. DeliveryTypeOK'
  <2>1. ConnTypeOK'
    BY NeverReturnsType DEF SenderHangs, DeliveryTypeOK
  <2>2. CacheTypeOK' /\ HistoryTypeOK' /\ StopTypeOK'
    BY DEF SenderHangs, cacheVars, historyVars, stopVars, DeliveryTypeOK,
           CacheTypeOK, HistoryTypeOK, StopTypeOK
  <2>3. QED
    BY <2>1, <2>2, DeliveryByParts DEF SenderHangs
<1>3. QueueTypeOK'
  BY QueueUnchanged DEF SenderHangs
<1>4. SenderTypeOK' /\ CallerTypeOK'
  BY <1>1
     DEF SenderHangs, SenderGoes, SenderTypeOK, SenderStates, callerVars,
         CallerTypeOK
<1>5. QED
  BY <1>2, <1>3, <1>4

LEMMA OthersType ==
  ASSUME TypeOK,
         \/ ReaderStep \/ ResenderStep \/ ServerStep \/ LateCloseStep
         \/ (Hangs /\ UNCHANGED loggerVars)
         \/ \E tag \in Tags : AgeStep(tag)
  PROVE  TypeOK'
<1>1. QueueTypeOK' /\ SenderTypeOK' /\ CallerTypeOK'
  BY LoggerUnchanged
     DEF TypeOK, ReaderStep, ResenderStep, ServerStep, LateCloseStep, AgeStep
<1>2. DeliveryTypeOK'
  BY ReaderType, ResenderType, HangsType, EnvironmentType
     DEF TypeOK, ReaderStep, ResenderStep, ServerStep, LateCloseStep, AgeStep
<1>3. QED
  BY <1>1, <1>2 DEF TypeOK

LEMMA StartedTogetherStep ==
  ASSUME TypeOK, StartedTogether, [Next]_vars
  PROVE  StartedTogether'
<1> USE DEF StartedTogether
<1>1. CASE Main
  <2>1. CASE AddData
    BY <2>1 DEF AddData, StartWorkers, deliveryVars, readerVars, resenderVars
  <2>2. CASE ~AddData
    BY <1>1, <2>2
       DEF Main, WaitUntilAllSend, WaitReturns, Destroy, Destructor,
           DestroyQueue, DestroySender, DestroyResender, DestroyReader, Join,
           deliveryVars, readerVars, resenderVars, senderVars
  <2>3. QED
    BY <2>1, <2>2
<1>2. CASE Sender
  BY <1>2
     DEF Sender, SenderLoop, SenderPop, SenderPopNothing, SenderInterrupted,
         SenderCache, SenderGet, SenderSend, SenderThrows, SenderGoes
<1>3. CASE ReaderStep
  BY <1>3
     DEF ReaderStep, Reader, ReaderRead, ReaderClose, ReaderProcess,
         ReaderExit, loggerVars, senderVars, readerVars, resenderVars
<1>4. CASE ResenderStep
  BY <1>4
     DEF ResenderStep, Resender, ResenderTimer, ResenderErase, ResenderCopy,
         ResenderSend, ResenderRoundEnd, ResenderThrows, ResenderExit, loggerVars,
         senderVars, readerVars
<1>5. CASE ServerStep \/ LateCloseStep \/ \E tag \in Tags : AgeStep(tag)
  BY <1>5
     DEF ServerStep, Server, ServerReads, HangUp, Ignore, Acknowledge,
         LateCloseStep, LateClose, AgeStep, Age, loggerVars, senderVars,
         readerVars, resenderVars
<1>6. CASE HangStep
  BY <1>6
     DEF HangStep, SenderHangs, SenderGoes, Hangs, ReaderHangs, ResenderHangs,
         loggerVars, senderVars, readerVars, resenderVars
<1>7. CASE UNCHANGED vars
  BY <1>7
     DEF vars, deliveryVars, loggerVars, senderVars, readerVars, resenderVars
<1>8. QED
  BY <1>1, <1>2, <1>3, <1>4, <1>5, <1>6, <1>7 DEF Next, Terminated

LEMMA TypeStep == TypeInv /\ [Next]_vars => TypeInv'
<1> SUFFICES ASSUME TypeInv, [Next]_vars PROVE TypeInv'
  OBVIOUS
<1>1. UNCHANGED vars => TypeOK'
  <2>1. SUFFICES ASSUME UNCHANGED vars PROVE TypeOK'
    OBVIOUS
  <2>2. UNCHANGED deliveryVars /\ UNCHANGED loggerVars
    BY <2>1 DEF vars
  <2>3. DeliveryTypeOK'
    BY <2>2, DeliveryUnchanged DEF TypeInv, TypeOK
  <2>4. QueueTypeOK' /\ SenderTypeOK' /\ CallerTypeOK'
    BY <2>2, LoggerUnchanged DEF TypeInv, TypeOK
  <2>5. QED
    BY <2>3, <2>4 DEF TypeOK
<1>2. TypeOK'
  BY <1>1, MainType, SenderType, SenderHangsType, OthersType
     DEF TypeInv, Next, HangStep, Terminated
<1>3. QED
  BY <1>2, StartedTogetherStep DEF TypeInv

(* Every variable keeps its type, the queue its limit, and every thread's   *)
(* local data is there exactly where its code uses it, for any tags, limit  *)
(* and socket buffer: BufferedLogger.cc, DataSender.cc, DataReader.cc and   *)
(* DataResender.cc.                                                         *)
THEOREM TypeCorrect == Spec => []TypeOK
<1>1. Init => TypeInv
  BY InitType DEF TypeInv, StartedTogether, Init, DeliveryInit
<1>2. TypeInv => TypeOK
  BY DEF TypeInv
<1>3. QED
  BY <1>1, <1>2, TypeStep, PTL DEF Spec
==============================================================================
