--------------------------- MODULE OutputMdsdProofs ---------------------------
(***************************************************************************)
(* Proofs about the plugin, for any number of flush threads, any chunks    *)
(* and any records: it uses the logger as SocketLogger allows, so that     *)
(* what is proved of the logger holds here, and what it makes of the       *)
(* logger's answers.                                                       *)
(***************************************************************************)
EXTENDS OutputMdsd, SocketLoggerProofs

------------------------------------------------------------------------------
(* The plugin's steps are the logger's. *)

LEMMA PluginStepIsLoggerStep == [PluginNext]_pluginVars => [Next]_vars
<1> SUFFICES ASSUME [PluginNext]_pluginVars PROVE [Next]_vars
  OBVIOUS
<1>1. ASSUME NEW c \in Callers, WriteStep(c)
      PROVE  [Next]_vars
  BY <1>1
     DEF WriteStep, StartWrite, RaiseMalformed, DropTooLarge,
         RefuseSourceless, CallSendDjson, InSendDjson, HangInSendDjson,
         FinishWrite, Next
<1>2. CASE LoggerStep
  BY <1>2 DEF LoggerStep, Shutdown, Next
<1>3. CASE UNCHANGED pluginVars
  BY <1>3 DEF pluginVars
<1>4. QED
  BY <1>1, <1>2, <1>3 DEF PluginNext

(* Whatever the flush threads do with the logger (out_mdsd.rb:82-111) is     *)
(* something SocketLogger's callers may do, so AcceptedIsKept and the other *)
(* theorems of SocketLoggerProofs hold of the plugin.                       *)
THEOREM PluginIsCaller == PluginSpec => Spec
<1>1. PluginInit => Init
  BY DEF PluginInit
<1>2. QED
  BY <1>1, PluginStepIsLoggerStep, PTL DEF PluginSpec, Spec

------------------------------------------------------------------------------
(* What the steps of a thread do to the plugin. *)

LEMMA RecordFacts ==
  ASSUME NEW k \in Chunks
  PROVE  /\ Len(RecordsOf[k]) \in Nat
         /\ DOMAIN RecordsOf[k] = 1..Len(RecordsOf[k])
  BY RecordsAssumption DEF RecordsAssumption

LEMMA NoItemIsNoTag == NoItem \notin Tags
  BY TagsAssumption DEF TagsAssumption, NoItem

(* A new item has a tag of its own, higher than all before.                 *)
LEMMA NewItem ==
  ASSUME NEW c \in Callers, CallSendDjson(c)
  PROVE  \E tag \in Tags :
           /\ tag > counter
           /\ counter' = tag
           /\ item' = [item EXCEPT ![c] = tag]
           /\ carries' = [carries EXCEPT ![tag] = <<chunkOf[c], at[c]>>]
           /\ UNCHANGED <<accepted, refused, chunkVars>>
  BY DEF CallSendDjson, SendDjson, CallStarts

(* SendData goes on, or ends with an answer that handle_record handles.     *)
LEMMA AnswerCases ==
  ASSUME TypeInv, NEW c \in Callers, InSendDjson(c)
  PROVE  /\ item[c] \in Tags
         /\ UNCHANGED <<counter, carries>>
         /\ \/ UNCHANGED <<item, accepted, refused, chunkVars>>
            \/ /\ item' = [item EXCEPT ![c] = NoItem]
               /\ accepted' = accepted \cup {item[c]}
               /\ refused' = refused
               /\ NextRecord(c)
            \/ /\ item' = [item EXCEPT ![c] = NoItem]
               /\ refused' = refused \cup {item[c]}
               /\ accepted' = accepted
               /\ Raise(c)
<1>1. SendData(c) /\ HandleAnswer(c) /\ UNCHANGED <<counter, carries>>
  BY DEF InSendDjson, SendData
<1>2. \/ \E from \in CallerStates \ {"idle"}, to \in CallerStates :
           CallerGoes(c, from, to)
      \/ \E from \in CallerStates \ {"idle"}, ok \in BOOLEAN :
           Returns(c, from, ok)
  BY <1>1 DEF SendData, CacheItem, GetItem, GetItemAgain, SendItem, EraseItem,
              CallerStates
<1>3. item[c] \in Tags
  BY <1>2 DEF CallerGoes, Returns, TypeInv, TypeOK, LoggerTypeOK
<1>4. item[c] \notin accepted \cup refused
  BY DEF TypeInv, Numbered
<1>5. CASE \E from \in CallerStates \ {"idle"}, to \in CallerStates :
             CallerGoes(c, from, to)
  <2>1. UNCHANGED <<item, accepted, refused>>
    BY <1>5 DEF CallerGoes
  <2>2. QED
    BY <1>1, <1>3, <1>4, <2>1 DEF HandleAnswer
<1>6. CASE \E from \in CallerStates \ {"idle"}, ok \in BOOLEAN :
             Returns(c, from, ok)
  <2>1. /\ item' = [item EXCEPT ![c] = NoItem]
        /\ \/ accepted' = accepted \cup {item[c]} /\ refused' = refused
           \/ refused' = refused \cup {item[c]} /\ accepted' = accepted
    BY <1>6 DEF Returns
  <2>2. item'[c] = NoItem
    BY <2>1 DEF TypeInv, TypeOK, LoggerTypeOK
  <2>3. CASE accepted' = accepted \cup {item[c]} /\ refused' = refused
    BY <1>1, <1>3, <1>4, <2>1, <2>2, <2>3 DEF HandleAnswer
  <2>4. CASE refused' = refused \cup {item[c]} /\ accepted' = accepted
    BY <1>1, <1>3, <1>4, <2>1, <2>2, <2>4 DEF HandleAnswer
  <2>5. QED
    BY <2>1, <2>3, <2>4
<1>7. QED
  BY <1>2, <1>5, <1>6

(* The other threads and the destructor leave all of this alone.            *)
Quiet == UNCHANGED <<item, accepted, refused, counter, chunkVars, carries>>

LEMMA OtherSteps ==
  ASSUME LoggerStep \/ UNCHANGED pluginVars
  PROVE  Quiet
<1>1. CASE LoggerStep
  BY <1>1
     DEF LoggerStep, Shutdown, Destroy, Destructor, DestroyResender,
         DestroyReader, Join, LoggerGoes, ReaderStep, ResenderStep, ServerStep,
         LateCloseStep, HangStep, AgeStep, Terminated, vars, loggerVars,
         callerVars, Quiet
<1>2. CASE UNCHANGED pluginVars
  BY <1>2 DEF pluginVars, vars, loggerVars, callerVars, Quiet
<1>3. QED
  BY <1>1, <1>2

(* A thread whose SendDjson never returns leaves it alone, too.             *)
LEMMA HangIsQuiet ==
  ASSUME NEW c \in Callers, HangInSendDjson(c)
  PROVE  Quiet
  BY SendItemHangsKeeps DEF HangInSendDjson, Quiet

------------------------------------------------------------------------------
(* Types. *)

LEMMA PluginTypeInit == PluginInit => PluginTypeOK
  BY DEF PluginInit, Init, PluginTypeOK, NoPlace, Places, Writing, NoItem

LEMMA PluginTypeStep ==
  ASSUME TypeInv, PluginTypeOK, [PluginNext]_pluginVars
  PROVE  PluginTypeOK'
<1> USE DEF PluginTypeOK, Writing, chunkVars
<1>1. ASSUME NEW c \in Callers, StartWrite(c)
      PROVE  PluginTypeOK'
  <2>1. UNCHANGED <<item, carries, written>>
    BY <1>1 DEF StartWrite, vars, loggerVars, callerVars
  <2>2. item[c] = NoItem
    BY <1>1 DEF StartWrite, AtRecord
  <2>3. PICK k \in queued : /\ chunkOf' = [chunkOf EXCEPT ![c] = k]
                            /\ queued' = queued \ {k}
                            /\ at' = [at EXCEPT ![c] = 1]
    BY <1>1 DEF StartWrite
  <2>4. QED
    BY <2>1, <2>2, <2>3, RecordsAssumption DEF AtRecord, RecordsAssumption
<1>2. ASSUME NEW c \in Callers, DropTooLarge(c)
      PROVE  PluginTypeOK'
  <2>1. UNCHANGED <<item, carries, chunkOf, queued, written>> /\ item[c] = NoItem
    BY <1>2 DEF DropTooLarge, NextRecord, vars, loggerVars, callerVars
  <2>2. at' = [at EXCEPT ![c] = @ + 1]
    BY <1>2 DEF DropTooLarge, NextRecord
  <2>3. QED
    BY <2>1, <2>2 DEF AtRecord
<1>3. ASSUME NEW c \in Callers, RaiseMalformed(c) \/ RefuseSourceless(c)
      PROVE  PluginTypeOK'
  <2>1. UNCHANGED <<item, carries, at, written>> /\ item[c] = NoItem /\ Writing(c)
    BY <1>3
       DEF RaiseMalformed, RefuseSourceless, AtRecord, Raise, vars, loggerVars,
           callerVars
  <2>2. /\ chunkOf' = [chunkOf EXCEPT ![c] = NoChunk]
        /\ queued' = queued \cup {chunkOf[c]}
    BY <1>3 DEF RaiseMalformed, RefuseSourceless, Raise
  <2>3. QED
    BY <2>1, <2>2 DEF AtRecord
<1>4. ASSUME NEW c \in Callers, CallSendDjson(c)
      PROVE  PluginTypeOK'
  <2>1. PICK tag \in Tags :
           /\ tag > counter
           /\ item' = [item EXCEPT ![c] = tag]
           /\ carries' = [carries EXCEPT ![tag] = <<chunkOf[c], at[c]>>]
           /\ UNCHANGED chunkVars
    BY <1>4, NewItem
  <2>2. AtRecord(c)
    BY <1>4 DEF CallSendDjson
  <2>3. \A d \in Callers : item[d] # tag
    BY <2>1, NumbersOrdered DEF TypeInv, TypeOK, Numbered
  <2>4. carries' \in [Tags -> Places]
    BY <2>1, <2>2 DEF Places
  <2>5. ASSUME NEW d \in Callers, item'[d] # NoItem
        PROVE  AtRecord(d)' /\ carries'[item'[d]] = <<chunkOf'[d], at'[d]>>
    <3>1. CASE d = c
      BY <2>1, <2>2, <3>1 DEF AtRecord, TypeInv, TypeOK, LoggerTypeOK
    <3>2. CASE d # c
      <4>1. item'[d] = item[d] /\ item[d] \in Tags
        BY <2>1, <2>5, <3>2 DEF TypeInv, TypeOK, LoggerTypeOK
      <4>2. carries'[item[d]] = carries[item[d]]
        BY <2>1, <2>3, <4>1
      <4>3. QED
        BY <2>1, <2>5, <4>1, <4>2 DEF AtRecord
    <3>3. QED
      BY <3>1, <3>2
  <2>6. QED
    BY <2>1, <2>4, <2>5
<1>5. ASSUME NEW c \in Callers, InSendDjson(c)
      PROVE  PluginTypeOK'
  <2>1. item[c] \in Tags /\ UNCHANGED carries /\ item[c] # NoItem
    BY <1>5, AnswerCases, NoItemIsNoTag
  <2>2. CASE UNCHANGED <<item, accepted, refused, chunkVars>>
    BY <2>1, <2>2 DEF AtRecord
  <2>3. CASE item' = [item EXCEPT ![c] = NoItem] /\ NextRecord(c)
    BY <2>1, <2>3 DEF AtRecord, NextRecord, TypeInv, TypeOK, LoggerTypeOK
  <2>4. CASE item' = [item EXCEPT ![c] = NoItem] /\ Raise(c)
    BY <2>1, <2>4 DEF AtRecord, Raise, TypeInv, TypeOK, LoggerTypeOK
  <2>5. QED
    BY <1>5, AnswerCases, <2>2, <2>3, <2>4
<1>6. ASSUME NEW c \in Callers, FinishWrite(c)
      PROVE  PluginTypeOK'
  <2>1. /\ UNCHANGED <<item, carries, at, queued>>
        /\ item[c] = NoItem /\ Writing(c)
        /\ chunkOf' = [chunkOf EXCEPT ![c] = NoChunk]
        /\ written' = written \cup {chunkOf[c]}
    BY <1>6 DEF FinishWrite, vars, loggerVars, callerVars
  <2>2. QED
    BY <2>1 DEF AtRecord
<1>7. CASE LoggerStep \/ UNCHANGED pluginVars
  BY <1>7, OtherSteps DEF Quiet, AtRecord
<1>8. ASSUME NEW c \in Callers, HangInSendDjson(c)
      PROVE  PluginTypeOK'
  BY <1>8, HangIsQuiet DEF Quiet, AtRecord
<1>9. QED
  BY <1>1, <1>2, <1>3, <1>4, <1>5, <1>6, <1>7, <1>8 DEF PluginNext, WriteStep

(* For any threads and chunks: a chunk is queued, written, or in the hands  *)
(* of one thread, and an item in SendDjson is of the record its thread is   *)
(* at (out_mdsd.rb:82-111).                                                 *)
THEOREM PluginTypeCorrect == PluginSpec => []PluginTypeOK
<1>1. TypeInv /\ PluginTypeOK /\ [PluginNext]_pluginVars => (TypeInv /\ PluginTypeOK)'
  BY PluginStepIsLoggerStep, TypeStep, PluginTypeStep
<1>2. PluginInit => TypeInv /\ PluginTypeOK
  BY InitType, PluginTypeInit DEF PluginInit
<1>3. QED
  BY <1>1, <1>2, PTL DEF PluginSpec

------------------------------------------------------------------------------
(* What was handled. *)

(* The places of the records that were accepted.                            *)
Got == {carries[tag] : tag \in accepted}

(* The records of k before place n are too large or in got.                 *)
Handled(got, k, n) ==
    \A i \in DOMAIN RecordsOf[k] :
        i < n /\ RecordsOf[k][i] \notin TooLarge => <<k, i>> \in got

(* A thread has handled what is before its place; what is written was       *)
(* handled to its end; and no item is newer than the counter.               *)
Progress ==
    /\ \A c \in Callers : Writing(c) => Handled(Got, chunkOf[c], at[c])
    /\ \A k \in written : Handled(Got, k, Len(RecordsOf[k]) + 1)
    /\ \A tag \in Made : tag <= counter

Inv == IInv /\ PluginTypeOK /\ Progress

LEMMA InvNumbers ==
  ASSUME Inv
  PROVE  /\ counter \in Nat
         /\ \A tag \in Tags : tag \in Nat \ {0}
         /\ \A tag \in accepted \cup refused : tag \in Tags /\ tag <= counter
  BY NumbersOrdered DEF Inv, IInv, TypeInv, TypeOK, LoggerTypeOK, Numbered

(* All steps but CallSendDjson leave the items as they are.                 *)
LEMMA OldItems ==
  ASSUME Inv, [PluginNext]_pluginVars, \A c \in Callers : ~CallSendDjson(c)
  PROVE  /\ UNCHANGED <<counter, carries>>
         /\ accepted \subseteq accepted' /\ refused \subseteq refused'
<1>1. ASSUME NEW c \in Callers, InSendDjson(c)
      PROVE  /\ UNCHANGED <<counter, carries>>
             /\ accepted \subseteq accepted' /\ refused \subseteq refused'
  BY <1>1, AnswerCases DEF Inv, IInv
<1>2. ASSUME NEW c \in Callers,
             \/ StartWrite(c) \/ RaiseMalformed(c) \/ DropTooLarge(c)
             \/ RefuseSourceless(c) \/ FinishWrite(c)
      PROVE  UNCHANGED <<accepted, refused, counter, carries>>
  BY <1>2
     DEF StartWrite, RaiseMalformed, DropTooLarge, RefuseSourceless,
         FinishWrite, vars, loggerVars, callerVars
<1>3. CASE LoggerStep \/ UNCHANGED pluginVars
  BY <1>3, OtherSteps DEF Quiet
<1>4. ASSUME NEW c \in Callers, HangInSendDjson(c)
      PROVE  UNCHANGED <<accepted, refused, counter, carries>>
  BY <1>4, HangIsQuiet DEF Quiet
<1>5. QED
  BY <1>1, <1>2, <1>3, <1>4 DEF PluginNext, WriteStep

(* Items once made keep their records, and answers are not taken back.      *)
LEMMA ItemsStay ==
  ASSUME Inv, [PluginNext]_pluginVars
  PROVE  /\ accepted \subseteq accepted' /\ refused \subseteq refused'
         /\ \A tag \in Tags : tag <= counter => carries'[tag] = carries[tag]
<1>1. ASSUME NEW c \in Callers, CallSendDjson(c)
      PROVE  /\ UNCHANGED <<accepted, refused>>
             /\ \A tag \in Tags : tag <= counter => carries'[tag] = carries[tag]
  BY <1>1, NewItem, InvNumbers DEF Inv, PluginTypeOK
<1>2. QED
  BY <1>1, OldItems

LEMMA GotStays ==
  ASSUME Inv, [PluginNext]_pluginVars
  PROVE  Got \subseteq Got'
  BY ItemsStay, InvNumbers DEF Got

LEMMA HandledMore ==
  ASSUME NEW got, NEW more, got \subseteq more, NEW k, NEW n, Handled(got, k, n)
  PROVE  Handled(more, k, n)
  BY DEF Handled

LEMMA HandledNext ==
  ASSUME NEW got, NEW k \in Chunks, NEW n \in Nat \ {0}, Handled(got, k, n),
         RecordsOf[k][n] \in TooLarge \/ <<k, n>> \in got
  PROVE  Handled(got, k, n + 1)
  BY RecordFacts DEF Handled

LEMMA MadeStep ==
  ASSUME Inv, [PluginNext]_pluginVars
  PROVE  \A tag \in Made' : tag <= counter'
<1>1. ASSUME NEW c \in Callers, CallSendDjson(c), NEW tag \in Made'
      PROVE  tag <= counter'
  <2>1. PICK new \in Tags :
           /\ new > counter /\ counter' = new
           /\ carries' = [carries EXCEPT ![new] = <<chunkOf[c], at[c]>>]
    BY <1>1, NewItem
  <2>2. tag = new \/ tag \in Made
    BY <1>1, <2>1 DEF Made, Inv, PluginTypeOK
  <2>3. tag \in Tags /\ (tag \in Made => tag <= counter)
    BY <1>1 DEF Made, Inv, Progress
  <2>4. QED
    BY <2>1, <2>2, <2>3, InvNumbers
<1>2. CASE \A c \in Callers : ~CallSendDjson(c)
  BY <1>2, OldItems DEF Made, Inv, Progress
<1>3. QED
  BY <1>1, <1>2

LEMMA ProgressStep ==
  ASSUME Inv, [PluginNext]_pluginVars
  PROVE  Progress'
<1> USE DEF Inv
<1> DEFINE ThreadsGo ==
             \A d \in Callers : Writing(d)' => Handled(Got', chunkOf'[d], at'[d])
           WrittenGo == \A k \in written' : Handled(Got', k, Len(RecordsOf[k]) + 1)
<1>0. /\ \A d \in Callers : Writing(d) => Handled(Got', chunkOf[d], at[d])
      /\ \A k \in written : Handled(Got', k, Len(RecordsOf[k]) + 1)
  BY GotStays, HandledMore DEF Progress
<1>1. ASSUME NEW c \in Callers, StartWrite(c)
      PROVE  ThreadsGo /\ WrittenGo
  <2>1. PICK k \in queued : /\ chunkOf' = [chunkOf EXCEPT ![c] = k]
                            /\ at' = [at EXCEPT ![c] = 1]
                            /\ written' = written
    BY <1>1 DEF StartWrite
  <2>2. k \in Chunks
    BY DEF PluginTypeOK
  <2>3. Handled(Got', k, 1)
    BY <2>2, RecordFacts DEF Handled
  <2>4. QED
    BY <1>0, <2>1, <2>3 DEF Writing, PluginTypeOK
<1>2. ASSUME NEW c \in Callers, NextRecord(c), Writing(c),
             \/ RecordOf(c) \in TooLarge
             \/ <<chunkOf[c], at[c]>> \in Got'
      PROVE  ThreadsGo /\ WrittenGo
  <2>1. at' = [at EXCEPT ![c] = at[c] + 1] /\ UNCHANGED <<chunkOf, written>>
    BY <1>2 DEF NextRecord
  <2>2. chunkOf[c] \in Chunks /\ at[c] \in Nat \ {0}
    BY <1>2 DEF PluginTypeOK, Writing
  <2>3. Handled(Got', chunkOf[c], at[c] + 1)
    BY <1>0, <1>2, <2>2, HandledNext DEF RecordOf
  <2>4. QED
    BY <1>0, <2>1, <2>3 DEF Writing, PluginTypeOK
<1>3. ASSUME NEW c \in Callers, Raise(c)
      PROVE  ThreadsGo /\ WrittenGo
  BY <1>0, <1>3 DEF Raise, Writing, PluginTypeOK
<1>4. ASSUME UNCHANGED chunkVars
      PROVE  ThreadsGo /\ WrittenGo
  <2>1. UNCHANGED <<chunkOf, at, written>>
    BY <1>4 DEF chunkVars
  <2>2. QED
    BY <1>0, <2>1 DEF Writing
<1>5. ASSUME NEW c \in Callers, DropTooLarge(c)
      PROVE  ThreadsGo /\ WrittenGo
  BY <1>2, <1>5 DEF DropTooLarge, AtRecord
<1>6. ASSUME NEW c \in Callers, InSendDjson(c)
      PROVE  ThreadsGo /\ WrittenGo
  <2>1. item[c] \in Tags /\ item[c] # NoItem /\ UNCHANGED carries
    BY <1>6, AnswerCases, NoItemIsNoTag DEF IInv
  <2>2. Writing(c) /\ carries[item[c]] = <<chunkOf[c], at[c]>>
    BY <2>1 DEF PluginTypeOK, AtRecord
  <2>3. CASE accepted' = accepted \cup {item[c]} /\ NextRecord(c)
    <3>1. <<chunkOf[c], at[c]>> \in Got'
      BY <2>1, <2>2, <2>3 DEF Got
    <3>2. QED
      BY <1>2, <2>2, <2>3, <3>1
  <2>4. CASE UNCHANGED <<item, accepted, refused, chunkVars>>
    BY <1>4, <2>4
  <2>5. CASE Raise(c)
    BY <1>3, <2>5
  <2>6. QED
    <3>1. TypeInv
      BY DEF IInv
    <3>2. QED
      BY <1>6, <2>3, <2>4, <2>5, <3>1, AnswerCases
<1>7. ASSUME NEW c \in Callers, FinishWrite(c)
      PROVE  ThreadsGo /\ WrittenGo
  <2>1. /\ chunkOf' = [chunkOf EXCEPT ![c] = NoChunk]
        /\ UNCHANGED at /\ written' = written \cup {chunkOf[c]}
        /\ Writing(c) /\ ~(at[c] <= Len(RecordsOf[chunkOf[c]]))
    BY <1>7 DEF FinishWrite, AtRecord
  <2>2. /\ Handled(Got', chunkOf[c], at[c])
        /\ chunkOf[c] \in Chunks /\ at[c] \in Nat
    BY <1>0, <2>1 DEF PluginTypeOK, Writing
  <2>3. Handled(Got', chunkOf[c], Len(RecordsOf[chunkOf[c]]) + 1)
    BY <2>1, <2>2, RecordFacts DEF Handled
  <2>4. QED
    BY <1>0, <2>1, <2>3 DEF Writing, PluginTypeOK
<1>8. ThreadsGo /\ WrittenGo
  BY <1>1, <1>3, <1>4, <1>5, <1>6, <1>7, OtherSteps, HangIsQuiet
     DEF PluginNext, WriteStep, RaiseMalformed, RefuseSourceless,
         CallSendDjson, Quiet
<1>9. \A tag \in Made' : tag <= counter'
  BY MadeStep
<1>10. /\ \A d \in Callers : Writing(d)' => Handled(Got, chunkOf[d], at[d])'
       /\ \A k \in written' : Handled(Got, k, Len(RecordsOf[k]) + 1)'
  BY <1>8 DEF Handled
<1>11. QED
  BY <1>9, <1>10 DEF Progress

LEMMA InvInit == PluginInit => Inv
<1> SUFFICES ASSUME PluginInit PROVE Inv
  OBVIOUS
<1>1. IInv /\ PluginTypeOK
  BY IInvInit, PluginTypeInit DEF PluginInit
<1>2. Progress
  BY DEF PluginInit, Progress, Writing, Made
<1>3. QED
  BY <1>1, <1>2 DEF Inv

LEMMA InvStep == Inv /\ [PluginNext]_pluginVars => Inv'
  BY PluginStepIsLoggerStep, IInvStep, PluginTypeStep, ProgressStep
     DEF Inv, IInv

LEMMA InvHolds == PluginSpec => []Inv
  BY InvInit, InvStep, PTL DEF PluginSpec

(* Of a chunk that is gone from fluentd's buffer, each record that is not   *)
(* too large was accepted, and is kept by the logger until it is            *)
(* acknowledged or too old: out_mdsd.rb:106-109.                            *)
THEOREM WrittenIsKeptHolds == PluginSpec => []WrittenIsKept
<1>1. Inv => WrittenIsKept
  <2> SUFFICES ASSUME Inv, NEW k \in written, NEW i \in DOMAIN RecordsOf[k],
                      RecordsOf[k][i] \notin TooLarge
               PROVE  \E tag \in accepted :
                         /\ carries[tag] = <<k, i>>
                         /\ useCache => tag \in dataCache \cup acked \cup expired
                                                  \cup misread
    BY DEF WrittenIsKept
  <2>1. k \in Chunks
    BY DEF Inv, PluginTypeOK
  <2>2. i < Len(RecordsOf[k]) + 1
    BY <2>1, RecordFacts
  <2>3. PICK tag \in accepted : carries[tag] = <<k, i>>
    BY <2>2 DEF Inv, Progress, Handled, Got
  <2>4. AcceptedIsKept
    BY DEF Inv, IInv, Answers, Added, Retained, TypeInv, TypeOK, LoggerTypeOK,
           AcceptedIsKept
  <2>5. QED
    BY <2>3, <2>4 DEF AcceptedIsKept
<1>2. QED
  BY <1>1, InvHolds, PTL

(* What a chunk that is gone from fluentd's buffer promises as long as no   *)
(* connection fails in the middle of an acknowledgement's line: each of its *)
(* records that is not too large is in the cache, was acknowledged by mdsd  *)
(* itself, or got too old.                                                  *)
WrittenIsKeptForMdsd ==
    \A k \in written : \A i \in DOMAIN RecordsOf[k] :
        RecordsOf[k][i] \notin TooLarge =>
            \E tag \in accepted :
                /\ carries[tag] = <<k, i>>
                /\ useCache => tag \in dataCache \cup acked \cup expired

(* The cause of the plugin's silent losses, from end to end: fluentd        *)
(* purges a chunk (out_mdsd.rb:106-109) some record of which mdsd never     *)
(* got, and which is not in the cache either, only after a connection was   *)
(* lost with part of an acknowledgement read (DataReader.cc:92-99).         *)
THEOREM WrittenUnlessCutOff ==
  PluginSpec /\ [][~CutOff]_vars => []WrittenIsKeptForMdsd
<1>1. Inv /\ KeptForItsCaller => WrittenIsKeptForMdsd
  <2> SUFFICES ASSUME Inv, KeptForItsCaller, NEW k \in written,
                      NEW i \in DOMAIN RecordsOf[k], RecordsOf[k][i] \notin TooLarge
               PROVE  \E tag \in accepted :
                         /\ carries[tag] = <<k, i>>
                         /\ useCache => tag \in dataCache \cup acked \cup expired
    BY DEF WrittenIsKeptForMdsd
  <2>1. k \in Chunks
    BY DEF Inv, PluginTypeOK
  <2>2. i < Len(RecordsOf[k]) + 1
    BY <2>1, RecordFacts
  <2>3. PICK tag \in accepted : carries[tag] = <<k, i>>
    BY <2>2 DEF Inv, Progress, Handled, Got
  <2>4. QED
    BY <2>3 DEF KeptForItsCaller
<1>2. PluginSpec /\ [][~CutOff]_vars => []KeptForItsCaller
  BY PluginIsCaller, KeptUnlessCutOff
<1>3. QED
  BY <1>1, <1>2, InvHolds, PTL

(* The promise of a delivery holds with the plugin's threads as callers: a  *)
(* record that SendDjson accepted leaves the logger only because mdsd       *)
(* acknowledged it, it got too old, or an acknowledgement was misread.      *)
THEOREM PluginKeepsItsPromise == PluginSpec => KeepsItsPromise
  BY PluginIsCaller, KeepsItsPromiseHolds

------------------------------------------------------------------------------
(* The order of a chunk's records. *)

LEMMA MadeFacts ==
  ASSUME Inv
  PROVE  /\ counter \in Nat
         /\ \A tag \in Made : /\ tag \in Tags /\ tag \in Nat \ {0}
                              /\ tag <= counter
         /\ \A tag \in accepted \cup refused : /\ tag \in Tags /\ tag \in Nat \ {0}
                                               /\ tag <= counter
<1>1. \A tag \in Made : tag \in Tags /\ tag <= counter
  BY DEF Inv, Progress, Made
<1>2. QED
  BY <1>1, InvNumbers

(* What the new item is and how the items are after it.                     *)
LEMMA NewestItem ==
  ASSUME Inv, NEW c \in Callers, CallSendDjson(c)
  PROVE  \E new \in Tags :
           /\ new \in Nat /\ new > counter
           /\ item' = [item EXCEPT ![c] = new]
           /\ carries'[new] = <<chunkOf[c], at[c]>>
           /\ \A tag \in Made : tag # new /\ carries'[tag] = carries[tag]
           /\ \A tag \in accepted \cup refused :
                tag # new /\ carries'[tag] = carries[tag]
           /\ Made' = Made \cup {new}
           /\ UNCHANGED <<accepted, refused, chunkOf, at, queued, written>>
<1>1. PICK new \in Tags :
        /\ new > counter
        /\ item' = [item EXCEPT ![c] = new]
        /\ carries' = [carries EXCEPT ![new] = <<chunkOf[c], at[c]>>]
        /\ UNCHANGED <<accepted, refused, chunkVars>>
  BY NewItem
<1>2. /\ carries \in [Tags -> Places] /\ new \in Nat
      /\ <<chunkOf[c], at[c]>> # NoPlace
  BY TagsAssumption
     DEF Inv, PluginTypeOK, NoPlace, TagsAssumption
<1>3. \A tag \in Made \cup accepted \cup refused :
        tag \in Tags /\ tag # new /\ carries'[tag] = carries[tag]
  BY <1>1, <1>2, MadeFacts
<1>4. carries'[new] = <<chunkOf[c], at[c]>>
  BY <1>1, <1>2
<1>5. Made' = Made \cup {new}
  BY <1>1, <1>2, <1>3, <1>4 DEF Made
<1>6. QED
  BY <1>1, <1>2, <1>3, <1>4, <1>5 DEF chunkVars

LEMMA OrderStep ==
  ASSUME Inv, RecordsInOrder, [PluginNext]_pluginVars
  PROVE  RecordsInOrder'
<1>1. ASSUME NEW c \in Callers, CallSendDjson(c)
      PROVE  RecordsInOrder'
  <2>1. PICK new \in Tags :
           /\ new \in Nat /\ new > counter
           /\ carries'[new] = <<chunkOf[c], at[c]>>
           /\ \A tag \in Made : tag # new /\ carries'[tag] = carries[tag]
           /\ \A tag \in accepted \cup refused :
                tag # new /\ carries'[tag] = carries[tag]
           /\ Made' = Made \cup {new}
           /\ UNCHANGED <<accepted, refused, chunkOf, at, queued, written>>
    BY <1>1, NewestItem
  <2>2. AtRecord(c) /\ chunkOf[c] \in Chunks /\ at[c] \in Nat \ {0}
    BY <1>1 DEF CallSendDjson, AtRecord, Writing, Inv, PluginTypeOK
  <2>3. Handled(Got, chunkOf[c], at[c])
    BY <2>2 DEF AtRecord, Inv, Progress
  <2>4. ASSUME NEW i \in 1..(at[c] - 1), RecordsOf[chunkOf[c]][i] \notin TooLarge
        PROVE  \E earlier \in accepted' :
                  earlier < new /\ carries'[earlier] = <<chunkOf[c], i>>
    <3>1. i \in DOMAIN RecordsOf[chunkOf[c]] /\ i < at[c]
      BY <2>2, RecordFacts DEF AtRecord
    <3>2. PICK earlier \in accepted : carries[earlier] = <<chunkOf[c], i>>
      BY <2>3, <2>4, <3>1 DEF Handled, Got
    <3>3. QED
      BY <2>1, <3>2, MadeFacts
  <2>5. ASSUME NEW tag \in Made, NEW i \in 1..(PlaceOf(tag) - 1),
               RecordsOf[ChunkOf(tag)][i] \notin TooLarge
        PROVE  \E earlier \in accepted' :
                  earlier < tag /\ carries'[earlier] = <<ChunkOf(tag), i>>
    <3>1. PICK earlier \in accepted :
             earlier < tag /\ carries[earlier] = <<ChunkOf(tag), i>>
      BY <2>5 DEF RecordsInOrder
    <3>2. QED
      BY <2>1, <3>1
  <2>6. ASSUME NEW tag \in Made', NEW i \in 1..(carries'[tag][2] - 1),
               RecordsOf[carries'[tag][1]][i] \notin TooLarge
        PROVE  \E earlier \in accepted' :
                  earlier < tag /\ carries'[earlier] = <<carries'[tag][1], i>>
    <3>1. CASE tag = new
      BY <2>1, <2>4, <2>6, <3>1
    <3>2. CASE tag \in Made
      BY <2>1, <2>5, <2>6, <3>2 DEF PlaceOf, ChunkOf
    <3>3. QED
      BY <2>1, <3>1, <3>2
  <2>7. QED
    BY <2>6 DEF RecordsInOrder, PlaceOf, ChunkOf
<1>2. CASE \A c \in Callers : ~CallSendDjson(c)
  <2>1. carries' = carries /\ accepted \subseteq accepted' /\ Made' = Made
    BY <1>2, OldItems DEF Made
  <2>2. QED
    BY <2>1 DEF RecordsInOrder, PlaceOf, ChunkOf
<1>3. QED
  BY <1>1, <1>2

------------------------------------------------------------------------------
(* The passes over a chunk. *)

(* An item in SendDjson is the newest of its chunk.                         *)
Latest ==
    \A c \in Callers : item[c] # NoItem =>
        \A tag \in Made : ChunkOf(tag) = chunkOf[c] => tag <= item[c]

(* The chunk of tag is being written, and the thread is past tag's record   *)
(* or has tag in SendDjson.                                                 *)
InPass(tag) ==
    \E c \in Callers :
        /\ Writing(c) /\ chunkOf[c] = ChunkOf(tag)
        /\ PlaceOf(tag) < at[c] \/ item[c] = tag

(* The pass over the chunk in which tag was made has failed.                *)
PassFailed(tag) ==
    \/ StopsBehind(tag)
    \/ \E r \in refused : tag <= r /\ ChunkOf(r) = ChunkOf(tag)

(* The pass in which an item was made goes on, has ended or has failed.     *)
Passes ==
    \A tag \in Made :
        PassFailed(tag) \/ ChunkOf(tag) \in written \/ InPass(tag)

OrderInv == Inv /\ RecordsInOrder /\ Latest /\ Passes

(* The thread is at a record of which no item can be made.                  *)
RaisesAt(c) == AtRecord(c) /\ item[c] = NoItem /\ RecordOf(c) \in Unsendable

(* The steps that make no item, by what they do to threads and chunks.      *)
LEMMA StepKinds ==
  ASSUME Inv, [PluginNext]_pluginVars, \A c \in Callers : ~CallSendDjson(c)
  PROVE  \/ UNCHANGED <<item, refused, chunkOf, at, written>>
         \/ \E c \in Callers, k \in Chunks :
              /\ ~Writing(c)
              /\ chunkOf' = [chunkOf EXCEPT ![c] = k]
              /\ at' = [at EXCEPT ![c] = 1]
              /\ UNCHANGED <<item, refused, written>>
         \/ \E c \in Callers :
              /\ Writing(c)
              /\ item' = [item EXCEPT ![c] = NoItem]
              /\ at' = [at EXCEPT ![c] = at[c] + 1]
              /\ UNCHANGED <<refused, chunkOf, written>>
         \/ \E c \in Callers :
              /\ Writing(c)
              /\ item' = [item EXCEPT ![c] = NoItem]
              /\ chunkOf' = [chunkOf EXCEPT ![c] = NoChunk]
              /\ UNCHANGED <<at, written>>
              /\ \/ RaisesAt(c) /\ refused' = refused
                 \/ item[c] \in Tags /\ refused' = refused \cup {item[c]}
         \/ \E c \in Callers :
              /\ Writing(c) /\ item[c] = NoItem
              /\ chunkOf' = [chunkOf EXCEPT ![c] = NoChunk]
              /\ written' = written \cup {chunkOf[c]}
              /\ UNCHANGED <<item, refused, at>>
<1> DEFINE Goal ==
      \/ UNCHANGED <<item, refused, chunkOf, at, written>>
      \/ \E c \in Callers, k \in Chunks :
           /\ ~Writing(c)
           /\ chunkOf' = [chunkOf EXCEPT ![c] = k]
           /\ at' = [at EXCEPT ![c] = 1]
           /\ UNCHANGED <<item, refused, written>>
      \/ \E c \in Callers :
           /\ Writing(c)
           /\ item' = [item EXCEPT ![c] = NoItem]
           /\ at' = [at EXCEPT ![c] = at[c] + 1]
           /\ UNCHANGED <<refused, chunkOf, written>>
      \/ \E c \in Callers :
           /\ Writing(c)
           /\ item' = [item EXCEPT ![c] = NoItem]
           /\ chunkOf' = [chunkOf EXCEPT ![c] = NoChunk]
           /\ UNCHANGED <<at, written>>
           /\ \/ RaisesAt(c) /\ refused' = refused
              \/ item[c] \in Tags /\ refused' = refused \cup {item[c]}
      \/ \E c \in Callers :
           /\ Writing(c) /\ item[c] = NoItem
           /\ chunkOf' = [chunkOf EXCEPT ![c] = NoChunk]
           /\ written' = written \cup {chunkOf[c]}
           /\ UNCHANGED <<item, refused, at>>
<1>1. TypeInv /\ PluginTypeOK /\ item \in [Callers -> Tags \cup {NoItem}]
  BY DEF Inv, IInv, TypeInv, TypeOK, LoggerTypeOK
<1>2. ASSUME NEW c \in Callers, StartWrite(c) PROVE Goal
  <2>1. PICK k \in queued : /\ chunkOf' = [chunkOf EXCEPT ![c] = k]
                            /\ at' = [at EXCEPT ![c] = 1]
    BY <1>2 DEF StartWrite
  <2>2. /\ k \in Chunks /\ ~Writing(c)
        /\ UNCHANGED <<item, refused, written>>
    BY <1>1, <1>2 DEF PluginTypeOK, StartWrite, vars, loggerVars, callerVars
  <2>3. QED
    BY <2>1, <2>2
<1>3. ASSUME NEW c \in Callers, DropTooLarge(c) PROVE Goal
  <2>1. /\ Writing(c) /\ item[c] = NoItem
        /\ UNCHANGED <<item, refused, chunkOf, written>>
        /\ at' = [at EXCEPT ![c] = at[c] + 1]
    BY <1>3 DEF DropTooLarge, NextRecord, AtRecord, vars, loggerVars, callerVars
  <2>2. item' = [item EXCEPT ![c] = NoItem]
    BY <1>1, <2>1
  <2>3. QED
    BY <2>1, <2>2
<1>4. ASSUME NEW c \in Callers, RaiseMalformed(c) \/ RefuseSourceless(c)
      PROVE  Goal
  <2>1. /\ Writing(c) /\ item[c] = NoItem
        /\ chunkOf' = [chunkOf EXCEPT ![c] = NoChunk]
        /\ UNCHANGED <<item, refused, at, written>>
    BY <1>4
       DEF RaiseMalformed, RefuseSourceless, Raise, AtRecord, vars, loggerVars,
           callerVars
  <2>2. item' = [item EXCEPT ![c] = NoItem]
    BY <1>1, <2>1
  <2>3. RaisesAt(c)
    BY <1>4 DEF RaiseMalformed, RefuseSourceless, RaisesAt, Unsendable
  <2>4. QED
    BY <2>1, <2>2, <2>3
<1>5. ASSUME NEW c \in Callers, InSendDjson(c) PROVE Goal
  <2>1. item[c] \in Tags
    BY <1>1, <1>5, AnswerCases
  <2>2. Writing(c)
    BY <1>1, <2>1, NoItemIsNoTag DEF PluginTypeOK, AtRecord
  <2>3. CASE UNCHANGED <<item, accepted, refused, chunkVars>>
    BY <2>3 DEF chunkVars
  <2>4. CASE /\ item' = [item EXCEPT ![c] = NoItem]
             /\ refused' = refused /\ NextRecord(c)
    BY <2>2, <2>4 DEF NextRecord
  <2>5. CASE /\ item' = [item EXCEPT ![c] = NoItem]
             /\ refused' = refused \cup {item[c]} /\ Raise(c)
    BY <2>1, <2>2, <2>5 DEF Raise
  <2>6. QED
    BY <1>1, <1>5, <2>3, <2>4, <2>5, AnswerCases
<1>6. ASSUME NEW c \in Callers, FinishWrite(c) PROVE Goal
  <2>1. /\ Writing(c) /\ ~AtRecord(c)
        /\ chunkOf' = [chunkOf EXCEPT ![c] = NoChunk]
        /\ written' = written \cup {chunkOf[c]}
        /\ UNCHANGED <<item, refused, at>>
    BY <1>6 DEF FinishWrite, vars, loggerVars, callerVars
  <2>2. item[c] = NoItem
    BY <1>1, <2>1 DEF PluginTypeOK
  <2>3. QED
    BY <2>1, <2>2
<1>7. ASSUME LoggerStep \/ UNCHANGED pluginVars PROVE Goal
  BY <1>7, OtherSteps DEF Quiet, chunkVars
<1>8. ASSUME NEW c \in Callers, HangInSendDjson(c) PROVE Goal
  BY <1>8, HangIsQuiet DEF Quiet, chunkVars
<1>9. Goal
  BY <1>2, <1>3, <1>4, <1>5, <1>6, <1>7, <1>8 DEF PluginNext, WriteStep
<1>10. QED
  BY <1>9

(* A chunk that is written is in no thread's hands, nor in two threads'.    *)
LEMMA ThreadFacts ==
  ASSUME Inv
  PROVE  /\ item \in [Callers -> Tags \cup {NoItem}] /\ NoItem \notin Tags
         /\ chunkOf \in [Callers -> Chunks \cup {NoChunk}]
         /\ at \in [Callers -> Nat \ {0}]
         /\ \A c \in Callers : Writing(c) => chunkOf[c] \in Chunks \ written
         /\ \A c, d \in Callers : Writing(c) /\ chunkOf[c] = chunkOf[d] => c = d
         /\ \A c \in Callers : item[c] # NoItem =>
              /\ Writing(c) /\ item[c] \in Tags
              /\ ChunkOf(item[c]) = chunkOf[c] /\ PlaceOf(item[c]) = at[c]
<1>1. /\ item \in [Callers -> Tags \cup {NoItem}] /\ NoItem \notin Tags
      /\ PluginTypeOK
  BY NoItemIsNoTag DEF Inv, IInv, TypeInv, TypeOK, LoggerTypeOK
<1>2. QED
  BY <1>1 DEF PluginTypeOK, Writing, AtRecord, ChunkOf, PlaceOf

LEMMA MadePlace ==
  ASSUME Inv, NEW tag \in Made
  PROVE  PlaceOf(tag) \in Nat
  BY DEF Inv, PluginTypeOK, Made, Places, PlaceOf

LEMMA PassesNewItem ==
  ASSUME OrderInv, NEW c \in Callers, CallSendDjson(c)
  PROVE  Latest' /\ Passes'
<1> DEFINE Pass(tag) == \E d \in Callers :
             /\ Writing(d) /\ chunkOf[d] = ChunkOf(tag)
             /\ PlaceOf(tag) < at[d] \/ item'[d] = tag
<1>1. PICK new \in Tags :
        /\ new \in Nat /\ new > counter
        /\ item' = [item EXCEPT ![c] = new]
        /\ carries'[new] = <<chunkOf[c], at[c]>>
        /\ \A tag \in Made : tag # new /\ carries'[tag] = carries[tag]
        /\ \A tag \in accepted \cup refused :
             tag # new /\ carries'[tag] = carries[tag]
        /\ Made' = Made \cup {new}
        /\ UNCHANGED <<accepted, refused, chunkOf, at, queued, written>>
  BY NewestItem DEF OrderInv
<1>2. item[c] = NoItem /\ Writing(c)
  BY DEF CallSendDjson, AtRecord
<1>3. /\ item'[c] = new
      /\ \A d \in Callers \ {c} : item'[d] = item[d]
  BY <1>1, ThreadFacts DEF OrderInv
<1>4. ASSUME NEW d \in Callers, item'[d] # NoItem, NEW tag \in Made',
             carries'[tag][1] = chunkOf[d]
      PROVE  tag <= item'[d]
  <2>1. CASE d = c
    BY <1>1, <1>3, <1>4, <2>1, MadeFacts DEF OrderInv
  <2>2. CASE d # c
    <3>1. item'[d] = item[d] /\ Writing(d)
      BY <1>3, <1>4, <2>2, ThreadFacts DEF OrderInv
    <3>2. tag # new
      BY <1>1, <1>2, <1>4, <2>2, <3>1, ThreadFacts DEF OrderInv
    <3>3. QED
      BY <1>1, <1>4, <3>1, <3>2 DEF OrderInv, Latest, ChunkOf
  <2>3. QED
    BY <2>1, <2>2
<1>5. Latest'
  BY <1>1, <1>4 DEF Latest, ChunkOf
<1>6. ASSUME NEW tag \in Made, InPass(tag)
      PROVE  InPass(tag)'
  <2>1. PICK d \in Callers : /\ Writing(d) /\ chunkOf[d] = ChunkOf(tag)
                             /\ PlaceOf(tag) < at[d] \/ item[d] = tag
    BY <1>6 DEF InPass
  <2>2. item[c] # tag
    BY <1>2, MadeFacts, ThreadFacts DEF OrderInv
  <2>3. PlaceOf(tag) < at[d] \/ item'[d] = tag
    BY <1>3, <2>1, <2>2
  <2>4. QED
    BY <1>1, <2>1, <2>3 DEF InPass, Writing, ChunkOf, PlaceOf
<1>7. ASSUME NEW tag \in Made, PassFailed(tag)
      PROVE  PassFailed(tag)'
  <2>1. carries'[tag] = carries[tag]
    BY <1>1
  <2>2. QED
    BY <1>1, <1>7, <2>1 DEF PassFailed, StopsBehind, ChunkOf, PlaceOf
<1>8. InPass(new)'
  BY <1>1, <1>2, <1>3 DEF InPass, Writing, ChunkOf
<1>9. ASSUME NEW tag \in Made'
      PROVE  (PassFailed(tag) \/ ChunkOf(tag) \in written \/ InPass(tag))'
  <2>1. CASE tag \in Made
    BY <1>1, <1>6, <1>7, <2>1 DEF OrderInv, Passes, ChunkOf
  <2>2. CASE tag = new
    BY <1>8, <2>2
  <2>3. QED
    BY <1>1, <2>1, <2>2
<1>10. QED
  BY <1>5, <1>9 DEF Passes

LEMMA PassesOtherStep ==
  ASSUME OrderInv, [PluginNext]_pluginVars, \A c \in Callers : ~CallSendDjson(c)
  PROVE  Latest' /\ Passes'
<1>1. carries' = carries /\ refused \subseteq refused' /\ Made' = Made
  BY OldItems DEF OrderInv, Made
<1>2. \A tag \in Made : PassFailed(tag) => PassFailed(tag)'
  BY <1>1 DEF PassFailed, StopsBehind, ChunkOf, PlaceOf
<1>3. \A tag \in Made : ChunkOf(tag)' = ChunkOf(tag) /\ PlaceOf(tag)' = PlaceOf(tag)
  BY <1>1 DEF ChunkOf, PlaceOf
<1> DEFINE Goes(tag) ==
      PassFailed(tag)' \/ ChunkOf(tag) \in written' \/ InPass(tag)'
<1>4. CASE UNCHANGED <<item, refused, chunkOf, at, written>>
  BY <1>1, <1>4
     DEF OrderInv, Latest, Passes, PassFailed, StopsBehind, InPass, ChunkOf,
         PlaceOf, Writing
<1>5. ASSUME NEW c \in Callers, NEW k \in Chunks, ~Writing(c),
             chunkOf' = [chunkOf EXCEPT ![c] = k],
             at' = [at EXCEPT ![c] = 1],
             UNCHANGED <<item, refused, written>>
      PROVE  Latest' /\ Passes'
  <2>1. item[c] = NoItem
    BY <1>5, ThreadFacts DEF OrderInv
  <2>2. \A d \in Callers \ {c} : chunkOf'[d] = chunkOf[d] /\ at'[d] = at[d]
    BY <1>5, ThreadFacts DEF OrderInv
  <2>3. Latest'
    BY <1>1, <1>3, <1>5, <2>1, <2>2 DEF OrderInv, Latest
  <2>4. \A tag \in Made : InPass(tag) => InPass(tag)'
    BY <1>3, <1>5, <2>2 DEF InPass, Writing
  <2>5. QED
    BY <1>1, <1>2, <1>3, <1>5, <2>3, <2>4 DEF OrderInv, Passes
<1>6. ASSUME NEW c \in Callers, Writing(c),
             item' = [item EXCEPT ![c] = NoItem],
             at' = [at EXCEPT ![c] = at[c] + 1],
             UNCHANGED <<refused, chunkOf, written>>
      PROVE  Latest' /\ Passes'
  <2>1. /\ item'[c] = NoItem /\ at'[c] = at[c] + 1
        /\ \A d \in Callers \ {c} : item'[d] = item[d] /\ at'[d] = at[d]
    BY <1>6, ThreadFacts DEF OrderInv
  <2>2. Latest'
    BY <1>1, <1>3, <1>6, <2>1 DEF OrderInv, Latest
  <2>3. ASSUME NEW tag \in Made, InPass(tag)
        PROVE  InPass(tag)'
    <3>1. PICK d \in Callers : /\ Writing(d) /\ chunkOf[d] = ChunkOf(tag)
                               /\ PlaceOf(tag) < at[d] \/ item[d] = tag
      BY <2>3 DEF InPass
    <3>2. CASE d # c
      BY <1>3, <1>6, <2>1, <3>1, <3>2 DEF InPass, Writing
    <3>3. CASE d = c
      <4>1. item[c] = tag => PlaceOf(tag) = at[c]
        BY MadeFacts, ThreadFacts DEF OrderInv
      <4>2. PlaceOf(tag) < at[c] + 1
        BY <3>1, <3>3, <4>1, ThreadFacts, MadePlace DEF OrderInv
      <4>3. QED
        BY <1>3, <1>6, <2>1, <3>1, <3>3, <4>2 DEF InPass, Writing
    <3>4. QED
      BY <3>2, <3>3
  <2>4. QED
    BY <1>1, <1>2, <1>3, <1>6, <2>2, <2>3 DEF OrderInv, Passes
<1>7. ASSUME NEW c \in Callers, Writing(c),
             item' = [item EXCEPT ![c] = NoItem],
             chunkOf' = [chunkOf EXCEPT ![c] = NoChunk],
             UNCHANGED <<at, written>>,
             \/ RaisesAt(c) /\ refused' = refused
             \/ item[c] \in Tags /\ refused' = refused \cup {item[c]}
      PROVE  Latest' /\ Passes'
  <2>1. /\ item'[c] = NoItem
        /\ \A d \in Callers \ {c} : item'[d] = item[d] /\ chunkOf'[d] = chunkOf[d]
    BY <1>7, ThreadFacts DEF OrderInv
  <2>2. Latest'
    BY <1>1, <1>3, <1>7, <2>1 DEF OrderInv, Latest
  <2>3. ASSUME NEW tag \in Made, InPass(tag)
        PROVE  PassFailed(tag)' \/ InPass(tag)'
    <3>1. PICK d \in Callers : /\ Writing(d) /\ chunkOf[d] = ChunkOf(tag)
                               /\ PlaceOf(tag) < at[d] \/ item[d] = tag
      BY <2>3 DEF InPass
    <3>2. CASE d # c
      BY <1>3, <1>7, <2>1, <3>1, <3>2 DEF InPass, Writing
    <3>3. CASE d = c /\ RaisesAt(c)
      <4>1. /\ chunkOf[c] \in Chunks /\ at[c] \in Nat \ {0}
            /\ at[c] <= Len(RecordsOf[chunkOf[c]])
            /\ RecordsOf[chunkOf[c]][at[c]] \in Unsendable
        BY <1>7, <3>3, ThreadFacts DEF OrderInv, RaisesAt, AtRecord, RecordOf
      <4>2. PlaceOf(tag) < at[c]
        <5>1. item[c] # tag
          BY <3>3, MadeFacts, ThreadFacts DEF OrderInv, RaisesAt
        <5>2. QED
          BY <3>1, <3>3, <5>1
      <4>3. at[c] \in DOMAIN RecordsOf[chunkOf[c]] /\ at[c] > PlaceOf(tag)
        BY <4>1, <4>2, RecordFacts, MadePlace DEF OrderInv
      <4>4. StopsBehind(tag)
        BY <3>1, <3>3, <4>1, <4>3 DEF StopsBehind
      <4>5. StopsBehind(tag)'
        BY <1>3, <4>4 DEF StopsBehind
      <4>6. QED
        BY <4>5 DEF PassFailed
    <3>4. CASE d = c /\ item[c] \in Tags /\ refused' = refused \cup {item[c]}
      <4>1. item[c] # NoItem /\ ChunkOf(item[c]) = chunkOf[c]
        BY <3>4, ThreadFacts DEF OrderInv
      <4>2. tag <= item[c]
        BY <3>1, <3>4, <4>1 DEF OrderInv, Latest
      <4>3. PICK r \in refused' : tag <= r /\ ChunkOf(r) = chunkOf[c]
        BY <3>4, <4>1, <4>2
      <4>4. ChunkOf(r)' = ChunkOf(tag)'
        BY <1>1, <3>1, <3>4, <4>3 DEF ChunkOf
      <4>5. QED
        BY <4>3, <4>4 DEF PassFailed
    <3>5. QED
      BY <1>7, <3>2, <3>3, <3>4
  <2>4. QED
    BY <1>1, <1>2, <1>3, <1>7, <2>2, <2>3 DEF OrderInv, Passes
<1>8. ASSUME NEW c \in Callers, Writing(c), item[c] = NoItem,
             chunkOf' = [chunkOf EXCEPT ![c] = NoChunk],
             written' = written \cup {chunkOf[c]},
             UNCHANGED <<item, refused, at>>
      PROVE  Latest' /\ Passes'
  <2>1. \A d \in Callers \ {c} : chunkOf'[d] = chunkOf[d]
    BY <1>8, ThreadFacts DEF OrderInv
  <2>2. Latest'
    BY <1>1, <1>3, <1>8, <2>1 DEF OrderInv, Latest
  <2>3. ASSUME NEW tag \in Made, InPass(tag)
        PROVE  ChunkOf(tag) \in written' \/ InPass(tag)'
    <3>1. PICK d \in Callers : /\ Writing(d) /\ chunkOf[d] = ChunkOf(tag)
                               /\ PlaceOf(tag) < at[d] \/ item[d] = tag
      BY <2>3 DEF InPass
    <3>2. CASE d # c
      BY <1>3, <1>8, <2>1, <3>1, <3>2 DEF InPass, Writing
    <3>3. CASE d = c
      BY <1>8, <3>1, <3>3
    <3>4. QED
      BY <3>2, <3>3
  <2>4. QED
    BY <1>1, <1>2, <1>3, <1>8, <2>2, <2>3 DEF OrderInv, Passes
<1>9. Inv
  BY DEF OrderInv
<1>10. QED
  BY <1>4, <1>5, <1>6, <1>7, <1>8, <1>9, StepKinds

LEMMA RepeatedStep ==
  ASSUME OrderInv, RepeatedOnlyAfterFailure, [PluginNext]_pluginVars
  PROVE  RepeatedOnlyAfterFailure'
<1> DEFINE Reason(first, second) ==
      \/ StopsBehind(first)
      \/ \E tag \in refused :
           first <= tag /\ tag < second /\ ChunkOf(tag) = ChunkOf(first)
<1>1. ASSUME NEW c \in Callers, CallSendDjson(c)
      PROVE  RepeatedOnlyAfterFailure'
  <2>1. PICK new \in Tags :
          /\ new \in Nat /\ new > counter
          /\ item' = [item EXCEPT ![c] = new]
          /\ carries'[new] = <<chunkOf[c], at[c]>>
          /\ \A tag \in Made : tag # new /\ carries'[tag] = carries[tag]
          /\ \A tag \in accepted \cup refused :
               tag # new /\ carries'[tag] = carries[tag]
          /\ Made' = Made \cup {new}
          /\ UNCHANGED <<accepted, refused, chunkOf, at, queued, written>>
    BY <1>1, NewestItem DEF OrderInv
  <2>2. item[c] = NoItem /\ Writing(c)
    BY <1>1 DEF CallSendDjson, AtRecord
  <2>3. ASSUME NEW first \in Made, carries[first] = <<chunkOf[c], at[c]>>
        PROVE  Reason(first, new)
    <3>1. ChunkOf(first) = chunkOf[c] /\ PlaceOf(first) = at[c]
      BY <2>3 DEF ChunkOf, PlaceOf
    <3>2. ChunkOf(first) \notin written
      BY <2>2, <3>1, ThreadFacts DEF OrderInv
    <3>3. ~InPass(first)
      <4>1. SUFFICES ASSUME InPass(first) PROVE FALSE
        OBVIOUS
      <4>2. PICK d \in Callers : /\ Writing(d) /\ chunkOf[d] = ChunkOf(first)
                                 /\ PlaceOf(first) < at[d] \/ item[d] = first
        BY <4>1 DEF InPass
      <4>3. d = c
        BY <2>2, <3>1, <4>2, ThreadFacts DEF OrderInv
      <4>4. item[c] # first /\ at[c] \in Nat
        BY <2>2, MadeFacts, ThreadFacts DEF OrderInv
      <4>5. QED
        BY <3>1, <4>2, <4>3, <4>4
    <3>4. PassFailed(first)
      BY <3>2, <3>3 DEF OrderInv, Passes
    <3>5. QED
      BY <2>1, <3>4, MadeFacts DEF PassFailed, OrderInv
  <2>4. ASSUME NEW first \in Made', NEW second \in Made',
               first < second, carries'[first] = carries'[second]
        PROVE  \/ StopsBehind(first)'
               \/ \E tag \in refused' :
                    /\ first <= tag /\ tag < second
                    /\ carries'[tag][1] = carries'[first][1]
    <3>1. first # new
      BY <2>1, <2>4, MadeFacts DEF OrderInv
    <3>2. first \in Made /\ carries'[first] = carries[first]
      BY <2>1, <3>1
    <3>3. Reason(first, second)
      <4>1. CASE second = new
        BY <2>1, <2>3, <2>4, <3>2, <4>1
      <4>2. CASE second \in Made
        BY <2>1, <2>4, <3>2, <4>2 DEF RepeatedOnlyAfterFailure
      <4>3. QED
        BY <2>1, <4>1, <4>2
    <3>4. StopsBehind(first) => StopsBehind(first)'
      BY <3>2 DEF StopsBehind, ChunkOf, PlaceOf
    <3>5. QED
      BY <2>1, <3>2, <3>3, <3>4 DEF ChunkOf
  <2>5. QED
    BY <2>4 DEF RepeatedOnlyAfterFailure, ChunkOf
<1>2. CASE \A c \in Callers : ~CallSendDjson(c)
  <2>1. carries' = carries /\ refused \subseteq refused' /\ Made' = Made
    BY <1>2, OldItems DEF OrderInv, Made
  <2>2. QED
    BY <2>1 DEF RepeatedOnlyAfterFailure, StopsBehind, ChunkOf, PlaceOf
<1>3. QED
  BY <1>1, <1>2

FullInv == OrderInv /\ RepeatedOnlyAfterFailure

LEMMA FullInvInit == PluginInit => FullInv
<1> SUFFICES ASSUME PluginInit PROVE FullInv
  OBVIOUS
<1>1. Made = {} /\ \A c \in Callers : item[c] = NoItem
  BY DEF PluginInit, Init, Made
<1>2. QED
  BY <1>1, InvInit
     DEF FullInv, OrderInv, RecordsInOrder, Latest, Passes,
         RepeatedOnlyAfterFailure

LEMMA FullInvStep == FullInv /\ [PluginNext]_pluginVars => FullInv'
<1> SUFFICES ASSUME FullInv, [PluginNext]_pluginVars PROVE FullInv'
  OBVIOUS
<1>1. OrderInv /\ RepeatedOnlyAfterFailure /\ Inv /\ RecordsInOrder
  BY DEF FullInv, OrderInv
<1>2. Inv' /\ RecordsInOrder' /\ RepeatedOnlyAfterFailure'
  BY <1>1, InvStep, OrderStep, RepeatedStep
<1>3. Latest' /\ Passes'
  BY <1>1, PassesNewItem, PassesOtherStep
<1>4. QED
  BY <1>2, <1>3 DEF FullInv, OrderInv

LEMMA FullInvHolds == PluginSpec => []FullInv
  BY FullInvInit, FullInvStep, PTL DEF PluginSpec

(* A record of which an item was made has an accepted, older item of each   *)
(* record before it in its chunk: out_mdsd.rb:84-95, 107.                   *)
THEOREM RecordsInOrderHolds == PluginSpec => []RecordsInOrder
<1>1. FullInv => RecordsInOrder
  BY DEF FullInv, OrderInv
<1>2. QED
  BY <1>1, FullInvHolds, PTL

(* A record gets a second item only when an item of its chunk was refused   *)
(* after the first one was made, or a record behind it in the chunk makes   *)
(* write raise each time, having no text or no source name:                 *)
(* out_mdsd.rb:104-108.                                                     *)
THEOREM RepeatedOnlyAfterFailureHolds ==
  PluginSpec => []RepeatedOnlyAfterFailure
<1>1. FullInv => RepeatedOnlyAfterFailure
  BY DEF FullInv
<1>2. QED
  BY <1>1, FullInvHolds, PTL
==============================================================================
