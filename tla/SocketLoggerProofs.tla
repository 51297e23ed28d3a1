-------------------------- MODULE SocketLoggerProofs --------------------------
(***************************************************************************)
(* Proofs about SocketLogger for any callers, tags and socket buffer: what *)
(* SendDjson's answer says about the item.                                 *)
(***************************************************************************)
EXTENDS SocketLogger, DeliveryProofs

(* The counter has passed every item there is, so that a new item is new;   *)
(* who is still in SendDjson has no answer, and adds an item only once.     *)
Numbered ==
    /\ \A tag \in accepted \cup refused \cup cached : tag <= counter
    /\ \A c \in Callers : item[c] <= counter
    /\ \A c \in Callers : item[c] \notin accepted \cup refused
    /\ \A c \in Callers : callerPc[c] = "cache" => item[c] \notin cached

(* The first call starts the threads, which would break their types if the  *)
(* resender were running already.                                           *)
StartedTogether == readerPc = "none" => resenderPc = "none"

TypeInv == TypeOK /\ Numbered /\ StartedTogether

LEMMA NumbersOrdered ==
  ASSUME LoggerTypeOK
  PROVE  /\ counter \in Nat
         /\ \A c \in Callers : item[c] \in Nat
         /\ \A tag \in Tags : tag \in Nat \ {0}
<1>1. \A tag \in Tags : tag \in Nat \ {0}
  BY TagsAssumption DEF TagsAssumption
<1>2. counter \in Tags \cup {0} /\ \A c \in Callers : item[c] \in Tags \cup {0}
  BY DEF LoggerTypeOK, NoItem
<1>3. QED
  BY <1>1, <1>2

------------------------------------------------------------------------------
(* Types. *)

LEMMA InitType == Init => TypeInv
<1> SUFFICES ASSUME Init PROVE TypeInv
  OBVIOUS
<1>1. DeliveryTypeOK
  BY DeliveryInitType DEF Init
<1>2. LoggerTypeOK
  BY DEF Init, LoggerTypeOK, CallerStates, LoggerStates, NoItem
<1>3. Numbered
  BY DEF Init, DeliveryInit, Numbered, NoItem
<1>4. QED
  BY <1>1, <1>2, <1>3 DEF TypeInv, TypeOK, StartedTogether, Init, DeliveryInit

LEMMA SendDjsonType ==
  ASSUME TypeInv, NEW c \in Callers, SendDjson(c)
  PROVE  TypeInv'
<1>1. PICK tag \in Tags : tag > counter /\ CallStarts(c, tag)
  BY DEF SendDjson
<1>2. /\ tag \in Nat \ {0} /\ tag > counter /\ counter' = tag
      /\ item' = [item EXCEPT ![c] = tag]
      /\ callerPc' = [callerPc EXCEPT ![c] = "cache"]
      /\ callerPc[c] = "idle"
      /\ UNCHANGED <<loggerPc, accepted, refused>>
  BY <1>1, NumbersOrdered DEF CallStarts, TypeInv, TypeOK
<1>3. UNCHANGED <<cacheVars, connVars, lines, cacheBak, cacheCopy, stopVars,
                  historyVars>>
  BY <1>1
     DEF CallStarts, StartReaderAndResender, deliveryVars, readerVars,
         resenderVars
<1>4. DeliveryTypeOK'
  <2>1. CASE readerPc = "none"
    <3>1. StartReaderAndResender /\ resenderPc = "none"
      BY <1>1, <2>1 DEF CallStarts, TypeInv, StartedTogether
    <3>2. ReaderTypeOK' /\ ResenderTypeOK'
      BY <2>1, <3>1
         DEF StartReaderAndResender, TypeInv, TypeOK, DeliveryTypeOK,
             ReaderTypeOK, ResenderTypeOK
    <3>3. QED
      BY <1>3, <3>2
         DEF TypeInv, TypeOK, DeliveryTypeOK, CacheTypeOK, ConnTypeOK,
             StopTypeOK, HistoryTypeOK, cacheVars, connVars, stopVars,
             historyVars
  <2>2. CASE readerPc # "none"
    BY <1>1, <2>2, DeliveryUnchanged DEF CallStarts, TypeInv, TypeOK
  <2>3. QED
    BY <2>1, <2>2
<1>5. \A d \in Callers : item[d] < tag
  BY <1>2, NumbersOrdered DEF TypeInv, TypeOK, Numbered
<1>6. LoggerTypeOK'
  <2>1. useCache' = useCache
    BY <1>3 DEF cacheVars
  <2>2. \A d, e \in Callers : item'[d] = item'[e] => d = e \/ item'[d] = NoItem
    BY <1>2, <1>5 DEF TypeInv, TypeOK, LoggerTypeOK
  <2>3. QED
    BY <1>2, <2>1, <2>2
       DEF TypeInv, TypeOK, LoggerTypeOK, CallerStates, NoItem
<1>7. Numbered'
  <2>1. cached' = cached
    BY <1>3 DEF historyVars
  <2>2. \A old \in accepted \cup refused \cup cached : old \in Nat /\ old < tag
    BY <1>2, NumbersOrdered
       DEF TypeInv, TypeOK, Numbered, LoggerTypeOK, DeliveryTypeOK,
           HistoryTypeOK
  <2>3. tag \notin accepted \cup refused \cup cached
    BY <1>2, <2>2
  <2>4. \A d \in Callers : item'[d] \in {item[d], tag} /\ item'[d] <= counter'
    BY <1>2, <1>5, NumbersOrdered DEF TypeInv, TypeOK, LoggerTypeOK
  <2>5. QED
    BY <1>2, <2>1, <2>2, <2>3, <2>4
       DEF TypeInv, TypeOK, LoggerTypeOK, Numbered
<1>8. StartedTogether'
  BY <1>1
     DEF CallStarts, StartReaderAndResender, TypeInv, StartedTogether,
         deliveryVars, readerVars, resenderVars
<1>9. QED
  BY <1>4, <1>6, <1>7, <1>8 DEF TypeInv, TypeOK

(* The two ways in which a caller goes on.                                  *)
LEMMA GoesType ==
  ASSUME TypeInv, NEW c \in Callers, NEW from \in CallerStates \ {"idle"},
         NEW to \in CallerStates \ {"idle", "cache"}, CallerGoes(c, from, to),
         to \in {"get", "getAgain", "erase"} => useCache,
         cached' \subseteq cached \cup {item[c]},
         UNCHANGED <<useCache, counter, loggerPc>>
  PROVE  LoggerTypeOK' /\ Numbered'
<1>1. /\ callerPc' = [callerPc EXCEPT ![c] = to] /\ callerPc[c] = from
      /\ UNCHANGED <<item, accepted, refused>>
  BY DEF CallerGoes
<1>2. LoggerTypeOK'
  BY <1>1 DEF TypeInv, TypeOK, LoggerTypeOK
<1>3. item[c] # NoItem
  BY <1>1 DEF TypeInv, TypeOK, LoggerTypeOK
<1>4. \A d \in Callers : callerPc'[d] = "cache" => item[d] \notin cached'
  <2> SUFFICES ASSUME NEW d \in Callers, callerPc'[d] = "cache"
               PROVE  item[d] \notin cached'
    OBVIOUS
  <2>1. d # c /\ callerPc[d] = "cache"
    BY <1>1 DEF TypeInv, TypeOK, LoggerTypeOK
  <2>2. item[d] # item[c]
    BY <1>3, <2>1 DEF TypeInv, TypeOK, LoggerTypeOK
  <2>3. QED
    BY <2>1, <2>2 DEF TypeInv, Numbered
<1>5. \A tag \in accepted' \cup refused' \cup cached' : tag <= counter
  BY <1>1 DEF TypeInv, Numbered
<1>6. QED
  BY <1>1, <1>2, <1>4, <1>5 DEF TypeInv, Numbered

LEMMA ReturnsType ==
  ASSUME TypeInv, NEW c \in Callers, NEW from \in CallerStates \ {"idle"},
         NEW ok \in BOOLEAN, Returns(c, from, ok),
         UNCHANGED <<useCache, counter, loggerPc, cached>>
  PROVE  LoggerTypeOK' /\ Numbered'
<1>1. /\ callerPc[c] = from
      /\ callerPc' = [callerPc EXCEPT ![c] = "idle"]
      /\ item' = [item EXCEPT ![c] = NoItem]
      /\ accepted \subseteq accepted' /\ accepted' \subseteq accepted \cup {item[c]}
      /\ refused \subseteq refused' /\ refused' \subseteq refused \cup {item[c]}
      /\ accepted' = accepted \/ refused' = refused
  BY DEF Returns
<1>2. item[c] \in Tags /\ item[c] \notin accepted \cup refused
  BY <1>1 DEF TypeInv, TypeOK, LoggerTypeOK, Numbered
<1>3. NoItem \notin Tags
  BY TagsAssumption DEF TagsAssumption, NoItem
<1>4. LoggerTypeOK'
  <2>1. \A d \in Callers : item'[d] = IF d = c THEN NoItem ELSE item[d]
    BY <1>1 DEF TypeInv, TypeOK, LoggerTypeOK
  <2>2. \A d \in Callers : callerPc'[d] = IF d = c THEN "idle" ELSE callerPc[d]
    BY <1>1 DEF TypeInv, TypeOK, LoggerTypeOK
  <2>3. /\ \A d \in Callers : callerPc'[d] = "idle" <=> item'[d] = NoItem
        /\ \A d \in Callers : callerPc'[d] \in {"get", "getAgain", "erase"} => useCache
        /\ \A d, e \in Callers : item'[d] = item'[e] => d = e \/ item'[d] = NoItem
    BY <2>1, <2>2 DEF TypeInv, TypeOK, LoggerTypeOK
  <2>4. accepted' \subseteq Tags /\ refused' \subseteq Tags /\ accepted' \cap refused' = {}
    BY <1>1, <1>2 DEF TypeInv, TypeOK, LoggerTypeOK
  <2>5. QED
    BY <1>1, <2>3, <2>4 DEF TypeInv, TypeOK, LoggerTypeOK, CallerStates
<1>5. Numbered'
  <2>1. \A tag \in accepted' \cup refused' \cup cached' : tag <= counter
    BY <1>1 DEF TypeInv, Numbered
  <2>2. ASSUME NEW d \in Callers
        PROVE  /\ item'[d] <= counter
               /\ item'[d] \notin accepted' \cup refused'
               /\ callerPc'[d] = "cache" => item'[d] \notin cached
    <3>1. CASE d = c
      <4>1. item'[d] = NoItem /\ callerPc'[d] = "idle"
        BY <1>1, <3>1 DEF TypeInv, TypeOK, LoggerTypeOK
      <4>2. NoItem <= counter
        BY NumbersOrdered DEF NoItem, TypeInv, TypeOK
      <4>3. NoItem \notin accepted' \cup refused'
        BY <1>3, <1>4 DEF LoggerTypeOK
      <4>4. QED
        BY <4>1, <4>2, <4>3
    <3>2. CASE d # c
      <4>1. item'[d] = item[d] /\ callerPc'[d] = callerPc[d]
        BY <1>1, <3>2 DEF TypeInv, TypeOK, LoggerTypeOK
      <4>2. item[d] # item[c]
        BY <1>2, <1>3, <3>2 DEF TypeInv, TypeOK, LoggerTypeOK
      <4>3. QED
        BY <1>1, <4>1, <4>2 DEF TypeInv, Numbered
    <3>3. QED
      BY <3>1, <3>2
  <2>3. QED
    BY <2>1, <2>2 DEF Numbered
<1>6. QED
  BY <1>4, <1>5

LEMMA CacheItemType ==
  ASSUME TypeInv, NEW c \in Callers, CacheItem(c), UNCHANGED <<counter, loggerPc>>
  PROVE  DeliveryTypeOK' /\ LoggerTypeOK' /\ Numbered'
<1>1. UNCHANGED <<useCache, connVars, readerVars, resenderVars, stopVars>>
  BY DEF CacheItem
<1>2. CASE useCache
  <2>1. AddToCache(item[c]) /\ CallerGoes(c, "cache", "get")
    BY <1>2 DEF CacheItem
  <2>2. item[c] \in Tags
    BY <2>1 DEF CallerGoes, TypeInv, TypeOK, LoggerTypeOK
  <2>3. CacheTypeOK' /\ HistoryTypeOK'
    BY <1>1, <1>2, <2>1, <2>2
       DEF AddToCache, TypeInv, TypeOK, DeliveryTypeOK, CacheTypeOK,
           HistoryTypeOK
  <2>4. ConnTypeOK' /\ StopTypeOK'
    BY <1>1
       DEF connVars, stopVars, TypeInv, TypeOK, DeliveryTypeOK, ConnTypeOK,
           StopTypeOK
  <2>5. DeliveryTypeOK'
    BY <1>1, <2>3, <2>4, DeliveryByParts DEF TypeInv, TypeOK
  <2>6. LoggerTypeOK' /\ Numbered'
    BY <1>1, <1>2, <2>1, GoesType DEF AddToCache, CallerStates
  <2>7. QED
    BY <2>5, <2>6
<1>3. CASE ~useCache
  <2>1. UNCHANGED deliveryVars /\ CallerGoes(c, "cache", "send")
    BY <1>1, <1>3 DEF CacheItem, deliveryVars, cacheVars
  <2>2. LoggerTypeOK' /\ Numbered'
    BY <1>1, <2>1, GoesType DEF CallerStates, deliveryVars, historyVars
  <2>3. QED
    BY <2>1, <2>2, DeliveryUnchanged DEF TypeInv, TypeOK
<1>4. QED
  BY <1>2, <1>3

LEMMA GetItemType ==
  ASSUME TypeInv, NEW c \in Callers, GetItem(c) \/ GetItemAgain(c),
         UNCHANGED <<counter, loggerPc>>
  PROVE  DeliveryTypeOK' /\ LoggerTypeOK' /\ Numbered'
<1>1. UNCHANGED deliveryVars
  BY DEF GetItem, GetItemAgain
<1>2. DeliveryTypeOK' /\ UNCHANGED <<useCache, cached>>
  BY <1>1, DeliveryUnchanged
     DEF TypeInv, TypeOK, deliveryVars, cacheVars, historyVars
<1>3. callerPc[c] \in {"get", "getAgain"} /\ useCache
  BY
     DEF GetItem, GetItemAgain, Returns, CallerGoes, TypeInv, TypeOK,
         LoggerTypeOK
<1>4. CASE CallerGoes(c, "get", "getAgain")
  BY <1>2, <1>3, <1>4, GoesType DEF CallerStates
<1>5. CASE Returns(c, "get", FALSE)
  BY <1>2, <1>5, ReturnsType DEF CallerStates
<1>6. CASE CallerGoes(c, "getAgain", "send") \/ CallerGoes(c, "getAgain", "erase")
  BY <1>2, <1>3, <1>6, GoesType DEF CallerStates
<1>7. QED
  BY <1>4, <1>5, <1>6 DEF GetItem, GetItemAgain

LEMMA SendItemType ==
  ASSUME TypeInv, NEW c \in Callers, SendItem(c), UNCHANGED <<counter, loggerPc>>
  PROVE  DeliveryTypeOK' /\ LoggerTypeOK' /\ Numbered'
<1>1. UNCHANGED <<cacheVars, readerVars, resenderVars, stopVars, historyVars>>
  BY DEF SendItem
<1>2. item[c] \in Tags
  BY DEF SendItem, Returns, CallerGoes, TypeInv, TypeOK, LoggerTypeOK
<1>3. ConnTypeOK'
  BY <1>2, WrittenType, DropConnectionType
     DEF SendItem, NotWritten, TypeInv, TypeOK, DeliveryTypeOK
<1>4. CacheTypeOK' /\ HistoryTypeOK' /\ StopTypeOK'
  BY <1>1
     DEF cacheVars, historyVars, stopVars, TypeInv, TypeOK, DeliveryTypeOK,
         CacheTypeOK, HistoryTypeOK, StopTypeOK
<1>5. DeliveryTypeOK'
  BY <1>1, <1>3, <1>4, DeliveryByParts DEF TypeInv, TypeOK
<1>6. UNCHANGED <<useCache, cached>>
  BY <1>1 DEF cacheVars, historyVars
<1>7. CASE useCache /\ CallerGoes(c, "send", "erase")
  BY <1>5, <1>6, <1>7, GoesType DEF CallerStates
<1>8. CASE Returns(c, "send", TRUE) \/ Returns(c, "send", FALSE)
  BY <1>5, <1>6, <1>8, ReturnsType DEF CallerStates
<1>9. QED
  BY <1>7, <1>8 DEF SendItem

LEMMA EraseItemType ==
  ASSUME TypeInv, NEW c \in Callers, EraseItem(c), UNCHANGED <<counter, loggerPc>>
  PROVE  DeliveryTypeOK' /\ LoggerTypeOK' /\ Numbered'
<1>1. UNCHANGED <<useCache, connVars, readerVars, resenderVars, stopVars,
                  historyVars>>
  BY DEF EraseItem
<1>2. CacheTypeOK'
  BY <1>1
     DEF EraseItem, EraseFromCache, TypeInv, TypeOK, DeliveryTypeOK,
         CacheTypeOK
<1>3. ConnTypeOK' /\ HistoryTypeOK' /\ StopTypeOK'
  BY <1>1
     DEF connVars, historyVars, stopVars, TypeInv, TypeOK, DeliveryTypeOK,
         ConnTypeOK, HistoryTypeOK, StopTypeOK
<1>4. DeliveryTypeOK'
  BY <1>1, <1>2, <1>3, DeliveryByParts DEF TypeInv, TypeOK
<1>5. LoggerTypeOK' /\ Numbered'
  BY <1>1, ReturnsType DEF EraseItem, CallerStates, historyVars
<1>6. QED
  BY <1>4, <1>5

LEMMA SendDataType ==
  ASSUME TypeInv, NEW c \in Callers, SendData(c)
  PROVE  TypeInv'
<1>1. DeliveryTypeOK' /\ LoggerTypeOK' /\ Numbered'
  BY CacheItemType, GetItemType, SendItemType, EraseItemType DEF SendData
<1>2. UNCHANGED <<readerPc, resenderPc>>
  BY DEF SendData, CacheItem, GetItem, GetItemAgain, SendItem, EraseItem,
         deliveryVars, readerVars, resenderVars
<1>3. QED
  BY <1>1, <1>2 DEF TypeInv, TypeOK, StartedTogether

\* what a call that never returns leaves alone
LEMMA SendItemHangsKeeps ==
  ASSUME NEW c \in Callers, SendItemHangs(c)
  PROVE  /\ UNCHANGED <<cacheVars, readerVars, resenderVars, stopVars,
                        historyVars, item, accepted, refused, counter, loggerPc>>
         /\ LoseConnection \/ UNCHANGED <<toServer, toClient, cut, stale>>
         /\ callerPc[c] = "send" /\ callerPc' = [callerPc EXCEPT ![c] = "stuck"]
  BY NeverReturnsLeaves DEF SendItemHangs, CallerGoes

LEMMA SendItemHangsType ==
  ASSUME TypeInv, NEW c \in Callers, SendItemHangs(c)
  PROVE  TypeInv'
<1>1. UNCHANGED <<cacheVars, readerVars, resenderVars, stopVars, historyVars,
                  counter, loggerPc>>
  BY DEF SendItemHangs
<1>2. ConnTypeOK'
  BY NeverReturnsType DEF SendItemHangs, TypeInv, TypeOK, DeliveryTypeOK
<1>3. CacheTypeOK' /\ HistoryTypeOK' /\ StopTypeOK'
  BY <1>1
     DEF cacheVars, historyVars, stopVars, TypeInv, TypeOK, DeliveryTypeOK,
         CacheTypeOK, HistoryTypeOK, StopTypeOK
<1>4. DeliveryTypeOK'
  BY <1>1, <1>2, <1>3, DeliveryByParts DEF TypeInv, TypeOK
<1>5. LoggerTypeOK' /\ Numbered'
  <2>1. CallerGoes(c, "send", "stuck")
    BY DEF SendItemHangs
  <2>2. UNCHANGED <<useCache, cached>>
    BY <1>1 DEF cacheVars, historyVars
  <2>3. QED
    BY <1>1, <2>1, <2>2, GoesType DEF CallerStates
<1>6. StartedTogether'
  BY <1>1 DEF TypeInv, StartedTogether, readerVars, resenderVars
<1>7. QED
  BY <1>4, <1>5, <1>6 DEF TypeInv, TypeOK

(* The destructor and the threads leave the callers alone.                  *)
LEMMA CallersUnchanged ==
  ASSUME TypeInv, UNCHANGED <<useCache, cached, counter, callerVars>>,
         loggerPc' \in LoggerStates
  PROVE  LoggerTypeOK' /\ Numbered'
<1>1. UNCHANGED <<callerPc, item, accepted, refused>>
  BY DEF callerVars
<1>2. LoggerTypeOK'
  BY <1>1 DEF TypeInv, TypeOK, LoggerTypeOK
<1>3. Numbered'
  BY <1>1 DEF TypeInv, Numbered
<1>4. QED
  BY <1>2, <1>3

LEMMA DestroyType ==
  ASSUME TypeInv, Destroy \/ Destructor
  PROVE  TypeInv'
<1>1. UNCHANGED <<cacheVars, readerVars, resenderVars, historyVars>>
  BY
     DEF Destroy, Destructor, DestroyResender, DestroyReader, Join,
         deliveryVars
<1>2. UNCHANGED <<counter, callerVars>> /\ loggerPc' \in LoggerStates
  BY
     DEF Destroy, Destructor, DestroyResender, DestroyReader, Join,
         LoggerGoes,
         LoggerStates
<1>3. LoggerTypeOK' /\ Numbered'
  BY <1>1, <1>2, CallersUnchanged DEF cacheVars, historyVars
<1>4. ConnTypeOK'
  <2>1. CASE Destroy
    BY <2>1, DropConnectionType
       DEF Destroy, StopClient, TypeInv, TypeOK, DeliveryTypeOK
  <2>2. CASE Destructor
    BY <2>2
       DEF Destructor, DestroyResender, DestroyReader, Join, deliveryVars,
           connVars, TypeInv, TypeOK, DeliveryTypeOK, ConnTypeOK
  <2>3. QED
    BY <2>1, <2>2
<1>5. StopTypeOK'
  BY
     DEF Destroy, StopClient, Destructor, DestroyResender, DestroyReader,
         Join,
         deliveryVars, stopVars, TypeInv, TypeOK, DeliveryTypeOK, CacheTypeOK,
         StopTypeOK
<1>6. CacheTypeOK' /\ HistoryTypeOK'
  BY <1>1
     DEF cacheVars, historyVars, TypeInv, TypeOK, DeliveryTypeOK, CacheTypeOK,
         HistoryTypeOK
<1>7. DeliveryTypeOK'
  BY <1>1, <1>4, <1>5, <1>6, DeliveryByParts DEF TypeInv, TypeOK
<1>8. QED
  BY <1>1, <1>3, <1>7
     DEF TypeInv, TypeOK, StartedTogether, readerVars, resenderVars

ThreadsAndTime ==
    \/ ReaderStep \/ ResenderStep \/ ServerStep \/ LateCloseStep \/ HangStep
    \/ \E tag \in Tags : AgeStep(tag)

LEMMA ThreadsStep ==
  ASSUME ThreadsAndTime
  PROVE  /\ UNCHANGED loggerVars
         /\ \/ Reader \/ Resender \/ Hangs \/ Server \/ LateClose
            \/ \E tag \in Tags : Age(tag)
  BY DEF ThreadsAndTime, ReaderStep, ResenderStep, ServerStep, LateCloseStep,
         HangStep, AgeStep

LEMMA ThreadsType ==
  ASSUME TypeInv, ThreadsAndTime
  PROVE  TypeInv'
<1>1. DeliveryTypeOK'
  BY ThreadsStep, ReaderType, ResenderType, HangsType, EnvironmentType
     DEF TypeInv, TypeOK
<1>2. UNCHANGED <<useCache, cached>>
  <2>1. CASE Reader
    BY <2>1
       DEF Reader, ReaderRead, ReaderClose, ReaderProcess, ReaderExit,
           cacheVars, historyVars
  <2>2. CASE Resender
    BY <2>2
       DEF Resender, ResenderTimer, ResenderErase, ResenderCopy, ResenderSend,
           ResenderRoundEnd, ResenderThrows, ResenderExit, cacheVars,
           historyVars
  <2>3. CASE Server \/ LateClose \/ \E tag \in Tags : Age(tag)
    BY <2>3
       DEF Server, ServerReads, HangUp, Ignore, Acknowledge, LateClose, Age,
           cacheVars, historyVars
  <2>4. CASE Hangs
    BY <2>4, HangsLeave DEF cacheVars, historyVars
  <2>5. QED
    BY <2>1, <2>2, <2>3, <2>4, ThreadsStep
<1>3. LoggerTypeOK' /\ Numbered'
  BY <1>2, ThreadsStep, CallersUnchanged
     DEF loggerVars, TypeInv, TypeOK, LoggerTypeOK
<1>4. StartedTogether'
  <2>1. CASE Reader
    BY <2>1
       DEF Reader, ReaderRead, ReaderClose, ReaderProcess, ReaderExit,
           readerVars, resenderVars, TypeInv, StartedTogether
  <2>2. CASE Resender
    BY <2>2
       DEF Resender, ResenderTimer, ResenderErase, ResenderCopy, ResenderSend,
           ResenderRoundEnd, ResenderThrows, ResenderExit, readerVars,
           TypeInv, StartedTogether
  <2>3. CASE Server \/ LateClose \/ \E tag \in Tags : Age(tag)
    BY <2>3
       DEF Server, ServerReads, HangUp, Ignore, Acknowledge, LateClose, Age,
           readerVars, resenderVars, TypeInv, StartedTogether
  <2>4. CASE Hangs
    BY <2>4
       DEF Hangs, ReaderHangs, ResenderHangs, readerVars, resenderVars,
           TypeInv, StartedTogether
  <2>5. QED
    BY <2>1, <2>2, <2>3, <2>4, ThreadsStep
<1>5. QED
  BY <1>1, <1>3, <1>4 DEF TypeInv, TypeOK

LEMMA StutterType ==
  ASSUME TypeInv, UNCHANGED vars
  PROVE  TypeInv'
<1>1. UNCHANGED deliveryVars /\ UNCHANGED loggerVars
  BY DEF vars
<1>2. DeliveryTypeOK'
  BY <1>1, DeliveryUnchanged DEF TypeInv, TypeOK
<1>3. LoggerTypeOK' /\ Numbered'
  BY <1>1, CallersUnchanged
     DEF loggerVars, deliveryVars, cacheVars, historyVars, TypeInv, TypeOK,
         LoggerTypeOK
<1>4. QED
  BY <1>1, <1>2, <1>3
     DEF deliveryVars, readerVars, resenderVars, TypeInv, TypeOK,
         StartedTogether

LEMMA NextSteps ==
  ASSUME [Next]_vars
  PROVE  \/ \E c \in Callers : SendDjson(c) \/ SendData(c) \/ SendItemHangs(c)
         \/ Destroy \/ Destructor
         \/ ThreadsAndTime
         \/ UNCHANGED vars
  BY DEF Next, Terminated, ThreadsAndTime

LEMMA TypeStep == TypeInv /\ [Next]_vars => TypeInv'
  BY NextSteps, SendDjsonType, SendDataType, SendItemHangsType, DestroyType,
     ThreadsType, StutterType

(* For any number of callers and items: each call of SendDjson                *)
(* (SocketLogger.cc:107) has an item of its own while it lasts, looks it up  *)
(* only when there is a cache, and no item has two answers.                  *)
THEOREM TypeCorrect == Spec => []TypeOK
<1>1. TypeInv => TypeOK
  BY DEF TypeInv
<1>2. QED
  BY <1>1, InitType, TypeStep, PTL DEF Spec

------------------------------------------------------------------------------
(* What SendDjson's answer says about the item. *)

(* With a cache, whoever is past Add has added, and so has whoever was told *)
(* "true".                                                                  *)
Added ==
    useCache => /\ accepted \subseteq cached
                /\ \A c \in Callers : callerPc[c] \notin {"idle", "cache"} =>
                      item[c] \in cached

(* A cached item leaves for one of four reasons, the last of them that its  *)
(* caller was told "false".                                                 *)
Retained == cached \subseteq dataCache \cup acked \cup expired \cup misread \cup refused

Answers == Added /\ Retained /\ RefusedNotKept

IInv == TypeInv /\ AcksTrue /\ AckedWereCached /\ Answers /\ DeliveryFlow

(* CacheItem adds what is new, and the other steps of a caller take out at  *)
(* most its own item, when they refuse it.                                  *)
LEMMA SendDataCache ==
  ASSUME TypeInv, NEW c \in Callers, SendData(c), ~(CacheItem(c) /\ useCache)
  PROVE  /\ UNCHANGED <<useCache, cached, acked, expired, misread>>
         /\ dataCache' = dataCache \/ dataCache' = dataCache \ {item[c]}
         /\ dataCache \ dataCache' \subseteq refused'
         /\ refused' = refused \/ (refused' = refused \cup {item[c]} /\ item[c] \notin dataCache')
<1>1. CASE CacheItem(c)
  BY <1>1 DEF CacheItem, CallerGoes, historyVars
<1>2. CASE GetItem(c) \/ GetItemAgain(c)
  BY <1>2
     DEF GetItem, GetItemAgain, CallerGoes, Returns, deliveryVars, cacheVars,
         historyVars
<1>3. CASE SendItem(c)
  <2>1. ~useCache => dataCache = {}
    BY DEF TypeInv, TypeOK, DeliveryTypeOK, CacheTypeOK
  <2>2. useCache => refused' = refused
    BY <1>3 DEF SendItem, Returns, CallerGoes
  <2>3. refused' \in {refused, refused \cup {item[c]}}
    BY <1>3 DEF SendItem, Returns, CallerGoes
  <2>4. UNCHANGED <<useCache, dataCache, cached, acked, expired, misread>>
    BY <1>3 DEF SendItem, cacheVars, historyVars
  <2>5. QED
    BY <2>1, <2>2, <2>3, <2>4
<1>4. CASE EraseItem(c)
  BY <1>4 DEF EraseItem, EraseFromCache, Returns, historyVars
<1>5. QED
  BY <1>1, <1>2, <1>3, <1>4 DEF SendData

LEMMA AddedSendData ==
  ASSUME TypeInv, Added, NEW c \in Callers, SendData(c)
  PROVE  Added'
<1>1. useCache' = useCache /\ cached \subseteq cached'
  BY DEF SendData, CacheItem, AddToCache, GetItem, GetItemAgain, SendItem,
         EraseItem, deliveryVars, cacheVars, historyVars
<1>2. useCache => item[c] \in cached'
  <2>1. CASE CacheItem(c)
    BY <2>1 DEF CacheItem, AddToCache
  <2>2. CASE ~CacheItem(c)
    <3>1. callerPc[c] \notin {"idle", "cache"}
      BY <2>2
         DEF SendData, GetItem, GetItemAgain, SendItem, EraseItem, CallerGoes,
             Returns
    <3>2. QED
      BY <1>1, <3>1 DEF Added
  <2>3. QED
    BY <2>1, <2>2
<1> DEFINE OnlyOwn ==
            /\ accepted' \subseteq accepted \cup {item[c]}
            /\ \A d \in Callers : d # c => item'[d] = item[d] /\ callerPc'[d] = callerPc[d]
            /\ item'[c] = item[c] \/ callerPc'[c] = "idle"
<1>3. OnlyOwn
  <2>1. \/ \E from, to \in CallerStates : CallerGoes(c, from, to)
        \/ \E from \in CallerStates, ok \in BOOLEAN : Returns(c, from, ok)
    BY DEF SendData, CacheItem, GetItem, GetItemAgain, SendItem, EraseItem,
           CallerStates
  <2>2. ASSUME NEW from \in CallerStates, NEW to \in CallerStates,
               CallerGoes(c, from, to)
        PROVE  OnlyOwn
    BY <2>2 DEF CallerGoes, TypeInv, TypeOK, LoggerTypeOK
  <2>3. ASSUME NEW from \in CallerStates, NEW ok \in BOOLEAN,
               Returns(c, from, ok)
        PROVE  OnlyOwn
    BY <2>3 DEF Returns, TypeInv, TypeOK, LoggerTypeOK
  <2>4. QED
    BY <2>1, <2>2, <2>3
<1>4. QED
  BY <1>1, <1>2, <1>3 DEF Added

LEMMA AnswersSendData ==
  ASSUME TypeInv, Answers, NEW c \in Callers, SendData(c)
  PROVE  Answers'
<1>1. Added'
  BY AddedSendData DEF Answers
<1>2. CASE CacheItem(c) /\ useCache
  <2>1. /\ dataCache' = dataCache \cup {item[c]}
        /\ cached' = cached \cup {item[c]}
        /\ UNCHANGED <<acked, expired, misread, refused>>
    BY <1>2 DEF CacheItem, AddToCache, CallerGoes
  <2>2. item[c] \notin refused
    BY DEF TypeInv, Numbered
  <2>3. QED
    BY <1>1, <2>1, <2>2 DEF Answers, Retained, RefusedNotKept
<1>3. CASE ~(CacheItem(c) /\ useCache)
  BY <1>1, <1>3, SendDataCache DEF Answers, Retained, RefusedNotKept
<1>4. QED
  BY <1>2, <1>3

LEMMA AnswersHangs ==
  ASSUME TypeInv, Answers, NEW c \in Callers, SendItemHangs(c)
  PROVE  Answers'
<1>1. /\ UNCHANGED <<useCache, dataCache, cached, acked, expired, misread>>
      /\ UNCHANGED <<item, accepted, refused>>
  BY SendItemHangsKeeps DEF cacheVars, historyVars
<1>2. \A d \in Callers : callerPc'[d] \notin {"idle", "cache"} =>
                            callerPc[d] \notin {"idle", "cache"}
  BY SendItemHangsKeeps DEF TypeInv, TypeOK, LoggerTypeOK
<1>3. QED
  BY <1>1, <1>2 DEF Answers, Added, Retained, RefusedNotKept

LEMMA AnswersSendDjson ==
  ASSUME TypeInv, Answers, NEW c \in Callers, SendDjson(c)
  PROVE  Answers'
<1>1. PICK tag \in Tags : CallStarts(c, tag)
  BY DEF SendDjson
<1>2. /\ UNCHANGED <<useCache, dataCache, cached, acked, expired, misread>>
      /\ UNCHANGED <<accepted, refused>>
  BY <1>1
     DEF CallStarts, StartReaderAndResender, deliveryVars, cacheVars,
         historyVars
<1>3. \A d \in Callers : \/ callerPc'[d] = "cache"
                           \/ (callerPc'[d] = callerPc[d] /\ item'[d] = item[d])
  BY <1>1 DEF CallStarts, TypeInv, TypeOK, LoggerTypeOK
<1>4. QED
  BY <1>2, <1>3 DEF Answers, Added, Retained, RefusedNotKept

LEMMA AnswersThreads ==
  ASSUME TypeInv, AcksTrue, Answers, ThreadsAndTime
  PROVE  Answers'
<1>1. UNCHANGED <<callerPc, item, accepted, refused>>
  BY ThreadsStep DEF loggerVars, callerVars
<1>2. /\ dataCache' \subseteq dataCache
      /\ UNCHANGED <<useCache, cached>>
      /\ acked \subseteq acked' /\ expired \subseteq expired'
      /\ misread \subseteq misread'
      /\ dataCache \ dataCache' \subseteq acked \cup expired' \cup misread'
  BY ThreadsStep, CacheLosses DEF TypeInv, TypeOK
<1>3. QED
  BY <1>1, <1>2 DEF Answers, Added, Retained, RefusedNotKept

LEMMA AnswersUnchanged ==
  ASSUME Answers,
         UNCHANGED <<useCache, dataCache, historyVars, callerVars>>
  PROVE  Answers'
  BY DEF Answers, Added, Retained, RefusedNotKept, historyVars, callerVars

LEMMA DestroyKeeps ==
  ASSUME Destroy \/ Destructor
  PROVE  /\ UNCHANGED <<useCache, dataCache, historyVars, callerVars, lines>>
         /\ toClient' \in {toClient, <<>>}
  BY
     DEF Destroy, StopClient, DropConnection, LoseConnection, Destructor,
         DestroyResender,
         DestroyReader, Join, LoggerGoes, deliveryVars, cacheVars, connVars,
         readerVars

LEMMA AcksStep ==
  ASSUME TypeInv, AcksTrue, [Next]_vars
  PROVE  AcksTrue'
<1>1. ASSUME NEW c \in Callers, SendDjson(c) \/ SendData(c)
      PROVE  AcksTrue'
  <2>1. toClient' \in {toClient, <<>>}
    BY <1>1
       DEF SendDjson, CallStarts, StartReaderAndResender, SendData, CacheItem,
           GetItem, GetItemAgain, SendItem, EraseItem, deliveryVars, connVars,
           Written, NotWritten, DropConnection, LoseConnection
  <2>2. UNCHANGED <<lines, acked>>
    BY <1>1
       DEF SendDjson, CallStarts, StartReaderAndResender, SendData, CacheItem,
           AddToCache, GetItem, GetItemAgain, SendItem, EraseItem,
           deliveryVars, readerVars, historyVars
  <2>3. QED
    BY <2>1, <2>2, AcksOthers
<1>2. CASE Destroy \/ Destructor
  BY <1>2, DestroyKeeps, AcksOthers DEF historyVars
<1>3. CASE ThreadsAndTime
  BY <1>3, ThreadsStep, AcksDelivery DEF TypeInv, TypeOK
<1>4. CASE UNCHANGED vars
  BY <1>4, AcksOthers
     DEF vars, deliveryVars, connVars, readerVars, historyVars
<1>5. ASSUME NEW c \in Callers, SendItemHangs(c)
      PROVE  AcksTrue'
  BY <1>5, SendItemHangsKeeps, AcksOthers
     DEF LoseConnection, readerVars, historyVars
<1>6. QED
  BY <1>1, <1>2, <1>3, <1>4, <1>5, NextSteps

(* Nothing travels that was not cached: a caller sends its own item, which  *)
(* it has added.                                                            *)
LEMMA FlowSendData ==
  ASSUME TypeInv, Added, DeliveryFlow, NEW c \in Callers, SendData(c)
  PROVE  DeliveryFlow'
<1> USE FlowParts
<1>1. UNCHANGED <<useCache, cacheBak, cacheCopy, lines>>
  BY DEF SendData, CacheItem, GetItem, GetItemAgain, SendItem, EraseItem,
         deliveryVars, cacheVars, readerVars, resenderVars
<1>2. CASE CacheItem(c) /\ useCache
  <2>1. /\ dataCache' = dataCache \cup {item[c]}
        /\ cached' = cached \cup {item[c]}
        /\ UNCHANGED <<toServer, toClient>>
    BY <1>2 DEF CacheItem, AddToCache, connVars
  <2>2. QED
    BY <1>1, <2>1, TravellingUnchanged, FlowByParts
<1>3. CASE SendItem(c)
  <2>1. UNCHANGED <<dataCache, cached>>
    BY <1>3 DEF SendItem, cacheVars, historyVars
  <2>2. item[c] \in Tags /\ ConnTypeOK /\ (useCache => item[c] \in cached)
    BY <1>3
       DEF SendItem, Returns, CallerGoes, Added, TypeInv, TypeOK,
           LoggerTypeOK,
           DeliveryTypeOK
  <2>3. Travelling' \subseteq Travelling \cup {item[c]}
    BY <1>1, <1>3, <2>2, TravellingWritten, TravellingDropped
       DEF SendItem, NotWritten, DropConnection
  <2>4. QED
    BY <1>1, <2>1, <2>2, <2>3, FlowByParts
<1>4. CASE ~(CacheItem(c) /\ useCache) /\ ~SendItem(c)
  <2>1. UNCHANGED <<toServer, toClient>>
    BY <1>4
       DEF SendData, CacheItem, GetItem, GetItemAgain, EraseItem,
           deliveryVars, connVars
  <2>2. UNCHANGED cached /\ dataCache' \subseteq dataCache
    BY <1>4, SendDataCache
  <2>3. QED
    BY <1>1, <2>1, <2>2, TravellingUnchanged, FlowByParts
<1>5. QED
  BY <1>2, <1>3, <1>4

LEMMA FlowStep ==
  ASSUME TypeInv, Added, DeliveryFlow, [Next]_vars
  PROVE  DeliveryFlow'
<1> USE FlowParts
<1>1. ASSUME NEW c \in Callers, SendDjson(c)
      PROVE  DeliveryFlow'
  <2>1. UNCHANGED <<useCache, dataCache, cacheBak, cacheCopy, cached, lines,
                    toServer, toClient>>
    BY <1>1
       DEF SendDjson, CallStarts, StartReaderAndResender, deliveryVars,
           cacheVars, connVars, readerVars, resenderVars, historyVars
  <2>2. QED
    BY <2>1, TravellingUnchanged, FlowByParts
<1>2. CASE Destroy \/ Destructor
  <2>1. UNCHANGED <<useCache, dataCache, cacheBak, cacheCopy, cached, lines>>
    BY <1>2
       DEF Destroy, StopClient, Destructor, DestroyResender, DestroyReader,
           Join, deliveryVars, cacheVars, readerVars, resenderVars,
           historyVars
  <2>2. Travelling' \subseteq Travelling
    BY <1>2, <2>1, TravellingUnchanged, TravellingDropped
       DEF Destroy, StopClient, DropConnection, Destructor, DestroyResender,
           DestroyReader, Join, deliveryVars, connVars
  <2>3. QED
    BY <2>1, <2>2, FlowByParts
<1>3. CASE ThreadsAndTime
  BY <1>3, ThreadsStep, FlowDelivery DEF TypeInv, TypeOK
<1>4. CASE UNCHANGED vars
  <2>1. UNCHANGED <<useCache, dataCache, cacheBak, cacheCopy, cached, lines,
                    toServer, toClient>>
    BY <1>4
       DEF vars, deliveryVars, cacheVars, connVars, readerVars, resenderVars,
           historyVars
  <2>2. QED
    BY <2>1, TravellingUnchanged, FlowByParts
<1>5. ASSUME NEW c \in Callers, SendItemHangs(c)
      PROVE  DeliveryFlow'
  <2>1. UNCHANGED <<useCache, dataCache, cacheBak, cacheCopy, cached, lines>>
    BY <1>5, SendItemHangsKeeps
       DEF cacheVars, readerVars, resenderVars, historyVars
  <2>2. Travelling' \subseteq Travelling
    BY <1>5, <2>1, SendItemHangsKeeps, TravellingUnchanged, TravellingDropped
  <2>3. QED
    BY <2>1, <2>2, FlowByParts
<1>6. QED
  BY <1>1, <1>2, <1>3, <1>4, <1>5, NextSteps, FlowSendData

(* Without a cache nothing is ever cached, with one whatever mdsd           *)
(* acknowledges was.                                                        *)
LEMMA AckedStep ==
  ASSUME TypeInv, AcksTrue, AckedWereCached, DeliveryFlow, [Next]_vars
  PROVE  AckedWereCached'
<1>1. ASSUME NEW c \in Callers, SendDjson(c) \/ SendData(c)
      PROVE  /\ UNCHANGED <<useCache, acked>>
             /\ cached \subseteq cached' /\ (~useCache => cached' = cached)
  BY <1>1
     DEF SendDjson, CallStarts, StartReaderAndResender, SendData, CacheItem,
         AddToCache, GetItem, GetItemAgain, SendItem, EraseItem,
         deliveryVars, cacheVars, historyVars
<1>2. CASE Destroy \/ Destructor
  BY <1>2, DestroyKeeps DEF historyVars, AckedWereCached
<1>3. CASE ThreadsAndTime
  BY <1>3, ThreadsStep, EffectOfThreads, AckedThreads DEF TypeInv, TypeOK
<1>4. CASE UNCHANGED vars
  BY <1>4 DEF vars, deliveryVars, cacheVars, historyVars, AckedWereCached
<1>5. ASSUME NEW c \in Callers, SendItemHangs(c)
      PROVE  AckedWereCached'
  BY <1>5, SendItemHangsKeeps DEF cacheVars, historyVars, AckedWereCached
<1>6. QED
  BY <1>1, <1>2, <1>3, <1>4, <1>5, NextSteps DEF AckedWereCached

LEMMA IInvInit == Init => IInv
<1> SUFFICES ASSUME Init PROVE IInv
  OBVIOUS
<1>1. AcksTrue /\ AckedWereCached
  BY AckedInit DEF Init, DeliveryInit, AcksTrue
<1>2. Answers
  BY DEF Init, DeliveryInit, Answers, Added, Retained, RefusedNotKept
<1>3. QED
  BY <1>1, <1>2, InitType, FlowInit DEF IInv, Init

LEMMA IInvStep == IInv /\ [Next]_vars => IInv'
<1> SUFFICES ASSUME IInv, [Next]_vars PROVE IInv'
  OBVIOUS
<1> USE DEF IInv
<1>1. TypeInv' /\ AcksTrue' /\ AckedWereCached'
  BY TypeStep, AcksStep, AckedStep
<1>2. Answers'
  <2>1. CASE UNCHANGED vars
    BY <2>1, AnswersUnchanged
       DEF vars, deliveryVars, loggerVars, cacheVars
  <2>2. CASE Destroy \/ Destructor
    BY <2>2, DestroyKeeps, AnswersUnchanged
  <2>3. QED
    BY <2>1, <2>2, NextSteps, AnswersSendDjson, AnswersSendData, AnswersHangs,
       AnswersThreads
<1>3. DeliveryFlow'
  BY FlowStep DEF Answers
<1>4. QED
  BY <1>1, <1>2, <1>3

LEMMA IInvHolds == Spec => []IInv
  BY IInvInit, IInvStep, PTL DEF Spec

(* With a cache, an item for which SendDjson returned true (SocketLogger.cc: *)
(* 125) is in the cache, or was acknowledged, too old, or taken for another,*)
(* whatever other callers, threads and mdsd do.                             *)
THEOREM AcceptedIsKeptHolds == Spec => []AcceptedIsKept
<1>1. IInv => AcceptedIsKept
  BY DEF IInv, Answers, Added, Retained, TypeInv, TypeOK, LoggerTypeOK,
         AcceptedIsKept
<1>2. QED
  BY <1>1, IInvHolds, PTL

(* An item for which it returned false, and which its caller writes again,  *)
(* is not in the cache (SocketLogger.cc:99).                                *)
THEOREM RefusedNotKeptHolds == Spec => []RefusedNotKept
<1>1. IInv => RefusedNotKept
  BY DEF IInv, Answers
<1>2. QED
  BY <1>1, IInvHolds, PTL

(* With a cache, nothing travels to mdsd, comes back or waits to be resent  *)
(* that was not added first: SocketLogger.cc:80-93.                         *)
THEOREM CachedBeforeSentHolds == Spec => []CachedBeforeSent
<1>1. IInv => CachedBeforeSent
  BY DEF IInv, DeliveryFlow
<1>2. QED
  BY <1>1, IInvHolds, PTL

(* No step of a caller, the reader or the resender puts an item back that   *)
(* was in the cache before: SocketLogger.cc:88, DataResender.cc:126.        *)
THEOREM ErasedStaysErasedHolds == Spec => ErasedStaysErased
<1>1. IInv /\ [Next]_vars => dataCache' \cap cached \subseteq dataCache
  <2> SUFFICES ASSUME IInv, [Next]_vars
               PROVE  dataCache' \cap cached \subseteq dataCache
    OBVIOUS
  <2> USE DEF IInv
  <2>1. ASSUME NEW c \in Callers, SendDjson(c)
        PROVE  dataCache' = dataCache
    BY <2>1
       DEF SendDjson, CallStarts, StartReaderAndResender, deliveryVars,
           cacheVars
  <2>2. ASSUME NEW c \in Callers, SendData(c)
        PROVE  dataCache' \cap cached \subseteq dataCache
    <3>1. CASE CacheItem(c) /\ useCache
      <4>1. dataCache' = dataCache \cup {item[c]} /\ callerPc[c] = "cache"
        BY <3>1 DEF CacheItem, AddToCache, CallerGoes
      <4>2. item[c] \notin cached
        BY <4>1 DEF TypeInv, Numbered
      <4>3. QED
        BY <4>1, <4>2
    <3>2. CASE ~(CacheItem(c) /\ useCache)
      BY <2>2, <3>2, SendDataCache
    <3>3. QED
      BY <3>1, <3>2
  <2>3. CASE Destroy \/ Destructor
    BY <2>3, DestroyKeeps
  <2>4. CASE ThreadsAndTime
    BY <2>4, ThreadsStep, CacheLosses DEF TypeInv, TypeOK
  <2>5. CASE UNCHANGED vars
    BY <2>5 DEF vars, deliveryVars, cacheVars
  <2>6. ASSUME NEW c \in Callers, SendItemHangs(c)
        PROVE  dataCache' = dataCache
    BY <2>6, SendItemHangsKeeps DEF cacheVars
  <2>7. QED
    BY <2>1, <2>2, <2>3, <2>4, <2>5, <2>6, NextSteps
<1>2. QED
  BY <1>1, IInvHolds, PTL DEF Spec, ErasedStaysErased

------------------------------------------------------------------------------
(* The promise. *)

LEMMA PromiseThreads ==
  ASSUME IInv, Effect, UNCHANGED <<useCache, cached, accepted, refused>>
  PROVE  [Promise!PromiseNext]_(Promise!promiseVars)
<1> USE DEF Promise!promiseVars, Promise!PromiseNext
<1>1. dataCache \subseteq cached /\ AckedWereCached
  BY FlowParts DEF IInv
<1>2. CASE UNCHANGED <<dataCache, acked, expired, misread>>
  BY <1>2
<1>3. ASSUME NEW tag \in Tags, Acknowledged(tag)
      PROVE  [Promise!PromiseNext]_(Promise!promiseVars)
  <2>1. CASE useCache
    <3>1. tag \in cached /\ (acked \cap cached)' = (acked \cap cached) \cup {tag}
      BY <1>3, <2>1 DEF Acknowledged
    <3>2. Promise!Acknowledge(tag)
      BY <1>3, <3>1 DEF Acknowledged, Promise!Acknowledge
    <3>3. QED
      BY <3>2
  <2>2. CASE ~useCache
    BY <1>1, <1>3, <2>2 DEF Acknowledged, AckedWereCached
  <2>3. QED
    BY <2>1, <2>2
<1>4. ASSUME NEW tag \in Tags, LetGo(tag)
      PROVE  [Promise!PromiseNext]_(Promise!promiseVars)
  <2>1. Promise!LetGo(tag)
    BY <1>1, <1>4 DEF LetGo, Promise!LetGo
  <2>2. QED
    BY <2>1
<1>5. ASSUME NEW tag \in Tags, Mistaken(tag)
      PROVE  [Promise!PromiseNext]_(Promise!promiseVars)
  <2>1. Promise!Mistake(tag)
    BY <1>5 DEF Mistaken, Promise!Mistake
  <2>2. QED
    BY <2>1
<1>6. ASSUME NEW tags \in SUBSET dataCache, Outdated(tags)
      PROVE  [Promise!PromiseNext]_(Promise!promiseVars)
  <2>1. Promise!Expire(tags)
    BY <1>6 DEF Outdated, Promise!Expire
  <2>2. QED
    BY <2>1
<1>7. QED
  BY <1>2, <1>3, <1>4, <1>5, <1>6 DEF Effect

(* A step of a caller takes its item, answers for it, or does not show; and *)
(* an answer of "false" comes with the item out of the cache.               *)
LEMMA PromiseSendData ==
  ASSUME IInv, NEW c \in Callers, SendData(c)
  PROVE  [Promise!PromiseNext]_(Promise!promiseVars)
<1> USE DEF Promise!promiseVars, Promise!PromiseNext
<1>1. /\ TypeOK /\ AckedWereCached /\ Added /\ Numbered
      /\ dataCache \subseteq cached
  BY FlowParts DEF IInv, TypeInv, Answers
<1>2. CASE CacheItem(c) /\ useCache
  <2>1. /\ dataCache' = dataCache \cup {item[c]}
        /\ cached' = cached \cup {item[c]}
        /\ UNCHANGED <<acked, expired, misread, accepted, refused>>
        /\ callerPc[c] = "cache"
    BY <1>2 DEF CacheItem, AddToCache, CallerGoes
  <2>2. item[c] \in Tags /\ item[c] \notin cached \cup accepted \cup refused
    BY <1>1, <2>1 DEF TypeOK, LoggerTypeOK, Numbered, NoItem
  <2>3. UNCHANGED <<acked \cap cached, accepted \cap cached, refused \cap cached>>
    BY <1>1, <1>2, <2>1, <2>2 DEF AckedWereCached
  <2>4. Promise!Take(item[c])
    BY <2>1, <2>2, <2>3 DEF Promise!Take
  <2>5. QED
    BY <2>2, <2>4
<1>3. CASE ~useCache
  <2>1. cached = {} /\ dataCache = {}
    BY <1>1, <1>3 DEF AckedWereCached
  <2>2. UNCHANGED <<dataCache, cached, expired, misread>>
    BY <1>3, <2>1
       DEF SendData, CacheItem, GetItem, GetItemAgain, SendItem, EraseItem,
           EraseFromCache, deliveryVars, cacheVars, historyVars
  <2>3. QED
    BY <2>1, <2>2
<1>4. ASSUME useCache, NEW from \in CallerStates, callerPc[c] = from,
             from \notin {"idle", "cache"}
      PROVE  /\ item[c] \in Tags \cap cached
             /\ item[c] \notin accepted \cup refused
  BY <1>1, <1>4 DEF TypeOK, LoggerTypeOK, Added, Numbered
<1>5. ASSUME useCache, NEW from \in {"get", "erase"}, Returns(c, from, FALSE),
             dataCache' = dataCache \ {item[c]},
             UNCHANGED <<cached, acked, expired, misread>>
      PROVE  Promise!Refuse(item[c]) /\ item[c] \in Tags
  <2>1. /\ callerPc[c] = from /\ accepted' = accepted
        /\ refused' = refused \cup {item[c]}
    BY <1>5 DEF Returns
  <2>2. /\ item[c] \in Tags \cap cached
        /\ item[c] \notin accepted \cup refused
    BY <1>4, <1>5, <2>1 DEF CallerStates
  <2>3. /\ (refused \cap cached)' = (refused \cap cached) \cup {item[c]}
        /\ UNCHANGED <<accepted \cap cached, acked \cap cached>>
    BY <1>5, <2>1, <2>2
  <2>4. QED
    BY <1>5, <2>2, <2>3 DEF Promise!Refuse, Promise!Unanswered
<1>6. CASE useCache /\ GetItem(c)
  <2>1. UNCHANGED <<dataCache, cached, acked, expired, misread>>
    BY <1>6 DEF GetItem, deliveryVars, cacheVars, historyVars
  <2>2. CASE item[c] \in dataCache
    <3>1. UNCHANGED <<accepted, refused>>
      BY <1>6, <2>2 DEF GetItem, CallerGoes
    <3>2. QED
      BY <2>1, <3>1
  <2>3. CASE item[c] \notin dataCache
    <3>1. Returns(c, "get", FALSE) /\ dataCache' = dataCache \ {item[c]}
      BY <1>6, <2>1, <2>3 DEF GetItem
    <3>2. QED
      BY <1>5, <1>6, <2>1, <3>1
  <2>4. QED
    BY <2>2, <2>3
<1>7. CASE useCache /\ GetItemAgain(c)
  BY <1>7 DEF GetItemAgain, CallerGoes, deliveryVars, cacheVars, historyVars
<1>8. CASE useCache /\ SendItem(c)
  <2>1. UNCHANGED <<dataCache, cached, acked, expired, misread>>
    BY <1>8 DEF SendItem, cacheVars, historyVars
  <2>2. CASE Returns(c, "send", TRUE)
    <3>1. /\ callerPc[c] = "send" /\ refused' = refused
          /\ accepted' = accepted \cup {item[c]}
      BY <2>2 DEF Returns
    <3>2. /\ item[c] \in Tags \cap cached
          /\ item[c] \notin accepted \cup refused
      BY <1>4, <1>8, <3>1 DEF CallerStates
    <3>3. /\ (accepted \cap cached)' = (accepted \cap cached) \cup {item[c]}
          /\ UNCHANGED <<refused \cap cached, acked \cap cached>>
      BY <2>1, <3>1, <3>2
    <3>4. Promise!Accept(item[c])
      BY <2>1, <3>2, <3>3 DEF Promise!Accept, Promise!Unanswered
    <3>5. QED
      BY <3>2, <3>4
  <2>3. CASE CallerGoes(c, "send", "erase")
    BY <2>1, <2>3 DEF CallerGoes
  <2>4. QED
    BY <1>8, <2>2, <2>3 DEF SendItem
<1>9. CASE useCache /\ EraseItem(c)
  <2>1. /\ Returns(c, "erase", FALSE) /\ dataCache' = dataCache \ {item[c]}
        /\ UNCHANGED <<cached, acked, expired, misread>>
    BY <1>9 DEF EraseItem, EraseFromCache, historyVars
  <2>2. QED
    BY <1>5, <1>9, <2>1
<1>10. QED
  BY <1>2, <1>3, <1>6, <1>7, <1>8, <1>9 DEF SendData

LEMMA PromiseStep == IInv /\ [Next]_vars => [Promise!PromiseNext]_(Promise!promiseVars)
<1> SUFFICES ASSUME IInv, [Next]_vars
             PROVE  [Promise!PromiseNext]_(Promise!promiseVars)
  OBVIOUS
<1>1. ASSUME NEW c \in Callers, SendDjson(c)
      PROVE  UNCHANGED <<historyVars, dataCache, accepted, refused>>
  BY <1>1
     DEF SendDjson, CallStarts, StartReaderAndResender, deliveryVars,
         cacheVars
<1>2. CASE Destroy \/ Destructor
  BY <1>2, DestroyKeeps DEF historyVars, callerVars, Promise!promiseVars
<1>3. CASE ThreadsAndTime
  <2>1. Effect /\ UNCHANGED <<useCache, cached>>
    BY <1>3, ThreadsStep, EffectOfThreads DEF IInv, TypeInv, TypeOK
  <2>2. UNCHANGED <<accepted, refused>>
    BY <1>3, ThreadsStep DEF loggerVars, callerVars
  <2>3. QED
    BY <2>1, <2>2, PromiseThreads
<1>4. CASE UNCHANGED vars
  BY <1>4
     DEF vars, deliveryVars, loggerVars, callerVars, cacheVars, historyVars,
         Promise!promiseVars
<1>5. ASSUME NEW c \in Callers, SendItemHangs(c)
      PROVE  UNCHANGED <<historyVars, dataCache, accepted, refused>>
  BY <1>5, SendItemHangsKeeps DEF cacheVars
<1>6. QED
  BY <1>1, <1>2, <1>3, <1>4, <1>5, NextSteps, PromiseSendData
     DEF historyVars, Promise!promiseVars

(* SocketLogger implements DeliveryPromise, for any number of callers and   *)
(* items: SendData (SocketLogger.cc:65) takes each item once and answers    *)
(* for it once, "false" only with the item out of the cache; and an item is *)
(* let go of only for an ack, its age, another's ack misread, or "false".   *)
THEOREM KeepsItsPromiseHolds == Spec => KeepsItsPromise
<1>1. Init => Promise!PromiseInit
  BY DEF Init, DeliveryInit, Promise!PromiseInit
<1>2. QED
  BY <1>1, PromiseStep, IInvHolds, PTL
     DEF Spec, KeepsItsPromise, Promise!PromiseSpec

------------------------------------------------------------------------------
(* What "true" is worth when no connection ends inside an ack. *)

LEMMA WholeStep ==
  ASSUME TypeOK, WholeLines, [Next]_vars, [~CutOff]_vars
  PROVE  WholeLines'
<1>1. CASE UNCHANGED vars
  BY <1>1, WholeUnchanged
     DEF vars, deliveryVars, connVars, readerVars, historyVars
<1> SUFFICES ASSUME ~CutOff
             PROVE  WholeLines'
  BY <1>1
<1>2. ASSUME NEW c \in Callers, SendDjson(c)
      PROVE  WholeLines'
  BY <1>2, WholeUnchanged
     DEF SendDjson, CallStarts, StartReaderAndResender, deliveryVars,
         connVars,
         readerVars, historyVars
<1>3. ASSUME NEW c \in Callers, SendData(c)
      PROVE  WholeLines'
  <2>1. UNCHANGED <<lines, misread>>
    BY <1>3
       DEF SendData, CacheItem, AddToCache, GetItem, GetItemAgain, SendItem,
           EraseItem, deliveryVars, readerVars, historyVars
  <2>2. UNCHANGED stale
    BY <1>3, DropsWhole
       DEF SendData, CacheItem, GetItem, GetItemAgain, SendItem, EraseItem,
           deliveryVars, connVars, Written, NotWritten, DropConnection
  <2>3. QED
    BY <2>1, <2>2, WholeUnchanged
<1>4. CASE Destroy \/ Destructor
  <2>1. UNCHANGED <<lines, misread>>
    BY <1>4, DestroyKeeps DEF historyVars
  <2>2. UNCHANGED stale
    BY <1>4, DropsWhole
       DEF Destroy, StopClient, DropConnection, Destructor, DestroyResender,
           DestroyReader, Join, deliveryVars, connVars
  <2>3. QED
    BY <2>1, <2>2, WholeUnchanged
<1>5. CASE ThreadsAndTime
  BY <1>5, ThreadsStep, WholeDelivery DEF TypeOK
<1>6. ASSUME NEW c \in Callers, SendItemHangs(c)
      PROVE  WholeLines'
  BY <1>6, SendItemHangsKeeps, DropsWhole, WholeUnchanged
     DEF readerVars, historyVars
<1>7. QED
  BY <1>1, <1>2, <1>3, <1>4, <1>5, <1>6, NextSteps

(* As long as no connection ends while DataReader has part of a line of it, *)
(* an item for which SendDjson returned true is kept until mdsd itself      *)
(* acknowledges it or it gets too old.                                      *)
KeptForItsCaller == useCache => accepted \subseteq dataCache \cup acked \cup expired

THEOREM KeptUnlessCutOff == Spec /\ [][~CutOff]_vars => []KeptForItsCaller
<1>1. Init => WholeLines
  BY WholeInit DEF Init
<1>2. IInv /\ WholeLines /\ [Next]_vars /\ [~CutOff]_vars => WholeLines'
  BY WholeStep DEF IInv, TypeInv
<1>3. IInv /\ WholeLines => KeptForItsCaller
  BY DEF IInv, Answers, Added, Retained, TypeInv, TypeOK, LoggerTypeOK,
         WholeLines, KeptForItsCaller
<1>4. QED
  BY <1>1, <1>2, <1>3, IInvHolds, PTL DEF Spec
==============================================================================
