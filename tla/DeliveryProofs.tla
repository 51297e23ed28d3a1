---------------------------- MODULE DeliveryProofs ----------------------------
(***************************************************************************)
(* What every logger's proofs need of Delivery: each step of the reader,   *)
(* the resender, mdsd and time keeps the types and the shape of the data.  *)
(***************************************************************************)
EXTENDS Delivery, TLAPS

------------------------------------------------------------------------------
(* Sequences. *)

LEMMA AppendElement ==
  ASSUME NEW S, NEW s \in Seq(S), NEW x \in S
  PROVE  /\ Append(s, x) \in Seq(S)
         /\ Len(Append(s, x)) = Len(s) + 1
         /\ Append(s, x) # <<>>
         /\ DOMAIN Append(s, x) = 1..(Len(s) + 1)
         /\ \A i \in 1..Len(s) : Append(s, x)[i] = s[i]
         /\ Append(s, x)[Len(s) + 1] = x
  OBVIOUS

LEMMA TailElement ==
  ASSUME NEW S, NEW s \in Seq(S), s # <<>>
  PROVE  /\ Tail(s) \in Seq(S)
         /\ Head(s) \in S
         /\ Head(s) = s[1]
         /\ Len(s) \in Nat \ {0}
         /\ Len(Tail(s)) = Len(s) - 1
         /\ DOMAIN Tail(s) = 1..(Len(s) - 1)
         /\ \A i \in 1..(Len(s) - 1) : Tail(s)[i] = s[i + 1]
  OBVIOUS

LEMMA RestOfSequence ==
  ASSUME NEW S, NEW s \in Seq(S), NEW n \in 0..Len(s)
  PROVE  /\ SubSeq(s, n + 1, Len(s)) \in Seq(S)
         /\ Len(SubSeq(s, n + 1, Len(s))) = Len(s) - n
         /\ \A i \in 1..(Len(s) - n) : SubSeq(s, n + 1, Len(s))[i] = s[n + i]
  OBVIOUS

LEMMA FunctionIsSequence ==
  ASSUME NEW S, NEW n \in Nat, NEW f \in [1..n -> S]
  PROVE  f \in Seq(S) /\ Len(f) = n
  OBVIOUS

------------------------------------------------------------------------------
(* Whatever is appended to left-over text, the result is a tag or junk.     *)
LEMMA SpliceType == \A text, tag : Splice(text, tag) \in Texts
  BY DEF Splice, Texts

LEMMA FirstPartsType == FirstParts(toClient[1].tag) \subseteq Texts
  BY SpliceType DEF FirstParts, Texts

------------------------------------------------------------------------------
(* The types of this module, as a logger's own steps leave them. *)

LEMMA DeliveryInitType == DeliveryInit => DeliveryTypeOK
<1> SUFFICES ASSUME DeliveryInit PROVE DeliveryTypeOK
  OBVIOUS
<1>1. ConnTypeOK
  <2>1. /\ conn = "none" /\ cut = FALSE /\ stale = NoText
        /\ toServer = <<>> /\ toClient = <<>> /\ sendHung = FALSE
    BY DEF DeliveryInit
  <2>2. toServer \in Seq(Tags) /\ toClient \in Seq(Acks)
    BY <2>1
  <2>3. Len(toServer) <= SockBuf /\ Len(toClient) <= SockBuf
    BY <2>1, SockBufAssumption DEF SockBufAssumption
  <2>4. QED
    BY <2>1, <2>2, <2>3 DEF ConnTypeOK, Texts
<1>2. CacheTypeOK
  BY CacheModesAssumption
     DEF DeliveryInit, CacheTypeOK, CacheModesAssumption
<1>3. ReaderTypeOK /\ ResenderTypeOK /\ StopTypeOK /\ HistoryTypeOK
  <2>1. lines = <<>> /\ readerPc = "none"
    BY DEF DeliveryInit
  <2>2. ReaderTypeOK
    BY <2>1 DEF ReaderTypeOK
  <2>3. ResenderTypeOK /\ StopTypeOK /\ HistoryTypeOK
    BY DEF DeliveryInit, ResenderTypeOK, StopTypeOK, HistoryTypeOK
  <2>4. QED
    BY <2>2, <2>3
<1>4. QED
  BY <1>1, <1>2, <1>3 DEF DeliveryTypeOK

LEMMA DeliveryUnchanged ==
  ASSUME DeliveryTypeOK, UNCHANGED deliveryVars
  PROVE  DeliveryTypeOK'
  BY DEF DeliveryTypeOK, CacheTypeOK, ConnTypeOK, ReaderTypeOK,
         ResenderTypeOK, StopTypeOK, HistoryTypeOK, deliveryVars, cacheVars,
         connVars, readerVars, resenderVars, stopVars, historyVars

(* The fields that a step of a logger's own threads may change.             *)
LEMMA DeliveryByParts ==
  ASSUME DeliveryTypeOK, ConnTypeOK', CacheTypeOK', HistoryTypeOK',
         StopTypeOK', UNCHANGED <<readerVars, resenderVars>>
  PROVE  DeliveryTypeOK'
  BY
     DEF DeliveryTypeOK, ReaderTypeOK, ResenderTypeOK, readerVars,
         resenderVars

------------------------------------------------------------------------------
(* The connection. *)

LEMMA LoseConnectionType ==
  ASSUME ConnTypeOK, LoseConnection, sendHung' \in BOOLEAN
  PROVE  ConnTypeOK'
<1>1. stale' \in Texts
  BY FirstPartsType DEF ConnTypeOK, LoseConnection
<1>2. toServer' \in Seq(Tags) /\ toClient' \in Seq(Acks)
  BY DEF LoseConnection
<1>3. Len(toServer') <= SockBuf /\ Len(toClient') <= SockBuf
  BY SockBufAssumption DEF LoseConnection, SockBufAssumption
<1>4. QED
  BY <1>1, <1>2, <1>3 DEF ConnTypeOK, LoseConnection

LEMMA DropConnectionType ==
  ASSUME ConnTypeOK, DropConnection
  PROVE  ConnTypeOK'
<1>1. sendHung' \in BOOLEAN
  BY DEF DropConnection, ConnTypeOK
<1>2. QED
  BY <1>1, LoseConnectionType DEF DropConnection

LEMMA NeverReturnsType ==
  ASSUME ConnTypeOK, NeverReturns
  PROVE  ConnTypeOK'
<1>1. CASE PollsNothing
  BY <1>1, LoseConnectionType DEF PollsNothing
<1>2. CASE WaitsForever
  BY <1>2 DEF WaitsForever, ConnTypeOK
<1>3. QED
  BY <1>1, <1>2 DEF NeverReturns

\* what a Send, or a Read, that never returns does to the data on their way
LEMMA NeverReturnsLeaves ==
  ASSUME NeverReturns
  PROVE  LoseConnection \/ UNCHANGED <<toServer, toClient, cut, stale>>
  BY DEF NeverReturns, PollsNothing, WaitsForever

LEMMA HangsLeave ==
  ASSUME Hangs
  PROVE  /\ UNCHANGED <<cacheVars, lines, cacheBak, cacheCopy, stopVars,
                        historyVars>>
         /\ LoseConnection \/ UNCHANGED <<toServer, toClient, cut, stale>>
  BY NeverReturnsLeaves
     DEF Hangs, ReaderHangs, ResenderHangs, DropConnection, readerVars,
         resenderVars

LEMMA WrittenType ==
  ASSUME ConnTypeOK, NEW tag \in Tags, Written(tag)
  PROVE  ConnTypeOK'
  BY SockBufAssumption DEF ConnTypeOK, Written, SockBufAssumption

LEMMA ServerType == ConnTypeOK /\ Server => ConnTypeOK'
<1> SUFFICES ASSUME ConnTypeOK, Server
             PROVE  ConnTypeOK'
  OBVIOUS
<1> USE DEF ConnTypeOK
<1>1. CASE HangUp
  BY <1>1, SockBufAssumption DEF HangUp, SockBufAssumption
<1>2. CASE Ignore
  BY <1>2, SockBufAssumption DEF Ignore, SockBufAssumption
<1>3. ASSUME NEW ok \in AckStatuses, Acknowledge(ok)
      PROVE  ConnTypeOK'
  <2>1. [tag |-> Head(toServer), ok |-> ok] \in Acks
    BY <1>3, AckStatusesAssumption
       DEF Acknowledge, AckStatusesAssumption, Acks
  <2>2. /\ toClient' \in Seq(Acks)
        /\ toClient' # <<>>
        /\ Len(toClient') = Len(toClient) + 1
    BY <1>3, <2>1, AppendElement DEF Acknowledge
  <2>3. /\ toServer' \in Seq(Tags)
        /\ Len(toServer') <= SockBuf
    BY <1>3, SockBufAssumption DEF Acknowledge, SockBufAssumption
  <2>4. Len(toClient') <= SockBuf
    BY <1>3, <2>2, SockBufAssumption DEF Acknowledge, SockBufAssumption
  <2>5. QED
    BY <1>3, <2>2, <2>3, <2>4 DEF Acknowledge
<1>4. QED
  BY <1>1, <1>2, <1>3 DEF Server, ServerReads

------------------------------------------------------------------------------
(* The reader. *)

LEMMA ReaderReadType ==
  ASSUME ConnTypeOK, ReaderTypeOK, ReaderRead
  PROVE  ConnTypeOK' /\ ReaderTypeOK'
<1>1. PICK n \in 0..Len(toClient), more \in ReadSplits :
         /\ more => n < Len(toClient)
         /\ n > 0 \/ (more /\ ~cut)
         /\ toClient' = SubSeq(toClient, n + 1, Len(toClient))
         /\ cut' = more
         /\ lines' = [i \in 1..n |->
                        [text |-> Splice(IF i = 1 THEN stale ELSE NoText,
                                         toClient[i].tag),
                         ok |-> toClient[i].ok,
                         of |-> toClient[i].tag]]
         /\ stale' = IF n > 0 THEN NoText ELSE stale
         /\ readerPc' = IF n > 0 THEN "got" ELSE "read"
  BY DEF ReaderRead
<1>2. /\ toClient \in Seq(Acks) /\ Len(toClient) \in Nat
      /\ n \in Nat
  BY DEF ConnTypeOK
<1>3. /\ toClient' \in Seq(Acks)
      /\ Len(toClient') = Len(toClient) - n
  BY <1>1, <1>2, RestOfSequence
<1>4. cut' \in BOOLEAN /\ (cut' => toClient' # <<>>)
  <2>1. cut' => Len(toClient') > 0
    BY <1>1, <1>2, <1>3
  <2>2. cut' \in BOOLEAN
    BY <1>1, ReadSplitsAssumption DEF ReadSplitsAssumption
  <2>3. Len(toClient') > 0 => toClient' # <<>>
    OBVIOUS
  <2>4. QED
    BY <2>1, <2>2, <2>3
<1>5. ConnTypeOK'
  <2>1. stale' \in Texts
    BY <1>1 DEF ConnTypeOK, Texts
  <2>2. Len(toClient') <= SockBuf
    BY <1>2, <1>3, SockBufAssumption DEF ConnTypeOK, SockBufAssumption
  <2>3. QED
    BY <1>3, <1>4, <2>1, <2>2 DEF ConnTypeOK, ReaderRead
<1>6. ReaderTypeOK'
  <2>1. \A i \in 1..n : toClient[i] \in Acks
    BY <1>2
  <2>2. lines' \in [1..n -> Lines]
    BY <1>1, <2>1, SpliceType DEF Acks, Lines
  <2>3. lines' \in Seq(Lines) /\ Len(lines') = n
    BY <1>2, <2>2, FunctionIsSequence
  <2>4. lines' # <<>> <=> n > 0
    BY <1>2, <2>3
  <2>5. QED
    BY <1>1, <2>3, <2>4 DEF ReaderTypeOK
<1>7. QED
  BY <1>5, <1>6

LEMMA ReaderProcessType ==
  ASSUME CacheTypeOK, ReaderTypeOK, HistoryTypeOK, ReaderProcess
  PROVE  CacheTypeOK' /\ ReaderTypeOK' /\ HistoryTypeOK'
<1>1. lines # <<>> /\ lines \in Seq(Lines)
  BY DEF ReaderTypeOK, ReaderProcess
<1>2. /\ Tail(lines) \in Seq(Lines)
      /\ Tail(lines) = <<>> <=> Len(lines) = 1
  <2>1. /\ Tail(lines) \in Seq(Lines)
        /\ Len(lines) \in Nat
        /\ Len(Tail(lines)) = Len(lines) - 1
    BY <1>1, TailElement
  <2>2. QED
    BY <2>1
<1>3. ReaderTypeOK'
  BY <1>2 DEF ReaderTypeOK, ReaderProcess
<1>4. CacheTypeOK'
  BY DEF EraseFromCache, CacheTypeOK, ReaderProcess
<1>5. HistoryTypeOK'
  BY DEF HistoryTypeOK, CacheTypeOK, ReaderProcess
<1>6. QED
  BY <1>3, <1>4, <1>5

LEMMA ReaderType ==
  ASSUME DeliveryTypeOK, Reader
  PROVE  DeliveryTypeOK'
<1> USE DEF DeliveryTypeOK
<1>1. CASE ReaderRead
  <2>1. ConnTypeOK' /\ ReaderTypeOK'
    BY <1>1, ReaderReadType
  <2>2. QED
    BY <1>1, <2>1
       DEF ReaderRead, cacheVars, resenderVars, stopVars, historyVars,
           CacheTypeOK, ResenderTypeOK, StopTypeOK, HistoryTypeOK
<1>2. CASE ReaderClose
  <2>1. ConnTypeOK'
    BY <1>2, DropConnectionType DEF ReaderClose
  <2>2. QED
    BY <1>2, <2>1
       DEF ReaderClose, cacheVars, readerVars, resenderVars, stopVars,
           historyVars, CacheTypeOK, ReaderTypeOK, ResenderTypeOK, StopTypeOK,
           HistoryTypeOK
<1>3. CASE ReaderProcess
  <2>1. CacheTypeOK' /\ ReaderTypeOK' /\ HistoryTypeOK'
    BY <1>3, ReaderProcessType
  <2>2. QED
    BY <1>3, <2>1
       DEF ReaderProcess, connVars, resenderVars, stopVars, ConnTypeOK,
           ResenderTypeOK, StopTypeOK
<1>4. CASE ReaderExit
  <2>1. ReaderTypeOK'
    BY <1>4 DEF ReaderTypeOK, ReaderExit
  <2>2. QED
    BY <1>4, <2>1
       DEF ReaderExit, cacheVars, connVars, resenderVars, stopVars,
           historyVars, CacheTypeOK, ConnTypeOK, ResenderTypeOK, StopTypeOK,
           HistoryTypeOK
<1>5. QED
  BY <1>1, <1>2, <1>3, <1>4 DEF Reader

------------------------------------------------------------------------------
(* The resender. *)

LEMMA ResenderType ==
  ASSUME DeliveryTypeOK, Resender
  PROVE  DeliveryTypeOK'
<1> USE DEF DeliveryTypeOK
<1>1. CASE ResenderTimer
  <2>1. ResenderTypeOK'
    BY <1>1 DEF ResenderTypeOK, CacheTypeOK, ResenderTimer
  <2>2. QED
    BY <1>1, <2>1
       DEF ResenderTimer, cacheVars, connVars, readerVars, stopVars,
           historyVars, CacheTypeOK, ConnTypeOK, ReaderTypeOK, StopTypeOK,
           HistoryTypeOK
<1>2. CASE ResenderErase
  <2>1. ResenderTypeOK'
    BY <1>2 DEF ResenderTypeOK, ResenderErase
  <2>2. CacheTypeOK'
    BY <1>2 DEF EraseFromCache, CacheTypeOK, ResenderErase
  <2>3. HistoryTypeOK'
    BY <1>2 DEF HistoryTypeOK, ResenderTypeOK, ResenderErase
  <2>4. QED
    BY <1>2, <2>1, <2>2, <2>3
       DEF ResenderErase, connVars, readerVars, stopVars, ConnTypeOK,
           ReaderTypeOK, StopTypeOK
<1>3. CASE ResenderCopy
  <2>1. ResenderTypeOK'
    BY <1>3 DEF ResenderTypeOK, CacheTypeOK, ResenderCopy
  <2>2. QED
    BY <1>3, <2>1
       DEF ResenderCopy, cacheVars, connVars, readerVars, stopVars,
           historyVars, CacheTypeOK, ConnTypeOK, ReaderTypeOK, StopTypeOK,
           HistoryTypeOK
<1>4. CASE ResenderSend
  <2>1. PICK tag \in cacheCopy : Written(tag) /\ cacheCopy' = cacheCopy \ {tag}
    BY <1>4 DEF ResenderSend
  <2>2. ConnTypeOK'
    BY <2>1, WrittenType DEF ResenderTypeOK
  <2>3. ResenderTypeOK'
    BY <1>4, <2>1 DEF ResenderTypeOK, ResenderSend
  <2>4. QED
    BY <1>4, <2>2, <2>3
       DEF ResenderSend, cacheVars, readerVars, stopVars, historyVars,
           CacheTypeOK, ReaderTypeOK, StopTypeOK, HistoryTypeOK
<1>5. CASE ResenderRoundEnd
  <2>1. ConnTypeOK'
    <3>1. CASE UNCHANGED connVars
      BY <3>1 DEF connVars, ConnTypeOK
    <3>2. CASE NotWritten
      BY <3>2, DropConnectionType DEF NotWritten
    <3>3. QED
      BY <1>5, <3>1, <3>2 DEF ResenderRoundEnd
  <2>2. ResenderTypeOK'
    BY <1>5 DEF ResenderTypeOK, ResenderRoundEnd
  <2>3. QED
    BY <1>5, <2>1, <2>2
       DEF ResenderRoundEnd, cacheVars, readerVars, stopVars, historyVars,
           CacheTypeOK, ReaderTypeOK, StopTypeOK, HistoryTypeOK
<1>6. CASE ResenderThrows
  <2>1. ResenderTypeOK'
    BY <1>6 DEF ResenderTypeOK, ResenderThrows
  <2>2. QED
    BY <1>6, <2>1
       DEF ResenderThrows, cacheVars, connVars, readerVars, stopVars,
           historyVars, CacheTypeOK, ConnTypeOK, ReaderTypeOK, StopTypeOK,
           HistoryTypeOK
<1>7. CASE ResenderExit
  <2>1. ResenderTypeOK'
    BY <1>7 DEF ResenderTypeOK, ResenderExit
  <2>2. QED
    BY <1>7, <2>1
       DEF ResenderExit, cacheVars, connVars, readerVars, stopVars,
           historyVars, CacheTypeOK, ConnTypeOK, ReaderTypeOK, StopTypeOK,
           HistoryTypeOK
<1>8. QED
  BY <1>1, <1>2, <1>3, <1>4, <1>5, <1>6, <1>7 DEF Resender

LEMMA HangsType ==
  ASSUME DeliveryTypeOK, Hangs
  PROVE  DeliveryTypeOK'
<1> USE DEF DeliveryTypeOK
<1>1. UNCHANGED <<cacheVars, stopVars, historyVars>>
  BY HangsLeave
<1>2. CASE ReaderHangs
  <2>1. ConnTypeOK'
    BY <1>2, DropConnectionType DEF ReaderHangs
  <2>2. ReaderTypeOK' /\ ResenderTypeOK'
    BY <1>2
       DEF ReaderHangs, resenderVars, cacheVars, CacheTypeOK, ReaderTypeOK,
           ResenderTypeOK
  <2>3. QED
    BY <1>1, <2>1, <2>2
       DEF cacheVars, stopVars, historyVars, CacheTypeOK, StopTypeOK,
           HistoryTypeOK
<1>3. CASE ResenderHangs
  <2>1. ConnTypeOK'
    BY <1>3, NeverReturnsType DEF ResenderHangs
  <2>2. ReaderTypeOK' /\ ResenderTypeOK'
    BY <1>3
       DEF ResenderHangs, readerVars, cacheVars, CacheTypeOK, ReaderTypeOK,
           ResenderTypeOK
  <2>3. QED
    BY <1>1, <2>1, <2>2
       DEF cacheVars, stopVars, historyVars, CacheTypeOK, StopTypeOK,
           HistoryTypeOK
<1>4. QED
  BY <1>2, <1>3 DEF Hangs

------------------------------------------------------------------------------
(* mdsd, time, and a late Close. *)

LEMMA EnvironmentType ==
  ASSUME DeliveryTypeOK,
         Server \/ LateClose \/ \E tag \in Tags : Age(tag)
  PROVE  DeliveryTypeOK'
<1> USE DEF DeliveryTypeOK
<1>1. CASE Server
  <2>1. ConnTypeOK'
    BY <1>1, ServerType
  <2>2. HistoryTypeOK'
    <3>1. toServer # <<>> => Head(toServer) \in Tags
      BY TailElement DEF ConnTypeOK
    <3>2. QED
      BY <1>1, <3>1
         DEF Server, ServerReads, HangUp, Ignore, Acknowledge, historyVars,
             HistoryTypeOK
  <2>3. UNCHANGED <<cacheVars, readerVars, resenderVars, stopVars>>
    BY <1>1 DEF Server, ServerReads, HangUp, Ignore, Acknowledge
  <2>4. QED
    BY <2>1, <2>2, <2>3
       DEF cacheVars, readerVars, resenderVars, stopVars, CacheTypeOK,
           ReaderTypeOK, ResenderTypeOK, StopTypeOK
<1>2. CASE LateClose
  <2>1. ConnTypeOK'
    BY <1>2, DropConnectionType DEF LateClose
  <2>2. QED
    BY <1>2, <2>1
       DEF LateClose, cacheVars, readerVars, resenderVars, stopVars,
           historyVars, CacheTypeOK, ReaderTypeOK, ResenderTypeOK, StopTypeOK,
           HistoryTypeOK
<1>3. ASSUME NEW tag \in Tags, Age(tag)
      PROVE  DeliveryTypeOK'
  <2>1. CacheTypeOK'
    BY <1>3 DEF CacheTypeOK, Age
  <2>2. QED
    BY <1>3, <2>1
       DEF Age, connVars, readerVars, resenderVars, stopVars, historyVars,
           ConnTypeOK, ReaderTypeOK, ResenderTypeOK, StopTypeOK, HistoryTypeOK
<1>4. QED
  BY <1>1, <1>2, <1>3

------------------------------------------------------------------------------
(* Acks on their way. *)

(* An ack of success that travels or was read is one that mdsd gave.        *)
AcksTrue ==
    /\ \A i \in DOMAIN toClient : toClient[i].ok => toClient[i].tag \in acked
    /\ \A i \in DOMAIN lines : lines[i].ok => lines[i].of \in acked

(* A read moves acks, tags and statuses, from the socket into lines.        *)
LEMMA ReadMoves ==
  ASSUME ConnTypeOK, ReaderRead
  PROVE  /\ \A i \in DOMAIN toClient' : \E j \in DOMAIN toClient :
              toClient'[i] = toClient[j]
         /\ \A i \in DOMAIN lines' : \E j \in DOMAIN toClient :
              lines'[i].ok = toClient[j].ok /\ lines'[i].of = toClient[j].tag
<1>1. PICK n \in 0..Len(toClient) :
         /\ toClient' = SubSeq(toClient, n + 1, Len(toClient))
         /\ lines' = [i \in 1..n |->
                        [text |-> Splice(IF i = 1 THEN stale ELSE NoText,
                                         toClient[i].tag),
                         ok |-> toClient[i].ok,
                         of |-> toClient[i].tag]]
  BY DEF ReaderRead
<1>2. /\ toClient \in Seq(Acks)
      /\ DOMAIN toClient = 1..Len(toClient)
      /\ Len(toClient) \in Nat
  BY DEF ConnTypeOK
<1>3. /\ toClient' \in Seq(Acks)
      /\ Len(toClient') = Len(toClient) - n
      /\ \A i \in 1..(Len(toClient) - n) : toClient'[i] = toClient[n + i]
  BY <1>1, <1>2, RestOfSequence
<1>4. ASSUME NEW i \in DOMAIN toClient'
      PROVE  \E j \in DOMAIN toClient : toClient'[i] = toClient[j]
  <2>1. i \in 1..(Len(toClient) - n)
    BY <1>3, <1>4
  <2>2. n + i \in DOMAIN toClient
    BY <1>2, <2>1
  <2>3. QED
    BY <1>3, <2>1, <2>2
<1>5. ASSUME NEW i \in DOMAIN lines'
      PROVE  \E j \in DOMAIN toClient :
               lines'[i].ok = toClient[j].ok /\ lines'[i].of = toClient[j].tag
  <2>1. i \in 1..n
    BY <1>1
  <2>2. i \in DOMAIN toClient
    BY <1>2, <2>1
  <2>3. QED
    BY <1>1, <2>1, <2>2
<1>6. QED
  BY <1>4, <1>5

(* The lines left after the first one.                                      *)
LEMMA LinesLeft ==
  ASSUME ReaderTypeOK, ReaderProcess
  PROVE  \A i \in DOMAIN lines' : \E j \in DOMAIN lines : lines'[i] = lines[j]
<1>1. lines \in Seq(Lines) /\ lines # <<>> /\ lines' = Tail(lines)
  BY DEF ReaderTypeOK, ReaderProcess
<1>2. /\ DOMAIN lines = 1..Len(lines) /\ Len(lines) \in Nat
      /\ DOMAIN lines' = 1..(Len(lines) - 1)
      /\ \A i \in 1..(Len(lines) - 1) : lines'[i] = lines[i + 1]
  BY <1>1, TailElement
<1>3. ASSUME NEW i \in DOMAIN lines'
      PROVE  \E j \in DOMAIN lines : lines'[i] = lines[j]
  <2>1. i \in 1..(Len(lines) - 1) /\ i + 1 \in DOMAIN lines
    BY <1>2
  <2>2. QED
    BY <1>2, <2>1
<1>4. QED
  BY <1>3

LEMMA AcksReader ==
  ASSUME DeliveryTypeOK, AcksTrue, Reader
  PROVE  AcksTrue'
<1>1. ConnTypeOK /\ ReaderTypeOK /\ acked' = acked
  BY DEF DeliveryTypeOK, Reader, ReaderRead, ReaderClose,
         ReaderProcess, ReaderExit, historyVars
<1>2. CASE ReaderRead
  BY <1>1, <1>2, ReadMoves DEF AcksTrue
<1>3. CASE ReaderClose
  BY <1>1, <1>3
     DEF ReaderClose, DropConnection, LoseConnection, readerVars, AcksTrue
<1>4. CASE ReaderProcess
  <2>1. toClient' = toClient
    BY <1>4 DEF ReaderProcess, connVars
  <2>2. QED
    BY <1>1, <1>4, <2>1, LinesLeft DEF AcksTrue
<1>5. CASE ReaderExit
  BY <1>1, <1>5 DEF ReaderExit, connVars, AcksTrue
<1>6. QED
  BY <1>2, <1>3, <1>4, <1>5 DEF Reader

LEMMA AcksServer ==
  ASSUME DeliveryTypeOK, AcksTrue, Server
  PROVE  AcksTrue'
<1>1. CASE HangUp \/ Ignore
  BY <1>1 DEF HangUp, Ignore, readerVars, historyVars, AcksTrue
<1>2. ASSUME NEW ok \in AckStatuses, Acknowledge(ok)
      PROVE  AcksTrue'
  <2> DEFINE ack == [tag |-> Head(toServer), ok |-> ok]
  <2>1. toClient \in Seq(Acks) /\ DOMAIN toClient = 1..Len(toClient)
    BY DEF DeliveryTypeOK, ConnTypeOK
  <2>2. ack \in Acks
    BY <1>2, TailElement, AckStatusesAssumption
       DEF DeliveryTypeOK, ConnTypeOK, Acknowledge,
           AckStatusesAssumption, Acks
  <2>3. /\ DOMAIN toClient' = 1..(Len(toClient) + 1)
        /\ \A i \in 1..Len(toClient) : toClient'[i] = toClient[i]
        /\ toClient'[Len(toClient) + 1] = ack
    BY <1>2, <2>1, <2>2, AppendElement DEF Acknowledge
  <2>4. acked \subseteq acked' /\ (ok => Head(toServer) \in acked') /\ lines' = lines
    BY <1>2 DEF Acknowledge, readerVars
  <2>5. ASSUME NEW i \in DOMAIN toClient', toClient'[i].ok
        PROVE  toClient'[i].tag \in acked'
    <3>1. CASE i \in 1..Len(toClient)
      BY <2>1, <2>3, <2>4, <2>5, <3>1 DEF AcksTrue
    <3>2. CASE i = Len(toClient) + 1
      BY <2>3, <2>4, <2>5, <3>2
    <3>3. Len(toClient) \in Nat
      BY <2>1
    <3>4. QED
      BY <2>3, <2>5, <3>1, <3>2, <3>3
  <2>6. QED
    BY <2>4, <2>5 DEF AcksTrue
<1>3. QED
  BY <1>1, <1>2 DEF Server, ServerReads

------------------------------------------------------------------------------
(* The cache loses an item only for an ack, for its age, or for the ack of  *)
(* another item that was misread, whoever takes it out.                     *)
LEMMA CacheLosses ==
  ASSUME DeliveryTypeOK, AcksTrue,
         \/ Reader \/ Resender \/ Hangs \/ Server \/ LateClose
         \/ \E tag \in Tags : Age(tag)
  PROVE  /\ dataCache' \subseteq dataCache
         /\ UNCHANGED <<useCache, cached>>
         /\ acked \subseteq acked' /\ expired \subseteq expired'
         /\ misread \subseteq misread'
         /\ dataCache \ dataCache' \subseteq acked \cup expired' \cup misread'
<1>1. CASE ReaderProcess
  <2>1. lines \in Seq(Lines) /\ lines # <<>>
    BY <1>1 DEF ReaderProcess, DeliveryTypeOK, ReaderTypeOK
  <2>2. 1 \in DOMAIN lines /\ Head(lines) = lines[1]
    BY <2>1, TailElement
  <2>3. Head(lines).ok => Head(lines).of \in acked
    BY <2>2 DEF AcksTrue
  <2>4. QED
    BY <1>1, <2>3 DEF EraseFromCache, ReaderProcess
<1>2. CASE ReaderRead \/ ReaderClose \/ ReaderExit
  BY <1>2
     DEF ReaderRead, ReaderClose, ReaderExit, cacheVars, historyVars
<1>3. CASE Resender
  BY <1>3
     DEF EraseFromCache, Resender, ResenderTimer, ResenderErase, ResenderCopy,
         ResenderSend, ResenderRoundEnd, ResenderThrows, ResenderExit,
         cacheVars, historyVars
<1>4. CASE Server
  BY <1>4
     DEF Server, ServerReads, HangUp, Ignore, Acknowledge, cacheVars,
         historyVars
<1>5. CASE LateClose \/ \E tag \in Tags : Age(tag)
  BY <1>5 DEF LateClose, Age, cacheVars, historyVars
<1>6. CASE Hangs
  BY <1>6, HangsLeave DEF cacheVars, historyVars
<1>7. QED
  BY <1>1, <1>2, <1>3, <1>4, <1>5, <1>6 DEF Reader

LEMMA AcksOthers ==
  ASSUME AcksTrue, toClient' \in {toClient, <<>>}, UNCHANGED <<lines, acked>>
  PROVE  AcksTrue'
  BY DEF AcksTrue

LEMMA AcksDelivery ==
  ASSUME DeliveryTypeOK, AcksTrue,
         \/ Reader \/ Resender \/ Hangs \/ Server \/ LateClose
         \/ \E tag \in Tags : Age(tag)
  PROVE  AcksTrue'
<1>1. CASE Resender
  <2>1. toClient' \in {toClient, <<>>}
    BY <1>1
       DEF Resender, ResenderTimer, ResenderErase, ResenderCopy, ResenderSend,
           ResenderRoundEnd, ResenderThrows, ResenderExit, connVars,
           Written, NotWritten,
           DropConnection, LoseConnection
  <2>2. UNCHANGED <<lines, acked>>
    BY <1>1
       DEF Resender, ResenderTimer, ResenderErase, ResenderCopy, ResenderSend,
           ResenderRoundEnd, ResenderThrows, ResenderExit, readerVars,
           historyVars
  <2>3. QED
    BY <2>1, <2>2, AcksOthers
<1>2. CASE LateClose \/ \E tag \in Tags : Age(tag)
  BY <1>2, AcksOthers
     DEF LateClose, DropConnection, LoseConnection, Age, connVars,
         readerVars, historyVars
<1>3. CASE Hangs
  BY <1>3, HangsLeave, AcksOthers DEF LoseConnection, historyVars
<1>4. QED
  BY <1>1, <1>2, <1>3, AcksReader, AcksServer

------------------------------------------------------------------------------
(* Elements of sequences. *)

LEMMA ElementsOfEmpty == Elements(<<>>) = {} /\ TagsIn(<<>>) = {}
  BY DEF Elements, TagsIn

LEMMA ElementsOfAppend ==
  ASSUME NEW S, NEW s \in Seq(S), NEW x \in S
  PROVE  Elements(Append(s, x)) = Elements(s) \cup {x}
<1>1. DOMAIN s = 1..Len(s) /\ Len(s) \in Nat
  OBVIOUS
<1>2. QED
  BY <1>1, AppendElement DEF Elements

LEMMA ElementsOfTail ==
  ASSUME NEW S, NEW s \in Seq(S), s # <<>>
  PROVE  Elements(s) = {Head(s)} \cup Elements(Tail(s))
<1>1. DOMAIN s = 1..Len(s) /\ Len(s) \in Nat \ {0}
  BY TailElement
<1>2. Elements(Tail(s)) \subseteq Elements(s)
  BY <1>1, TailElement DEF Elements
<1>3. Head(s) \in Elements(s)
  BY <1>1, TailElement DEF Elements
<1>4. ASSUME NEW x \in Elements(s), x # Head(s)
      PROVE  x \in Elements(Tail(s))
  <2>1. PICK i \in 1..Len(s) : x = s[i]
    BY <1>1 DEF Elements
  <2>2. i # 1
    BY <1>4, <2>1, TailElement
  <2>3. i - 1 \in 1..(Len(s) - 1) /\ Tail(s)[i - 1] = s[i]
    BY <1>1, <2>1, <2>2, TailElement
  <2>4. QED
    BY <2>1, <2>3, TailElement DEF Elements
<1>5. QED
  BY <1>2, <1>3, <1>4

LEMMA TagsOfAppend ==
  ASSUME NEW acks \in Seq(Acks), NEW ack \in Acks
  PROVE  TagsIn(Append(acks, ack)) = TagsIn(acks) \cup {ack.tag}
<1>1. DOMAIN acks = 1..Len(acks) /\ Len(acks) \in Nat
  OBVIOUS
<1>2. QED
  BY <1>1, AppendElement DEF TagsIn

------------------------------------------------------------------------------
(* What the steps of the connection do to the tags in it. *)

LEMMA WrittenElements ==
  ASSUME ConnTypeOK, NEW tag \in Tags, Written(tag)
  PROVE  Elements(toServer') = Elements(toServer) \cup {tag} /\ UNCHANGED toClient
  BY ElementsOfAppend DEF ConnTypeOK, Written

LEMMA AcknowledgeElements ==
  ASSUME ConnTypeOK, NEW ok \in AckStatuses, Acknowledge(ok)
  PROVE  /\ Elements(toServer) = {Head(toServer)} \cup Elements(toServer')
         /\ TagsIn(toClient') = TagsIn(toClient) \cup {Head(toServer)}
<1>1. toServer \in Seq(Tags) /\ toServer # <<>> /\ toClient \in Seq(Acks)
  BY DEF ConnTypeOK, Acknowledge
<1>2. Head(toServer) \in Tags
  BY <1>1, TailElement
<1>3. [tag |-> Head(toServer), ok |-> ok] \in Acks
  BY <1>2, AckStatusesAssumption DEF AckStatusesAssumption, Acks
<1>4. QED
  BY <1>1, <1>3, ElementsOfTail, TagsOfAppend DEF Acknowledge

LEMMA IgnoreElements ==
  ASSUME ConnTypeOK, Ignore
  PROVE  Elements(toServer) = {Head(toServer)} \cup Elements(toServer')
  BY ElementsOfTail DEF ConnTypeOK, Ignore

------------------------------------------------------------------------------
(* Whatever the resender copied, or travels to mdsd and back, was put into  *)
(* the cache before.                                                        *)
DeliveryFlow ==
    /\ dataCache \cup cacheBak \cup cacheCopy \subseteq cached
    /\ CachedBeforeSent

LEMMA FlowParts ==
  ASSUME DeliveryFlow
  PROVE  /\ dataCache \subseteq cached /\ cacheBak \subseteq cached
         /\ cacheCopy \subseteq cached
         /\ useCache => Travelling \subseteq cached
  BY DEF DeliveryFlow, CachedBeforeSent

LEMMA FlowByParts ==
  ASSUME dataCache' \subseteq cached', cacheBak' \subseteq cached',
         cacheCopy' \subseteq cached', useCache' => Travelling' \subseteq cached'
  PROVE  DeliveryFlow'
  BY DEF DeliveryFlow, CachedBeforeSent

LEMMA FlowInit == DeliveryInit => DeliveryFlow
<1> SUFFICES ASSUME DeliveryInit PROVE DeliveryFlow
  OBVIOUS
<1>1. {lines[i].of : i \in DOMAIN lines} = {}
  BY DEF DeliveryInit
<1>2. Travelling = {}
  BY <1>1, ElementsOfEmpty DEF DeliveryInit, Travelling
<1>3. QED
  BY <1>2 DEF DeliveryInit, DeliveryFlow, CachedBeforeSent

LEMMA TravellingUnchanged ==
  UNCHANGED <<toServer, toClient, lines>> => UNCHANGED Travelling
  BY DEF Travelling, Elements, TagsIn

LEMMA TravellingDropped ==
  ASSUME LoseConnection, UNCHANGED lines
  PROVE  Travelling' \subseteq Travelling
  BY ElementsOfEmpty DEF LoseConnection, Travelling

LEMMA TravellingWritten ==
  ASSUME ConnTypeOK, NEW tag \in Tags, Written(tag), UNCHANGED lines
  PROVE  Travelling' \subseteq Travelling \cup {tag}
<1>1. TagsIn(toClient') = TagsIn(toClient)
  BY WrittenElements DEF TagsIn
<1>2. QED
  BY <1>1, WrittenElements DEF Travelling

LEMMA TravellingRead ==
  ASSUME DeliveryTypeOK, ReaderRead
  PROVE  Travelling' \subseteq Travelling
<1>1. ConnTypeOK
  BY DEF DeliveryTypeOK
<1>2. TagsIn(toClient') \subseteq TagsIn(toClient)
  BY <1>1, ReadMoves DEF TagsIn
<1>3. {lines'[i].of : i \in DOMAIN lines'} \subseteq TagsIn(toClient)
  BY <1>1, ReadMoves DEF TagsIn
<1>4. Elements(toServer') = Elements(toServer)
  BY DEF ReaderRead, Elements
<1>5. QED
  BY <1>2, <1>3, <1>4 DEF Travelling

LEMMA TravellingReader ==
  ASSUME DeliveryTypeOK, Reader
  PROVE  Travelling' \subseteq Travelling
<1>1. CASE ReaderRead
  BY <1>1, TravellingRead
<1>2. CASE ReaderClose
  BY <1>2, TravellingDropped DEF ReaderClose, DropConnection, readerVars
<1>3. CASE ReaderProcess
  <2>1. {lines'[i].of : i \in DOMAIN lines'} \subseteq {lines[i].of : i \in DOMAIN lines}
    BY <1>3, LinesLeft DEF DeliveryTypeOK
  <2>2. UNCHANGED <<toServer, toClient>>
    BY <1>3 DEF ReaderProcess, connVars
  <2>3. QED
    BY <2>1, <2>2 DEF Travelling, Elements, TagsIn
<1>4. CASE ReaderExit
  <2>1. lines' = <<>> /\ UNCHANGED <<toServer, toClient>>
    BY <1>4 DEF ReaderExit, connVars
  <2>2. {lines'[i].of : i \in DOMAIN lines'} = {}
    BY <2>1
  <2>3. QED
    BY <2>1, <2>2 DEF Travelling, Elements, TagsIn
<1>5. QED
  BY <1>1, <1>2, <1>3, <1>4 DEF Reader

LEMMA TravellingServer ==
  ASSUME DeliveryTypeOK, Server
  PROVE  Travelling' \subseteq Travelling
<1>1. ConnTypeOK /\ UNCHANGED lines
  BY DEF DeliveryTypeOK, Server, ServerReads, HangUp, Ignore,
         Acknowledge, readerVars
<1>2. {lines'[i].of : i \in DOMAIN lines'} = {lines[i].of : i \in DOMAIN lines}
  BY <1>1
<1>3. CASE HangUp
  <2>1. Elements(toServer') = {} /\ TagsIn(toClient') = TagsIn(toClient)
    BY <1>3, ElementsOfEmpty DEF HangUp, TagsIn
  <2>2. QED
    BY <1>2, <2>1 DEF Travelling
<1>4. CASE Ignore
  <2>1. TagsIn(toClient') = TagsIn(toClient)
    BY <1>4 DEF Ignore, TagsIn
  <2>2. QED
    BY <1>1, <1>2, <1>4, <2>1, IgnoreElements DEF Travelling
<1>5. ASSUME NEW ok \in AckStatuses, Acknowledge(ok)
      PROVE  Travelling' \subseteq Travelling
  BY <1>1, <1>2, <1>5, AcknowledgeElements DEF Travelling
<1>6. QED
  BY <1>3, <1>4, <1>5 DEF Server, ServerReads

LEMMA FlowResender ==
  ASSUME DeliveryTypeOK, DeliveryFlow, Resender
  PROVE  /\ dataCache' \cup cacheBak' \cup cacheCopy' \subseteq cached'
         /\ useCache' = useCache /\ cached' = cached
         /\ useCache => Travelling' \subseteq cached
<1> USE FlowParts
<1>1. useCache' = useCache /\ cached' = cached
  BY DEF Resender, ResenderTimer, ResenderErase, ResenderCopy, ResenderSend,
         ResenderRoundEnd, ResenderThrows, ResenderExit, cacheVars,
         historyVars
<1>2. dataCache' \subseteq cached
  BY
     DEF EraseFromCache, Resender, ResenderTimer, ResenderErase,
         ResenderCopy, ResenderSend,
         ResenderRoundEnd, ResenderThrows, ResenderExit, cacheVars
<1>3. cacheBak' \subseteq cached
  BY DEF Resender, ResenderTimer, ResenderErase, ResenderCopy, ResenderSend,
         ResenderRoundEnd, ResenderThrows, ResenderExit
<1>4. cacheCopy' \subseteq cached
  BY DEF Resender, ResenderTimer, ResenderErase, ResenderCopy, ResenderSend,
         ResenderRoundEnd, ResenderThrows, ResenderExit
<1>5. useCache => Travelling' \subseteq cached
  <2>1. UNCHANGED lines
    BY DEF Resender, ResenderTimer, ResenderErase, ResenderCopy, ResenderSend,
           ResenderRoundEnd, ResenderThrows, ResenderExit, readerVars
  <2>2. CASE ResenderSend
    <3>1. PICK tag \in cacheCopy : Written(tag)
      BY <2>2 DEF ResenderSend
    <3>2. tag \in Tags /\ ConnTypeOK
      BY DEF DeliveryTypeOK, ResenderTypeOK
    <3>3. QED
      BY <2>1, <3>1, <3>2, TravellingWritten
  <2>3. CASE ~ResenderSend
    BY <2>1, <2>3, TravellingUnchanged, TravellingDropped
       DEF Resender, ResenderTimer, ResenderErase, ResenderCopy,
           ResenderRoundEnd, ResenderThrows, ResenderExit, NotWritten,
           DropConnection, connVars
  <2>4. QED
    BY <2>2, <2>3
<1>6. QED
  BY <1>1, <1>2, <1>3, <1>4, <1>5

LEMMA FlowOthers ==
  ASSUME DeliveryTypeOK,
         Reader \/ Hangs \/ Server \/ LateClose \/ \E tag \in Tags : Age(tag)
  PROVE  /\ dataCache' \subseteq dataCache
         /\ UNCHANGED <<useCache, cached, cacheBak, cacheCopy>>
         /\ Travelling' \subseteq Travelling
<1>1. CASE Reader
  BY <1>1, TravellingReader
     DEF EraseFromCache, Reader, ReaderRead, ReaderClose, ReaderProcess,
         ReaderExit,
         cacheVars, resenderVars, historyVars
<1>2. CASE Server
  BY <1>2, TravellingServer
     DEF Server, ServerReads, HangUp, Ignore, Acknowledge, cacheVars,
         resenderVars, historyVars
<1>3. CASE LateClose
  BY <1>3, TravellingDropped
     DEF LateClose, DropConnection, cacheVars, resenderVars, historyVars,
         readerVars
<1>4. ASSUME NEW tag \in Tags, Age(tag)
      PROVE  /\ dataCache' \subseteq dataCache
             /\ UNCHANGED <<useCache, cached, cacheBak, cacheCopy>>
             /\ Travelling' \subseteq Travelling
  <2>1. UNCHANGED <<toServer, toClient, lines>>
    BY <1>4 DEF Age, connVars, readerVars
  <2>2. QED
    BY <1>4, <2>1, TravellingUnchanged DEF Age, resenderVars, historyVars
<1>5. CASE Hangs
  BY <1>5, HangsLeave, TravellingDropped, TravellingUnchanged
     DEF cacheVars, historyVars
<1>6. QED
  BY <1>1, <1>2, <1>3, <1>4, <1>5

LEMMA FlowDelivery ==
  ASSUME DeliveryTypeOK, DeliveryFlow,
         \/ Reader \/ Resender \/ Hangs \/ Server \/ LateClose
         \/ \E tag \in Tags : Age(tag)
  PROVE  DeliveryFlow'
<1>1. CASE Resender
  BY <1>1, FlowResender, FlowByParts
<1>2. CASE \/ Reader \/ Hangs \/ Server \/ LateClose
           \/ \E tag \in Tags : Age(tag)
  BY <1>2, FlowOthers, FlowParts, FlowByParts
<1>3. QED
  BY <1>1, <1>2
------------------------------------------------------------------------------
(* What a step of the threads, of mdsd or of time shows of itself: nothing, *)
(* or one of the four things that DeliveryPromise lets happen to an item    *)
(* without its caller.                                                      *)

Acknowledged(tag) ==
    /\ tag \in Tags
    /\ useCache => tag \in cached
    /\ acked' = acked \cup {tag}
    /\ UNCHANGED <<dataCache, expired, misread>>

LetGo(tag) ==
    /\ tag \in dataCache \cap acked
    /\ dataCache' = dataCache \ {tag}
    /\ UNCHANGED <<acked, expired, misread>>

Mistaken(tag) ==
    /\ tag \in dataCache
    /\ \E other \in acked \cap cached : other # tag
    /\ dataCache' = dataCache \ {tag}
    /\ misread' = misread \cup {tag}
    /\ UNCHANGED <<acked, expired>>

Outdated(tags) ==
    /\ tags \subseteq dataCache
    /\ dataCache' = dataCache \ tags
    /\ expired' = expired \cup tags
    /\ UNCHANGED <<acked, misread>>

Effect ==
    \/ UNCHANGED <<dataCache, acked, expired, misread>>
    \/ \E tag \in Tags : Acknowledged(tag) \/ LetGo(tag) \/ Mistaken(tag)
    \/ \E tags \in SUBSET dataCache : Outdated(tags)

LEMMA EffectOfReader ==
  ASSUME DeliveryTypeOK, AcksTrue, DeliveryFlow, Reader
  PROVE  Effect
<1>1. CASE ReaderProcess
  <2> DEFINE line == Head(lines)
  <2>1. lines \in Seq(Lines) /\ lines # <<>>
    BY <1>1 DEF ReaderProcess, DeliveryTypeOK, ReaderTypeOK
  <2>2. 1 \in DOMAIN lines /\ line = lines[1]
    BY <2>1, TailElement
  <2>3. line.ok => line.of \in acked
    BY <2>2 DEF AcksTrue
  <2>4. useCache => line.of \in cached
    BY <2>2, FlowParts DEF Travelling
  <2>5. /\ dataCache' = dataCache \ (IF line.ok THEN {line.text} ELSE {})
        /\ misread' = IF line.text = line.of THEN misread
                      ELSE misread \cup
                             (dataCache \cap IF line.ok THEN {line.text} ELSE {})
        /\ UNCHANGED <<acked, expired>>
    BY <1>1 DEF ReaderProcess, EraseFromCache
  <2>6. /\ dataCache \subseteq Tags
        /\ ~useCache => dataCache = {}
    BY DEF DeliveryTypeOK, CacheTypeOK
  <2> HIDE DEF line
  <2>7. CASE ~line.ok \/ line.text \notin dataCache
    <3>1. dataCache' = dataCache /\ misread' = misread
      BY <2>5, <2>7
    <3>2. QED
      BY <2>5, <3>1 DEF Effect
  <2>8. CASE line.ok /\ line.text \in dataCache /\ line.text = line.of
    <3>1. LetGo(line.text)
      BY <2>3, <2>5, <2>8 DEF LetGo
    <3>2. QED
      BY <2>6, <2>8, <3>1 DEF Effect
  <2>9. CASE line.ok /\ line.text \in dataCache /\ line.text # line.of
    <3>1. line.of \in acked \cap cached
      BY <2>3, <2>4, <2>6, <2>9
    <3>2. dataCache' = dataCache \ {line.text} /\ misread' = misread \cup {line.text}
      BY <2>5, <2>9
    <3>3. Mistaken(line.text)
      BY <2>5, <2>9, <3>1, <3>2 DEF Mistaken
    <3>4. QED
      BY <2>6, <2>9, <3>3 DEF Effect
  <2>10. QED
    BY <2>7, <2>8, <2>9
<1>2. CASE ReaderRead \/ ReaderClose \/ ReaderExit
  BY <1>2
     DEF ReaderRead, ReaderClose, ReaderExit, cacheVars, historyVars, Effect
<1>3. QED
  BY <1>1, <1>2 DEF Reader

LEMMA EffectOfResender ==
  ASSUME DeliveryTypeOK, Resender
  PROVE  Effect
<1>1. CASE ResenderErase
  <2> DEFINE old == cacheBak \cap aged
  <2>1. old \in SUBSET dataCache
    BY DEF DeliveryTypeOK, CacheTypeOK
  <2>2. Outdated(old)
    BY <1>1, <2>1 DEF ResenderErase, EraseFromCache, Outdated
  <2> HIDE DEF old
  <2>3. QED
    BY <2>1, <2>2 DEF Effect
<1>2. CASE ~ResenderErase
  BY <1>2
     DEF Resender, ResenderTimer, ResenderCopy, ResenderSend,
         ResenderRoundEnd,
         ResenderThrows, ResenderExit, cacheVars, historyVars, Effect
<1>3. QED
  BY <1>1, <1>2

LEMMA EffectOfServer ==
  ASSUME DeliveryTypeOK, DeliveryFlow, Server
  PROVE  Effect
<1>1. CASE HangUp \/ Ignore
  BY <1>1 DEF HangUp, Ignore, cacheVars, historyVars, Effect
<1>2. ASSUME NEW ok \in AckStatuses, Acknowledge(ok)
      PROVE  Effect
  <2> DEFINE tag == Head(toServer)
  <2>1. toServer \in Seq(Tags) /\ toServer # <<>>
    BY <1>2 DEF Acknowledge, DeliveryTypeOK, ConnTypeOK
  <2>2. tag \in Tags /\ tag \in Elements(toServer)
    BY <2>1, TailElement DEF Elements
  <2>3. useCache => tag \in cached
    BY <2>2, FlowParts DEF Travelling
  <2>4. acked' = IF ok THEN acked \cup {tag} ELSE acked
    BY <1>2 DEF Acknowledge
  <2>5. UNCHANGED <<dataCache, expired, misread>>
    BY <1>2 DEF Acknowledge, cacheVars
  <2> HIDE DEF tag
  <2>6. QED
    BY <2>2, <2>3, <2>4, <2>5 DEF Acknowledged, Effect
<1>3. QED
  BY <1>1, <1>2 DEF Server, ServerReads

LEMMA EffectOfThreads ==
  ASSUME DeliveryTypeOK, AcksTrue, DeliveryFlow,
         \/ Reader \/ Resender \/ Hangs \/ Server \/ LateClose
         \/ \E tag \in Tags : Age(tag)
  PROVE  Effect /\ UNCHANGED <<useCache, cached>>
<1>1. CASE LateClose \/ \E tag \in Tags : Age(tag)
  BY <1>1 DEF LateClose, Age, cacheVars, historyVars, Effect
<1>2. CASE Hangs
  BY <1>2, HangsLeave DEF cacheVars, historyVars, Effect
<1>3. QED
  BY <1>1, <1>2, EffectOfReader, EffectOfResender, EffectOfServer, CacheLosses

(* With a cache mdsd acknowledges only what was cached; without one nothing *)
(* ever is.                                                                 *)
AckedWereCached == IF useCache THEN acked \subseteq cached ELSE cached = {}

LEMMA AckedInit == DeliveryInit => AckedWereCached
  BY DEF DeliveryInit, AckedWereCached

LEMMA AckedThreads ==
  ASSUME AckedWereCached, Effect, UNCHANGED <<useCache, cached>>
  PROVE  AckedWereCached'
<1>1. ASSUME NEW tags \in SUBSET dataCache, Outdated(tags)
      PROVE  acked' = acked
  BY <1>1 DEF Outdated
<1>2. QED
  BY <1>1 DEF AckedWereCached, Effect, Acknowledged, LetGo, Mistaken

------------------------------------------------------------------------------
(* Misread acks have one cause: a connection that ends while a line is      *)
(* partly read.  Without it partialData only ever holds the beginning of    *)
(* the line that comes next, so each line is the ack that mdsd wrote.       *)

\* Close(), by whatever thread, with part of a line in partialData
CutOff == cut /\ conn' = "none"

LinesWhole == \A i \in DOMAIN lines : lines[i].text = lines[i].of

WholeLines == stale = NoText /\ LinesWhole /\ misread = {}

LEMMA WholeInit == DeliveryInit => WholeLines
  BY DEF DeliveryInit, WholeLines, LinesWhole

LEMMA WholeUnchanged ==
  ASSUME WholeLines, UNCHANGED <<stale, lines, misread>>
  PROVE  WholeLines'
  BY DEF WholeLines, LinesWhole

LEMMA DropsWhole ==
  ASSUME LoseConnection, ~CutOff
  PROVE  UNCHANGED stale
  BY DEF LoseConnection, CutOff

LEMMA SpliceNothing ==
  ASSUME NEW tag \in Tags
  PROVE  Splice(NoText, tag) = tag
  BY DEF Splice, NoText, Junk

LEMMA WholeReader ==
  ASSUME DeliveryTypeOK, WholeLines, Reader, ~CutOff
  PROVE  WholeLines'
<1>1. CASE ReaderRead
  <2>1. stale = NoText /\ toClient \in Seq(Acks)
    BY DEF WholeLines, DeliveryTypeOK, ConnTypeOK
  <2>2. PICK n \in 0..Len(toClient) :
          /\ lines' = [i \in 1..n |->
                         [text |-> Splice(IF i = 1 THEN stale ELSE NoText,
                                          toClient[i].tag),
                          ok |-> toClient[i].ok,
                          of |-> toClient[i].tag]]
          /\ stale' = IF n > 0 THEN NoText ELSE stale
    BY <1>1 DEF ReaderRead
  <2>3. ASSUME NEW i \in 1..n
        PROVE  lines'[i].text = lines'[i].of
    <3>1. toClient[i].tag \in Tags
      <4>1. Len(toClient) \in Nat /\ i \in 1..Len(toClient)
        BY <2>1
      <4>2. toClient[i] \in Acks
        BY <2>1, <4>1
      <4>3. QED
        BY <4>2 DEF Acks
    <3>2. Splice(NoText, toClient[i].tag) = toClient[i].tag
      BY <3>1, SpliceNothing
    <3>3. QED
      BY <2>1, <2>2, <3>2
  <2>4. DOMAIN lines' = 1..n
    BY <2>2
  <2>5. LinesWhole'
    BY <2>3, <2>4 DEF LinesWhole
  <2>6. misread' = misread
    BY <1>1 DEF ReaderRead, historyVars
  <2>7. QED
    BY <2>1, <2>2, <2>5, <2>6 DEF WholeLines
<1>2. CASE ReaderProcess
  <2>1. lines \in Seq(Lines) /\ lines # <<>>
    BY <1>2 DEF ReaderProcess, DeliveryTypeOK, ReaderTypeOK
  <2>2. lines' = Tail(lines) /\ UNCHANGED stale
    BY <1>2 DEF ReaderProcess, connVars
  <2>3. Head(lines).text = Head(lines).of
    BY <2>1, TailElement DEF WholeLines, LinesWhole
  <2>4. misread' = misread
    BY <1>2, <2>3 DEF ReaderProcess
  <2>5. LinesWhole'
    BY <2>1, <2>2, TailElement DEF WholeLines, LinesWhole
  <2>6. QED
    BY <2>2, <2>4, <2>5 DEF WholeLines
<1>3. CASE ReaderClose
  BY <1>3, DropsWhole, WholeUnchanged
     DEF ReaderClose, DropConnection, readerVars, historyVars
<1>4. CASE ReaderExit
  BY <1>4 DEF ReaderExit, connVars, historyVars, WholeLines, LinesWhole
<1>5. QED
  BY <1>1, <1>2, <1>3, <1>4 DEF Reader

LEMMA WholeDelivery ==
  ASSUME DeliveryTypeOK, WholeLines, ~CutOff,
         \/ Reader \/ Resender \/ Hangs \/ Server \/ LateClose
         \/ \E tag \in Tags : Age(tag)
  PROVE  WholeLines'
<1>1. CASE Resender
  <2>1. UNCHANGED <<lines, misread>>
    BY <1>1
       DEF Resender, ResenderTimer, ResenderErase, ResenderCopy, ResenderSend,
           ResenderRoundEnd, ResenderThrows, ResenderExit, readerVars,
           historyVars
  <2>2. UNCHANGED stale
    BY <1>1, DropsWhole
       DEF Resender, ResenderTimer, ResenderErase, ResenderCopy, ResenderSend,
           ResenderRoundEnd, ResenderThrows, ResenderExit, connVars, Written,
           NotWritten, DropConnection
  <2>3. QED
    BY <2>1, <2>2, WholeUnchanged
<1>2. CASE Server
  BY <1>2, WholeUnchanged
     DEF Server, ServerReads, HangUp, Ignore, Acknowledge, readerVars,
         historyVars
<1>3. CASE LateClose
  BY <1>3, DropsWhole, WholeUnchanged
     DEF LateClose, DropConnection, readerVars, historyVars
<1>4. ASSUME NEW tag \in Tags, Age(tag)
      PROVE  WholeLines'
  BY <1>4, WholeUnchanged DEF Age, connVars, readerVars, historyVars
<1>5. CASE Hangs
  BY <1>5, HangsLeave, DropsWhole, WholeUnchanged DEF historyVars
<1>6. QED
  BY <1>1, <1>2, <1>3, <1>4, <1>5, WholeReader
==============================================================================
