------------------------------- MODULE Delivery -------------------------------
(***************************************************************************)
(* What BufferedLogger and SocketLogger share: the backup cache of items   *)
(* not acknowledged yet (ConcurrentMap), the connection to mdsd            *)
(* (SocketClient), the reader thread that takes acknowledged items out of  *)
(* the cache (DataReader) and the resender thread that sends cached items  *)
(* again and drops those that waited too long (DataResender).              *)
(*                                                                         *)
(* An item is its tag, the number LogItem gives it; the counter is one for *)
(* the process, so the tags of one logger grow but need not be successive. *)
(* mdsd is external and does what a peer on a socket may do: read,         *)
(* acknowledge with any status or not at all, hang up, or sit there.       *)
(***************************************************************************)
EXTENDS Integers, Sequences

CONSTANTS CacheModes, \* values of "ackTimeoutMS is not 0" to consider
          AckStatuses,\* values of "the ack's status is 0" to consider
          ReadSplits, \* values of "a read may end inside a line"
          Tags,       \* the tags of the items in a behaviour
          Throwing,   \* those whose GetData may throw: see DjsonLogItem
          SockBuf,    \* messages, and acks, that the socket buffers hold
          Base        \* the base tags are written in: 10 in the code

ASSUME CacheModesAssumption == CacheModes \subseteq BOOLEAN
ASSUME AckStatusesAssumption == AckStatuses \subseteq BOOLEAN
ASSUME ReadSplitsAssumption == ReadSplits \subseteq BOOLEAN
ASSUME TagsAssumption == Tags \subseteq Nat \ {0}
ASSUME ThrowingAssumption == Throwing \subseteq Tags
ASSUME SockBufAssumption == SockBuf \in Nat \ {0}
ASSUME BaseAssumption == Base \in Nat \ {0, 1}

VARIABLES
    useCache,         \* ackTimeoutMS # 0: there is a cache and a resender
    dataCache,        \* tags in m_dataCache
    aged,             \* cached tags last touched over ackTimeoutMS ago
    conn,             \* the client's socket: "none", "up", or "hup"
    toServer,         \* messages sent and not read by mdsd yet
    toClient,         \* ack lines of mdsd not wholly read by the reader yet
    cut,              \* the first line of toClient is partly in partialData
    stale,            \* text in partialData left by earlier connections
    sendHung,         \* a Send has m_sendMutex and will never return
    lines,            \* lines read and not processed yet
    readerPc,         \* where DataReader::Run is; "none": not started
    resenderPc,       \* where DataResender::Run is; "none": not started
    cacheBak,         \* ResendData's first copy of the cache
    cacheCopy,        \* its second copy, without the items sent by now
    clientStopped,    \* SocketClient::m_stopClient
    readerStopped,    \* DataReader::m_stopRead
    resenderStopped,  \* DataResender::m_stopMe
    cached,           \* history: tags that were added to the cache
    acked,            \* history: tags mdsd acknowledged with success
    expired,          \* history: tags the resender dropped for their age
    misread           \* history: tags the reader dropped reading another's ack

cacheVars == <<useCache, dataCache, aged>>
connVars == <<conn, toServer, toClient, cut, stale, sendHung>>
readerVars == <<lines, readerPc>>
resenderVars == <<resenderPc, cacheBak, cacheCopy>>
stopVars == <<clientStopped, readerStopped, resenderStopped>>
historyVars == <<cached, acked, expired, misread>>
deliveryVars == <<cacheVars, connVars, readerVars, resenderVars, stopVars,
                  historyVars>>

------------------------------------------------------------------------------
(* Text.  mdsd answers an item with a line "<tag>:<status>" and 0 means     *)
(* success.  When a connection ends inside a line, its first part stays in  *)
(* partialData and the next connection's first line is appended to it.  The *)
(* first part is a number when it ends before the ':', and then the result  *)
(* names another tag; otherwise the result has two ':' and its status is no *)
(* "0".  Junk stands for that and for a number that is no item's tag.       *)
NoText == 0
Junk == -1

NumDigits(n) == CHOOSE k \in 1..(n + 1) : n < Base^k /\ Base^(k - 1) <= n

Numerals(tag) == {tag \div Base^k : k \in 0..(NumDigits(tag) - 1)}

Splice(text, tag) ==
    LET number == IF text = NoText THEN tag
                  ELSE text * Base^NumDigits(tag) + tag
    IN  IF text # Junk /\ number \in Tags THEN number ELSE Junk

(* What a line's first part can be: whatever comes before its end of line.  *)
FirstParts(tag) == {Splice(stale, n) : n \in Numerals(tag)} \cup {Junk}

Acks == [tag : Tags, ok : BOOLEAN]
Texts == Tags \cup {NoText, Junk}
Lines == [text : Texts, ok : BOOLEAN, of : Tags]

CacheTypeOK ==
    /\ useCache \in BOOLEAN
    /\ dataCache \subseteq Tags
    /\ aged \subseteq dataCache
    /\ ~useCache => dataCache = {}

ConnTypeOK ==
    /\ conn \in {"none", "up", "hup"}
    /\ toServer \in Seq(Tags) /\ Len(toServer) <= SockBuf
    /\ toClient \in Seq(Acks) /\ Len(toClient) <= SockBuf
    /\ cut \in BOOLEAN
    /\ cut => toClient # <<>>
    /\ stale \in Texts
    /\ sendHung \in BOOLEAN

ReaderTypeOK ==
    /\ lines \in Seq(Lines)
    /\ readerPc \in {"none", "read", "got", "process", "stuck", "done"}
    /\ lines # <<>> <=> readerPc \in {"got", "process"}

ResenderTypeOK ==
    /\ resenderPc \in {"none", "wait", "filter", "copy", "send", "stuck", "done"}
    /\ cacheBak \subseteq Tags
    /\ cacheCopy \subseteq Tags
    /\ cacheBak # {} => resenderPc = "filter"
    /\ cacheCopy # {} => resenderPc \in {"send", "stuck"}

StopTypeOK ==
    /\ clientStopped \in BOOLEAN
    /\ readerStopped \in BOOLEAN
    /\ resenderStopped \in BOOLEAN

HistoryTypeOK ==
    /\ cached \subseteq Tags
    /\ acked \subseteq Tags
    /\ expired \subseteq Tags
    /\ misread \subseteq Tags

DeliveryTypeOK ==
    /\ CacheTypeOK
    /\ ConnTypeOK
    /\ ReaderTypeOK
    /\ ResenderTypeOK
    /\ StopTypeOK
    /\ HistoryTypeOK

DeliveryInit ==
    /\ useCache \in CacheModes
    /\ dataCache = {} /\ aged = {}
    /\ conn = "none"
    /\ toServer = <<>> /\ toClient = <<>>
    /\ cut = FALSE /\ stale = NoText
    /\ sendHung = FALSE
    /\ lines = <<>> /\ readerPc = "none" /\ resenderPc = "none"
    /\ cacheBak = {} /\ cacheCopy = {}
    /\ clientStopped = FALSE
    /\ readerStopped = FALSE
    /\ resenderStopped = FALSE
    /\ cached = {} /\ acked = {} /\ expired = {} /\ misread = {}

\* StartWorkers, for the threads of this module
StartReaderAndResender ==
    /\ readerPc' = "read"
    /\ resenderPc' = IF useCache THEN "wait" ELSE "none"
    /\ UNCHANGED <<cacheVars, connVars, lines, cacheBak,
                   cacheCopy, stopVars, historyVars>>

Finished(threadPc) == threadPc \in {"none", "done"}

------------------------------------------------------------------------------
(* The cache. *)

\* Touch() and Add(), by the logger
AddToCache(tag) ==
    /\ dataCache' = dataCache \cup {tag}
    /\ aged' = aged \ {tag}
    /\ cached' = cached \cup {tag}
    /\ UNCHANGED <<acked, expired, misread>>

\* Erase(), of one key or of several; it does not mind a key that is gone
EraseFromCache(tags) ==
    /\ dataCache' = dataCache \ tags
    /\ aged' = aged \ tags

\* ackTimeoutMS pass since the item was touched
Age(tag) ==
    /\ tag \in dataCache \ aged
    /\ aged' = aged \cup {tag}
    /\ UNCHANGED <<useCache, dataCache, connVars, readerVars, resenderVars,
                   stopVars, historyVars>>

------------------------------------------------------------------------------
(* SocketClient, as its callers see it. *)

\* the socket is closed: whatever it still held is lost, except for the part
\* of a line that the reader already took out of it
LoseConnection ==
    /\ conn' = "none"
    /\ toServer' = <<>>
    /\ toClient' = <<>>
    /\ cut' = FALSE
    /\ IF cut THEN stale' \in FirstParts(toClient[1].tag) ELSE UNCHANGED stale

\* Close()
DropConnection == LoseConnection /\ UNCHANGED sendHung

\* Send() of a message that gets into the socket whole, on the connection
\* there is or on a new one
Written(tag) ==
    /\ ~clientStopped /\ ~sendHung
    /\ conn \in {"none", "up"}
    /\ Len(toServer) < SockBuf
    /\ conn' = "up"
    /\ toServer' = Append(toServer, tag)
    /\ UNCHANGED <<toClient, cut, stale, sendHung>>

\* Send() that throws SocketException: the peer hung up, Connect() got no
\* connection within connRetryTimeoutMS, or Stop() closed it.  With mdsd
\* connected and not reading, poll() waits and Send() does not return yet.
\* Nobody gets so far on a socket whose m_sendMutex is held for good.
NotWritten ==
    /\ conn # "up"
    /\ sendHung => conn = "none"
    /\ DropConnection

\* Send() whose PollSocket tests m_sockfd before another thread closes it
\* and reads it again afterwards: poll() of -1 with m_sendMutex, for ever
\* (AllThreadsCanBeStopped of SocketClient).  The other one may be Stop().
PollsNothing ==
    /\ ~sendHung
    /\ LoseConnection
    /\ sendHung' = TRUE

\* Send() by any other thread, on the connection there is or on a new one:
\* it never gets the mutex
WaitsForever ==
    /\ sendHung
    /\ conn' = IF conn = "none" THEN "up" ELSE conn
    /\ UNCHANGED <<toServer, toClient, cut, stale, sendHung>>

\* Send() that never returns.  No fairness is about it: a thread can always
\* be lucky the first time, but not when the mutex is gone.
NeverReturns == ~clientStopped /\ (PollsNothing \/ WaitsForever)

\* Stop()
StopClient ==
    /\ clientStopped' = TRUE
    /\ DropConnection

\* a Close() by a thread whose call failed, on this connection although mdsd
\* is still there (send(), read() and poll() have errors of their own), or
\* on an earlier one (Send() and Read() close whatever m_sockfd is by then).
\* A Send that fails on a live connection is this step and NotWritten.
LateClose ==
    /\ conn = "up"
    /\ DropConnection
    /\ UNCHANGED <<cacheVars, readerVars, resenderVars,
                   stopVars, historyVars>>

------------------------------------------------------------------------------
(* mdsd. *)

HangUp ==
    /\ conn = "up"
    /\ conn' = "hup"
    /\ toServer' = <<>>
    /\ UNCHANGED <<cacheVars, toClient, cut, stale, sendHung, readerVars,
                   resenderVars, stopVars, historyVars>>

\* reads a message and says nothing: it crashed half way, or is not done yet
Ignore ==
    /\ conn = "up"
    /\ toServer # <<>>
    /\ toServer' = Tail(toServer)
    /\ UNCHANGED <<cacheVars, conn, toClient, cut, stale, sendHung,
                   readerVars, resenderVars, stopVars, historyVars>>

\* reads a message and acknowledges it, with status 0 or another
Acknowledge(ok) ==
    /\ conn = "up"
    /\ toServer # <<>>
    /\ Len(toClient) < SockBuf
    /\ toServer' = Tail(toServer)
    /\ toClient' = Append(toClient, [tag |-> Head(toServer), ok |-> ok])
    /\ acked' = IF ok THEN acked \cup {Head(toServer)} ELSE acked
    /\ UNCHANGED <<cacheVars, conn, cut, stale, sendHung, readerVars,
                   resenderVars, stopVars, cached, expired, misread>>

ServerReads == Ignore \/ \E ok \in AckStatuses : Acknowledge(ok)

Server == HangUp \/ ServerReads

------------------------------------------------------------------------------
(* DataReader::Run, the reader thread. *)

\* DoRead: one read() takes whole lines and possibly the first part of the
\* next one, after which ProcessData leaves that part in partialData
ReaderRead ==
    /\ readerPc = "read"
    /\ ~readerStopped /\ ~clientStopped
    /\ conn = "up"
    /\ \E n \in 0..Len(toClient), more \in ReadSplits :
         /\ more => n < Len(toClient)
         /\ n > 0 \/ (more /\ ~cut)
         /\ toClient' = SubSeq(toClient, n + 1, Len(toClient))
         /\ cut' = more
         /\ lines' = [i \in 1..n |->
                        [text |-> Splice(IF i = 1 THEN stale ELSE NoText,
                                         toClient[i].tag),
                         ok |-> toClient[i].ok,
                         of |-> toClient[i].tag]]
         /\ stale' = IF n > 0 THEN NoText ELSE stale
         /\ readerPc' = IF n > 0 THEN "got" ELSE "read"
    /\ UNCHANGED <<cacheVars, conn, toServer, sendHung, resenderVars,
                   stopVars, historyVars>>

\* Read() on a connection that mdsd closed: unread lines are given up
ReaderClose ==
    /\ readerPc = "read"
    /\ ~readerStopped /\ ~clientStopped
    /\ conn = "hup"
    /\ DropConnection
    /\ UNCHANGED <<cacheVars, readerVars, resenderVars,
                   stopVars, historyVars>>

\* Read() whose PollSocket polls -1, after another thread closed the socket
ReaderHangs ==
    /\ readerPc = "read"
    /\ ~readerStopped /\ ~clientStopped
    /\ DropConnection
    /\ readerPc' = "stuck"
    /\ UNCHANGED <<cacheVars, lines, resenderVars, stopVars, historyVars>>

\* bug: erases on any status
ReaderProcessAnyStatus ==
    /\ readerPc = "process" \/ (readerPc = "got" /\ ~readerStopped)
    /\ EraseFromCache({Head(lines).text})
    /\ lines' = Tail(lines)
    /\ readerPc' = IF Len(lines) = 1 THEN "read" ELSE "process"
    /\ UNCHANGED <<useCache, connVars, resenderVars, stopVars, historyVars>>

\* ProcessItem and ProcessTag on one line: only status 0 erases
ReaderProcess ==
    /\ readerPc = "process" \/ (readerPc = "got" /\ ~readerStopped)
    /\ LET line == Head(lines)
           erased == IF line.ok THEN {line.text} ELSE {}
       IN  /\ EraseFromCache(erased)
           /\ misread' = IF line.text = line.of THEN misread
                         ELSE misread \cup (dataCache \cap erased)
    /\ lines' = Tail(lines)
    /\ readerPc' = IF Len(lines) = 1 THEN "read" ELSE "process"
    /\ UNCHANGED <<useCache, connVars, resenderVars, stopVars, cached, acked,
                   expired>>

\* InterruptPoint, before a read and before its lines are processed, and
\* Read()'s -1 from a stopped client
ReaderExit ==
    /\ \/ readerPc = "read" /\ (readerStopped \/ clientStopped)
       \/ readerPc = "got" /\ readerStopped
    /\ readerPc' = "done"
    /\ lines' = <<>>
    /\ UNCHANGED <<cacheVars, connVars, resenderVars, stopVars,
                   historyVars>>

Reader == ReaderRead \/ ReaderClose \/ ReaderProcess \/ ReaderExit

------------------------------------------------------------------------------
(* DataResender::Run, the resender thread. *)

\* WaitForNextResend ran out; an empty cache needs no round
ResenderTimer ==
    /\ resenderPc = "wait"
    /\ ~resenderStopped
    /\ dataCache # {}
    /\ cacheBak' = dataCache
    /\ resenderPc' = "filter"
    /\ UNCHANGED <<cacheVars, connVars, readerVars, cacheCopy,
                   stopVars, historyVars>>

\* bug: filters its copy and assigns it to the cache
ResenderEraseWritesBack ==
    /\ resenderPc = "filter"
    /\ dataCache' = cacheBak \ aged
    /\ aged' = {}
    /\ expired' = expired \cup (cacheBak \cap aged)
    /\ cacheBak' = {}
    /\ resenderPc' = "copy"
    /\ UNCHANGED <<useCache, connVars, readerVars, cacheCopy, stopVars, cached,
                   acked, misread>>

\* bug: sends the copy that was made before obsolete items were erased
ResenderEraseOneCopy ==
    /\ resenderPc = "filter"
    /\ EraseFromCache(cacheBak \cap aged)
    /\ expired' = expired \cup (cacheBak \cap aged)
    /\ cacheCopy' = cacheBak
    /\ cacheBak' = {}
    /\ resenderPc' = "send"
    /\ UNCHANGED <<useCache, connVars, readerVars, stopVars, cached, acked,
                   misread>>

\* FilterEach(CheckItemAge) on the copy, Erase on the cache
ResenderErase ==
    /\ resenderPc = "filter"
    /\ LET keysToRemove == cacheBak \cap aged
       IN  /\ EraseFromCache(keysToRemove)
           /\ expired' = expired \cup keysToRemove
    /\ cacheBak' = {}
    /\ resenderPc' = "copy"
    /\ UNCHANGED <<useCache, connVars, readerVars, cacheCopy, stopVars, cached,
                   acked, misread>>

ResenderCopy ==
    /\ resenderPc = "copy"
    /\ cacheCopy' = dataCache
    /\ resenderPc' = "send"
    /\ UNCHANGED <<cacheVars, connVars, readerVars, cacheBak,
                   stopVars, historyVars>>

\* ForEachUnsafe(SendItem), in the order of a hash map
ResenderSend ==
    /\ resenderPc = "send"
    /\ \E tag \in cacheCopy :
         /\ Written(tag)
         /\ cacheCopy' = cacheCopy \ {tag}
    /\ UNCHANGED <<cacheVars, readerVars, resenderPc, cacheBak,
                   stopVars, historyVars>>

\* bug: a SocketException ends the thread
ResenderRoundEndDies ==
    /\ resenderPc = "send"
    /\ IF cacheCopy = {} THEN UNCHANGED connVars ELSE NotWritten
    /\ cacheCopy' = {}
    /\ resenderPc' = IF cacheCopy = {} THEN "wait" ELSE "done"
    /\ UNCHANGED <<cacheVars, readerVars, cacheBak, stopVars,
                   historyVars>>

\* the copy is sent, or a SocketException ends the round
ResenderRoundEnd ==
    /\ resenderPc = "send"
    /\ IF cacheCopy = {} THEN UNCHANGED connVars ELSE NotWritten
    /\ cacheCopy' = {}
    /\ resenderPc' = "wait"
    /\ UNCHANGED <<cacheVars, readerVars, cacheBak, stopVars,
                   historyVars>>

\* GetData of the next item throws, which ends the round as well: the
\* handler in ResendOnce takes any std::exception
ResenderThrows ==
    /\ resenderPc = "send"
    /\ cacheCopy \cap Throwing # {}
    /\ cacheCopy' = {}
    /\ resenderPc' = "wait"
    /\ UNCHANGED <<cacheVars, connVars, readerVars, cacheBak, stopVars,
                   historyVars>>

\* Send of an item does not return
ResenderHangs ==
    /\ resenderPc = "send"
    /\ cacheCopy # {}
    /\ NeverReturns
    /\ resenderPc' = "stuck"
    /\ UNCHANGED <<cacheVars, readerVars, cacheBak, cacheCopy, stopVars,
                   historyVars>>

ResenderExit ==
    /\ resenderPc = "wait"
    /\ resenderStopped
    /\ resenderPc' = "done"
    /\ UNCHANGED <<cacheVars, connVars, readerVars, cacheBak,
                   cacheCopy, stopVars, historyVars>>

Resender ==
    ResenderTimer \/ ResenderErase \/ ResenderCopy \/ ResenderSend
        \/ ResenderRoundEnd \/ ResenderThrows \/ ResenderExit

\* what a thread must not be made to do by its fairness
Hangs == ReaderHangs \/ ResenderHangs

------------------------------------------------------------------------------
(* A property of both loggers. *)

Elements(seq) == {seq[i] : i \in DOMAIN seq}
TagsIn(acks) == {acks[i].tag : i \in DOMAIN acks}

Travelling ==
    Elements(toServer) \cup TagsIn(toClient)
        \cup {lines[i].of : i \in DOMAIN lines}

(* DataSender.cc:80, SocketLogger.cc:80: an item is in the cache before it  *)
(* is sent, so that the reader finds it whenever the ack comes: whatever    *)
(* travels to mdsd, comes back, or waits to be resent, has been cached.     *)
CachedBeforeSent == useCache => Travelling \cup cacheCopy \subseteq cached
==============================================================================
