----------------------------- MODULE SocketLogger -----------------------------
(***************************************************************************)
(* SocketLogger: the logger of the fluentd plugin.  There is no queue and  *)
(* no thread that sends: fluentd's flush threads call SendDjson, which     *)
(* sends in the caller's thread and says whether it did.  A caller that is *)
(* told "false" writes its record again, as a new item with a new tag.     *)
(* Cache, reader and resender are those of Delivery.                       *)
(***************************************************************************)
EXTENDS Delivery

CONSTANTS Callers   \* threads that call SendDjson

(* SendDjson makes its items of a schema and data that are texts, so their  *)
(* GetData does not ask IdMgr.                                              *)
ASSUME SendDjsonAssumption == Throwing = {}

VARIABLES
    counter,     \* LogItem::s_counter
    callerPc,    \* where each caller is in SendData
    item,        \* its item; 0 when it has none
    loggerPc,    \* "used", or the destructor's next step
    accepted,    \* history: items for which SendDjson returned true
    refused      \* history: items for which it returned false

callerVars == <<callerPc, item, accepted, refused>>
loggerVars == <<counter, callerVars, loggerPc>>
vars == <<deliveryVars, loggerVars>>

NoItem == 0

(* "idle": not in SendDjson; "cache": has its item; "get", "getAgain": at   *)
(* the two calls of Get; "send": about to send; "stuck": in a Send that     *)
(* never returns; "erase": in the handler around Send.                      *)
CallerStates == {"idle", "cache", "get", "getAgain", "send", "stuck", "erase"}
LoggerStates == {"used", "stopResender", "stopReader", "join", "gone"}

(* Types; a caller has an item of its own as long as it is in SendDjson,    *)
(* each attempt has an item of its own, and no item has two answers.        *)
LoggerTypeOK ==
    /\ counter \in Tags \cup {0}
    /\ callerPc \in [Callers -> CallerStates]
    /\ item \in [Callers -> Tags \cup {NoItem}]
    /\ \A c \in Callers : callerPc[c] = "idle" <=> item[c] = NoItem
    /\ \A c \in Callers : callerPc[c] \in {"get", "getAgain", "erase"} => useCache
    /\ \A c, d \in Callers : item[c] = item[d] => c = d \/ item[c] = NoItem
    /\ loggerPc \in LoggerStates
    /\ accepted \subseteq Tags
    /\ refused \subseteq Tags
    /\ accepted \cap refused = {}

TypeOK == DeliveryTypeOK /\ LoggerTypeOK

Init ==
    /\ DeliveryInit
    /\ counter = 0
    /\ callerPc = [c \in Callers |-> "idle"]
    /\ item = [c \in Callers |-> NoItem]
    /\ loggerPc = "used"
    /\ accepted = {}
    /\ refused = {}

------------------------------------------------------------------------------
(* SendDjson and SendData, in a caller's thread. *)

CallStarts(c, tag) ==
    /\ loggerPc = "used"
    /\ callerPc[c] = "idle"
    /\ IF readerPc = "none" THEN StartReaderAndResender ELSE UNCHANGED deliveryVars
    /\ counter' = tag
    /\ item' = [item EXCEPT ![c] = tag]
    /\ callerPc' = [callerPc EXCEPT ![c] = "cache"]
    /\ UNCHANGED <<loggerPc, accepted, refused>>

\* bug: two items may read the same counter
SendDjsonSharesTag(c) == \E tag \in Tags : tag >= counter /\ CallStarts(c, tag)

\* SendDjson makes an item; the first call starts the threads (call_once)
SendDjson(c) == \E tag \in Tags : tag > counter /\ CallStarts(c, tag)

CallerGoes(c, from, to) ==
    /\ callerPc[c] = from
    /\ callerPc' = [callerPc EXCEPT ![c] = to]
    /\ UNCHANGED <<item, accepted, refused>>

\* SendDjson returns true or false
Returns(c, from, ok) ==
    /\ callerPc[c] = from
    /\ callerPc' = [callerPc EXCEPT ![c] = "idle"]
    /\ item' = [item EXCEPT ![c] = NoItem]
    /\ accepted' = IF ok THEN accepted \cup {item[c]} ELSE accepted
    /\ refused' = IF ok THEN refused ELSE refused \cup {item[c]}

\* bug: sends first and adds to the cache when it is sent
CacheItemAfterSend(c) ==
    /\ CallerGoes(c, "cache", "send")
    /\ UNCHANGED deliveryVars

\* Touch and Add; without a cache the item goes out at once
CacheItem(c) ==
    /\ IF useCache
       THEN AddToCache(item[c]) /\ CallerGoes(c, "cache", "get")
       ELSE UNCHANGED <<dataCache, aged, historyVars>>
            /\ CallerGoes(c, "cache", "send")
    /\ UNCHANGED <<useCache, connVars, readerVars, resenderVars, stopVars>>

\* Get, before the try: an item that is gone by now counts as an error
GetItem(c) ==
    /\ IF item[c] \in dataCache THEN CallerGoes(c, "get", "getAgain")
                                ELSE Returns(c, "get", FALSE)
    /\ UNCHANGED deliveryVars

\* Get, in the try
GetItemAgain(c) ==
    /\ CallerGoes(c, "getAgain", IF item[c] \in dataCache THEN "send" ELSE "erase")
    /\ UNCHANGED deliveryVars

\* bug: no handler, the item stays in the cache
SendItemNoHandler(c) ==
    /\ \/ Written(item[c]) /\ Returns(c, "send", TRUE)
       \/ NotWritten /\ Returns(c, "send", FALSE)
    /\ UNCHANGED <<cacheVars, readerVars, resenderVars, stopVars, historyVars>>

\* bug: tries again by itself
SendItemRetries(c) ==
    /\ \/ Written(item[c]) /\ Returns(c, "send", TRUE)
       \/ NotWritten /\ CallerGoes(c, "send", "cache")
    /\ UNCHANGED <<cacheVars, readerVars, resenderVars, stopVars, historyVars>>

SendItem(c) ==
    /\ \/ Written(item[c]) /\ Returns(c, "send", TRUE)
       \/ NotWritten /\ useCache /\ CallerGoes(c, "send", "erase")
       \/ NotWritten /\ ~useCache /\ Returns(c, "send", FALSE)
    /\ UNCHANGED <<cacheVars, readerVars, resenderVars, stopVars, historyVars>>

\* Send does not return, and neither does SendDjson
SendItemHangs(c) ==
    /\ NeverReturns
    /\ CallerGoes(c, "send", "stuck")
    /\ UNCHANGED <<cacheVars, readerVars, resenderVars, stopVars, historyVars,
                   counter, loggerPc>>

\* bug: the handler does not throw again
EraseItemSwallows(c) ==
    /\ Returns(c, "erase", TRUE)
    /\ EraseFromCache({item[c]})
    /\ UNCHANGED <<useCache, connVars, readerVars, resenderVars, stopVars,
                   historyVars>>

\* the handler: the caller is expected to retry
EraseItem(c) ==
    /\ Returns(c, "erase", FALSE)
    /\ EraseFromCache({item[c]})
    /\ UNCHANGED <<useCache, connVars, readerVars, resenderVars, stopVars,
                   historyVars>>

SendData(c) ==
    /\ CacheItem(c) \/ GetItem(c) \/ GetItemAgain(c) \/ SendItem(c) \/ EraseItem(c)
    /\ UNCHANGED <<counter, loggerPc>>

------------------------------------------------------------------------------
(* ~SocketLogger, when no call is under way. *)

LoggerGoes(from, to) ==
    /\ loggerPc = from
    /\ loggerPc' = to
    /\ UNCHANGED <<counter, callerVars>>

Destroy ==
    /\ \A c \in Callers : callerPc[c] = "idle"
    /\ LoggerGoes("used", "stopResender")
    /\ StopClient
    /\ UNCHANGED <<cacheVars, readerVars, resenderVars, readerStopped,
                   resenderStopped, historyVars>>

DestroyResender ==
    /\ LoggerGoes("stopResender", "stopReader")
    /\ resenderStopped' = useCache
    /\ UNCHANGED <<cacheVars, connVars, readerVars, resenderVars, clientStopped,
                   readerStopped, historyVars>>

DestroyReader ==
    /\ LoggerGoes("stopReader", "join")
    /\ readerStopped' = TRUE
    /\ UNCHANGED <<cacheVars, connVars, readerVars, resenderVars, clientStopped,
                   resenderStopped, historyVars>>

\* get() of both tasks
Join ==
    /\ Finished(readerPc) /\ Finished(resenderPc)
    /\ LoggerGoes("join", "gone")
    /\ UNCHANGED deliveryVars

Destructor == DestroyResender \/ DestroyReader \/ Join

------------------------------------------------------------------------------
ReaderStep == Reader /\ UNCHANGED loggerVars
ResenderStep == Resender /\ UNCHANGED loggerVars
ServerStep == Server /\ UNCHANGED loggerVars
LateCloseStep == LateClose /\ UNCHANGED loggerVars
HangStep == Hangs /\ UNCHANGED loggerVars
AgeStep(tag) == Age(tag) /\ UNCHANGED loggerVars

(* A thread is in a poll() that never returns, or waits for its mutex.      *)
Stuck == sendHung \/ readerPc = "stuck"

\* the end, or what is left when nobody's call returns or can be joined
Terminated == (loggerPc = "gone" \/ Stuck) /\ UNCHANGED vars

Next ==
    \/ \E c \in Callers : SendDjson(c) \/ SendData(c) \/ SendItemHangs(c)
    \/ Destroy \/ Destructor
    \/ ReaderStep
    \/ ResenderStep
    \/ ServerStep
    \/ LateCloseStep
    \/ HangStep
    \/ \E tag \in Tags : AgeStep(tag)
    \/ Terminated

Spec == Init /\ [][Next]_vars

(* The threads run and time passes, as for BufferedLogger, and mdsd reads   *)
(* what it is sent; nobody has to call, or to destroy the logger, and no    *)
(* call of the client has to hang.                                          *)
Fairness ==
    /\ \A c \in Callers : WF_vars(SendData(c))
    /\ WF_vars(ReaderStep)
    /\ WF_vars(ResenderStep)
    /\ \A tag \in Tags : WF_vars(AgeStep(tag))
    /\ WF_vars(ServerReads /\ UNCHANGED loggerVars)

FairSpec == Spec /\ Fairness

------------------------------------------------------------------------------
(* Properties. *)

(* SendDjson's true is a promise, with a cache: the item is there until     *)
(* mdsd acknowledged it, it got too old, or another ack was misread for     *)
(* its own; a caller that failed does not take away another caller's item.  *)
AcceptedIsKept ==
    useCache => accepted \subseteq dataCache \cup acked \cup expired \cup misread

(* SocketLogger.cc:98: the caller of a SendDjson that returned false is     *)
(* expected to retry, so the item is not in the cache to be resent as well, *)
(* now or later.                                                            *)
RefusedNotKept == refused \cap dataCache = {}

(* An item that left the cache, acknowledged, too old or given back to its  *)
(* caller, does not come back, although the resender copies the cache while *)
(* callers add and erase.                                                   *)
ErasedStaysErased == [][dataCache' \cap cached \subseteq dataCache]_vars

(* With acks, the logger implements DeliveryPromise, answers included, for  *)
(* any number of callers at once: whatever a caller's step does to the      *)
(* cache is what its answer says.  Without acks it promises nothing.        *)
Promise == INSTANCE DeliveryPromise
    WITH Items <- Tags, taken <- cached, kept <- dataCache,
         accepted <- accepted \cap cached, refused <- refused \cap cached,
         acked <- acked \cap cached

KeepsItsPromise == Promise!PromiseSpec

(* SendDjson returns, also when the connection breaks again and again, as   *)
(* long as mdsd reads what it gets while it is connected, unless a Send     *)
(* polls nothing (socket_stuck shows how): that one and all after it hang.  *)
CallReturns ==
    \A c \in Callers : callerPc[c] # "idle" ~> callerPc[c] = "idle" \/ sendHung

(* README.md:44: nothing stays in the cache for ever, with an mdsd that     *)
(* reads: what is not acknowledged gets too old, and the resender sees it,  *)
(* unless a Send that polls nothing keeps m_sendMutex from it.              *)
CacheDrains ==
    dataCache # {} ~> dataCache = {} \/ loggerPc # "used" \/ sendHung
==============================================================================
