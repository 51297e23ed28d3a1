---------------------------- MODULE BufferedLogger ----------------------------
(***************************************************************************)
(* BufferedLogger: the main thread adds items to a queue, a sender thread  *)
(* (DataSender) takes them out, puts each into the backup cache and sends  *)
(* it; the reader and the resender are those of Delivery.                  *)
(*                                                                         *)
(* The queue is ConcurrentQueue seen through LossyFifo: the sender is its  *)
(* one reader.                                                             *)
(***************************************************************************)
EXTENDS Delivery

CONSTANT BufferLimit   \* max items in the queue, 0 means no limit

ASSUME BufferLimitAssumption == BufferLimit \in Nat

VARIABLES
    added,           \* history: tags of the items added so far
    queue,           \* m_incomingQueue
    stopOnceEmpty,   \* of the queue
    senderPc,
    item,            \* the sender's item; 0 when it has none
    senderStopped,   \* DataSender::m_stopSender
    mainPc,          \* what the main thread does
    allSent,         \* what WaitUntilAllSend returned, if nothing was added since
    overflowed,      \* history: tags pushed out of the full queue
    attempted,       \* history: tags the sender passed to Send, uncached
    thrown           \* history: tags whose GetData threw there, uncached

queueVars == <<queue, stopOnceEmpty, overflowed>>
senderVars == <<senderPc, item, attempted, thrown>>
callerVars == <<added, senderStopped, mainPc, allSent>>
loggerVars == <<queueVars, senderVars, callerVars>>
vars == <<deliveryVars, loggerVars>>

(* "none": no thread yet; "loop": at the head of Run's loop; "pop": in      *)
(* wait_and_pop; "popped": holds an item; "get", "getAgain": looks its item *)
(* up in the cache; "send": at GetData and Send; "stuck": in a Send that     *)
(* never returns; "ended": Run returned; "died": Run returned because Get   *)
(* or GetData threw, which is caught outside the loop.                      *)
SenderStates == {"none", "loop", "pop", "popped", "get", "getAgain", "send",
                 "stuck", "ended", "died"}

(* "run": between two calls; "await": in WaitUntilAllSend; then the steps   *)
(* of the destructor.                                                       *)
MainStates == {"run", "await", "stopQueue", "stopSender", "stopResender",
               "stopReader", "joinSender", "joinResender", "joinReader", "gone"}

SenderDone == senderPc \in {"ended", "died"}
NoItem == 0

QueueTypeOK ==
    /\ queue \in Seq(Tags)
    /\ BufferLimit > 0 => Len(queue) <= BufferLimit
    /\ stopOnceEmpty \in BOOLEAN
    /\ overflowed \subseteq Tags

SenderTypeOK ==
    /\ senderPc \in SenderStates
    /\ attempted \subseteq Tags
    /\ thrown \subseteq Tags
    /\ IF senderPc \in {"popped", "get", "getAgain", "send", "stuck"}
       THEN item \in Tags
       ELSE item = NoItem

CallerTypeOK ==
    /\ added \subseteq Tags
    /\ senderStopped \in BOOLEAN
    /\ mainPc \in MainStates
    /\ allSent \in BOOLEAN

(* Types; the queue keeps its limit, the cache is unused without acks, and  *)
(* each thread's local data is there exactly where its code uses it.        *)
TypeOK ==
    /\ DeliveryTypeOK
    /\ QueueTypeOK
    /\ SenderTypeOK
    /\ CallerTypeOK

Init ==
    /\ DeliveryInit
    /\ added = {}
    /\ queue = <<>>
    /\ stopOnceEmpty = FALSE
    /\ senderPc = "none"
    /\ item = NoItem
    /\ senderStopped = FALSE
    /\ mainPc = "run"
    /\ allSent = FALSE
    /\ overflowed = {}
    /\ attempted = {}
    /\ thrown = {}

------------------------------------------------------------------------------
(* The main thread: AddData, WaitUntilAllSend and the destructor. *)

\* bug: off by one
QueueFullLate == BufferLimit > 0 /\ Len(queue) = BufferLimit + 1

QueueFull == BufferLimit > 0 /\ Len(queue) = BufferLimit

\* the first call starts the threads
StartWorkers ==
    IF senderPc = "none"
    THEN senderPc' = "loop" /\ StartReaderAndResender
    ELSE UNCHANGED <<senderPc, deliveryVars>>

AddData ==
    /\ mainPc = "run"
    /\ StartWorkers
    /\ \E tag \in Tags :
         /\ \A earlier \in added : earlier < tag
         /\ added' = added \cup {tag}
         /\ queue' = Append(IF QueueFull THEN Tail(queue) ELSE queue, tag)
    /\ overflowed' = IF QueueFull THEN overflowed \cup {Head(queue)}
                                  ELSE overflowed
    /\ allSent' = FALSE
    /\ UNCHANGED <<stopOnceEmpty, item, attempted, thrown, senderStopped, mainPc>>

StopQueue ==
    /\ stopOnceEmpty' = TRUE
    /\ UNCHANGED <<queue, overflowed>>

\* WaitUntilAllSend; before the first AddData there is no task to wait for
\* and the call is undefined
WaitUntilAllSend ==
    /\ mainPc = "run"
    /\ senderPc # "none"
    /\ StopQueue
    /\ mainPc' = "await"
    /\ UNCHANGED <<deliveryVars, senderVars, added, senderStopped,
                   allSent>>

\* the sender's task is ready, or timeoutMS pass
WaitReturns ==
    /\ mainPc = "await"
    /\ allSent' = SenderDone
    /\ mainPc' = "run"
    /\ UNCHANGED <<deliveryVars, senderVars, queueVars, added,
                   senderStopped>>

\* ~BufferedLogger, first step: m_sockClient->Stop()
Destroy ==
    /\ mainPc = "run"
    /\ StopClient
    /\ mainPc' = "stopQueue"
    /\ UNCHANGED <<cacheVars, readerVars, resenderVars,
                   readerStopped, resenderStopped, historyVars, senderVars,
                   queueVars, added, senderStopped, allSent>>

\* bug: does not stop the queue
DestroyQueueForgotten ==
    /\ mainPc = "stopQueue"
    /\ mainPc' = "stopSender"
    /\ UNCHANGED <<deliveryVars, senderVars, queueVars, added,
                   senderStopped, allSent>>

DestroyQueue ==
    /\ mainPc = "stopQueue"
    /\ StopQueue
    /\ mainPc' = "stopSender"
    /\ UNCHANGED <<deliveryVars, senderVars, added, senderStopped,
                   allSent>>

DestroySender ==
    /\ mainPc = "stopSender"
    /\ senderStopped' = TRUE
    /\ mainPc' = "stopResender"
    /\ UNCHANGED <<deliveryVars, senderVars, queueVars, added, allSent>>

DestroyResender ==
    /\ mainPc = "stopResender"
    /\ resenderStopped' = useCache
    /\ mainPc' = "stopReader"
    /\ UNCHANGED <<cacheVars, connVars, readerVars, resenderVars,
                   clientStopped, readerStopped, historyVars, senderVars,
                   queueVars, added, senderStopped, allSent>>

DestroyReader ==
    /\ mainPc = "stopReader"
    /\ readerStopped' = TRUE
    /\ mainPc' = "joinSender"
    /\ UNCHANGED <<cacheVars, connVars, readerVars, resenderVars,
                   clientStopped, resenderStopped, historyVars, senderVars,
                   queueVars, added, senderStopped, allSent>>

\* task.get(), for a task that was started (a future that is valid)
Join(from, finished, to) ==
    /\ mainPc = from
    /\ finished
    /\ mainPc' = to
    /\ UNCHANGED <<deliveryVars, senderVars, queueVars, added,
                   senderStopped, allSent>>

Destructor ==
    \/ DestroyQueue \/ DestroySender \/ DestroyResender \/ DestroyReader
    \/ Join("joinSender", SenderDone \/ senderPc = "none", "joinResender")
    \/ Join("joinResender", Finished(resenderPc), "joinReader")
    \/ Join("joinReader", Finished(readerPc), "gone")

Main == AddData \/ WaitUntilAllSend \/ WaitReturns \/ Destroy \/ Destructor

------------------------------------------------------------------------------
(* DataSender::Run, the sender thread. *)

SenderGoes(to) == senderPc' = to /\ UNCHANGED callerVars

SenderLoop ==
    /\ senderPc = "loop"
    /\ SenderGoes(IF senderStopped THEN "ended" ELSE "pop")
    /\ UNCHANGED <<deliveryVars, queueVars, item, attempted, thrown>>

SenderPop ==
    /\ senderPc = "pop"
    /\ queue # <<>>
    /\ item' = Head(queue)
    /\ queue' = Tail(queue)
    /\ SenderGoes("popped")
    /\ UNCHANGED <<deliveryVars, stopOnceEmpty, overflowed, attempted, thrown>>

\* bug: a stopped queue gives nothing, empty or not
SenderPopNothingWhenStopped ==
    /\ senderPc = "pop"
    /\ stopOnceEmpty
    /\ SenderGoes("ended")
    /\ UNCHANGED <<deliveryVars, queueVars, item, attempted, thrown>>

\* wait_and_pop returned nothing
SenderPopNothing ==
    /\ senderPc = "pop"
    /\ queue = <<>>
    /\ stopOnceEmpty
    /\ SenderGoes("ended")
    /\ UNCHANGED <<deliveryVars, queueVars, item, attempted, thrown>>

\* InterruptPoint, with an item in hand
SenderInterrupted ==
    /\ senderPc \in {"popped", "getAgain"}
    /\ senderStopped
    /\ item' = NoItem
    /\ SenderGoes("ended")
    /\ UNCHANGED <<deliveryVars, queueVars, attempted, thrown>>

\* bug: leaves the item out of the cache
SenderCacheSkipped ==
    /\ senderPc = "popped"
    /\ ~senderStopped
    /\ SenderGoes("send")
    /\ UNCHANGED <<deliveryVars, queueVars, item, attempted, thrown>>

\* Touch and Add; without a cache the item goes out at once
SenderCache ==
    /\ senderPc = "popped"
    /\ ~senderStopped
    /\ IF useCache
       THEN AddToCache(item) /\ SenderGoes("get")
       ELSE UNCHANGED <<dataCache, aged, historyVars>> /\ SenderGoes("send")
    /\ UNCHANGED <<useCache, connVars, readerVars, resenderVars, stopVars,
                   queueVars, item, attempted, thrown>>

\* the two calls of Get, the second one after an InterruptPoint
SenderGet ==
    /\ \/ senderPc = "get"
       \/ senderPc = "getAgain" /\ ~senderStopped
    /\ IF item \in dataCache
       THEN SenderGoes(IF senderPc = "get" THEN "getAgain" ELSE "send")
            /\ UNCHANGED item
       ELSE SenderGoes("died") /\ item' = NoItem
    /\ UNCHANGED <<deliveryVars, queueVars, attempted, thrown>>

\* bug: tries again until the item is written, and lets others connect
SenderSendRetries ==
    /\ senderPc = "send"
    /\ \/ conn = "up" /\ Written(item) /\ SenderGoes("loop") /\ item' = NoItem
       \/ NotWritten /\ SenderGoes("send") /\ UNCHANGED item
    /\ attempted' = IF useCache THEN attempted ELSE attempted \cup {item}
    /\ UNCHANGED <<cacheVars, readerVars, resenderVars, stopVars,
                   historyVars, queueVars, thrown>>

\* bug: takes the item out of the cache again when it could not be sent
SenderSendForgets ==
    /\ senderPc = "send"
    /\ \/ Written(item) /\ UNCHANGED <<dataCache, aged>>
       \/ NotWritten /\ EraseFromCache({item})
    /\ attempted' = IF useCache THEN attempted ELSE attempted \cup {item}
    /\ item' = NoItem
    /\ SenderGoes("loop")
    /\ UNCHANGED <<useCache, readerVars, resenderVars, stopVars, historyVars,
                   queueVars, thrown>>

\* Send; its SocketException is swallowed
SenderSend ==
    /\ senderPc = "send"
    /\ Written(item) \/ NotWritten
    /\ attempted' = IF useCache THEN attempted ELSE attempted \cup {item}
    /\ item' = NoItem
    /\ SenderGoes("loop")
    /\ UNCHANGED <<cacheVars, readerVars, resenderVars, stopVars,
                   historyVars, queueVars, thrown>>

\* GetData throws before there is anything to send; Run's handler takes it
SenderThrows ==
    /\ senderPc = "send"
    /\ item \in Throwing
    /\ thrown' = IF useCache THEN thrown ELSE thrown \cup {item}
    /\ item' = NoItem
    /\ SenderGoes("died")
    /\ UNCHANGED <<deliveryVars, queueVars, attempted>>

\* Send does not return
SenderHangs ==
    /\ senderPc = "send"
    /\ NeverReturns
    /\ attempted' = IF useCache THEN attempted ELSE attempted \cup {item}
    /\ SenderGoes("stuck")
    /\ UNCHANGED <<cacheVars, readerVars, resenderVars, stopVars,
                   historyVars, queueVars, item, thrown>>

Sender ==
    SenderLoop \/ SenderPop \/ SenderPopNothing \/ SenderInterrupted
        \/ SenderCache \/ SenderGet \/ SenderSend \/ SenderThrows

------------------------------------------------------------------------------
ReaderStep == Reader /\ UNCHANGED loggerVars
ResenderStep == Resender /\ UNCHANGED loggerVars
ServerStep == Server /\ UNCHANGED loggerVars
LateCloseStep == LateClose /\ UNCHANGED loggerVars
HangStep == SenderHangs \/ (Hangs /\ UNCHANGED loggerVars)
AgeStep(tag) == Age(tag) /\ UNCHANGED loggerVars

(* A thread is in a poll() that never returns, or waits for its mutex.      *)
Stuck == sendHung \/ readerPc = "stuck"

\* the end, or what is left when a thread cannot be joined
Terminated == (mainPc = "gone" \/ Stuck) /\ UNCHANGED vars

Next ==
    \/ Main
    \/ Sender
    \/ ReaderStep
    \/ ResenderStep
    \/ ServerStep
    \/ LateCloseStep
    \/ HangStep
    \/ \E tag \in Tags : AgeStep(tag)
    \/ Terminated

Spec == Init /\ [][Next]_vars

(* The threads run; a thread blocked in poll() or in a wait goes on when    *)
(* what it waits for is there.  Time passes: an item in the cache grows     *)
(* old, a wait with a timeout ends.  Nothing makes anybody add an item or   *)
(* destroy the logger, nothing makes mdsd do anything, and nothing makes a  *)
(* call of the client hang.                                                 *)
ThreadFairness ==
    /\ WF_vars(Sender)
    /\ WF_vars(ReaderStep)
    /\ WF_vars(ResenderStep)
    /\ \A tag \in Tags : WF_vars(AgeStep(tag))
    /\ WF_vars(WaitReturns)
    /\ WF_vars(Destructor)

FairSpec == Spec /\ ThreadFairness

(* mdsd reads what it was sent; it need not ever answer.  An assumption of  *)
(* the properties that need it, not of the specification.                   *)
ServerFairness == WF_vars(ServerReads /\ UNCHANGED loggerVars)

------------------------------------------------------------------------------
(* Safety. *)

(* No item is lost without a reason: each one is queued, in the sender's    *)
(* hand or in the cache, or left the queue because it was full, or left the *)
(* cache because mdsd acknowledged it, because it got too old, or because   *)
(* the reader took two halves of acks for one.  Without a cache an item     *)
(* leaves the sender's hand into Send, or into a GetData that threw, which  *)
(* ends the sender.  Only a stopped sender loses an item otherwise.         *)
NoSilentLoss ==
    /\ cached \subseteq dataCache \cup acked \cup expired \cup misread
    /\ ~senderStopped =>
         added \subseteq Elements(queue) \cup {item} \cup overflowed
                            \cup cached \cup attempted \cup thrown

(* An item that left the cache, acknowledged or too old, never comes back:  *)
(* the resender works on copies of the cache while others change it, and    *)
(* does not put old contents back.                                          *)
ErasedStaysErased == [][dataCache' \cap cached \subseteq dataCache]_vars

(* DataResender.h:74: obsolete data are removed before being resent.        *)
ObsoleteNotResent == cacheCopy \cap expired = {}

(* With acks, the logger implements DeliveryPromise: every step of its      *)
(* threads, of mdsd and of time takes an item that is new, or lets go of    *)
(* one for a reason that is there by then, or does nothing that shows.      *)
(* Nobody gets an answer for an item.                                       *)
Promise == INSTANCE DeliveryPromise
    WITH Items <- Tags, taken <- cached, kept <- dataCache,
         accepted <- {}, refused <- {}, acked <- acked \cap cached

KeepsItsPromise == Promise!PromiseSpec

(* BufferedLogger.h:64-65, WaitUntilAllSend returns "true if all the items  *)
(* are sent out, false if timed out".  True says only that the sender's     *)
(* thread ended.  It ends early when the item that it cached is gone before *)
(* it looks it up (the resender sent it and mdsd acknowledged it, or it got *)
(* too old) or GetData throws, and it is not there for an item added after  *)
(* it ended as told: what is queued then is never sent.                     *)
AllSentMeansQueueEmpty == allSent => queue = <<>>

(* README.md:44, events are kept and resent until acknowledged or timed     *)
(* out.  Not so when a connection breaks inside an ack: the reader appends  *)
(* the next connection's first ack to it and erases another item.           *)
KeptUntilAckedOrTimedOut ==
    cached \subseteq dataCache \cup acked \cup expired

------------------------------------------------------------------------------
(* Liveness. *)

Destroying == mainPc \notin {"run", "await"}

(* ~BufferedLogger returns, whatever mdsd does: Stop() and                  *)
(* stop_once_empty() get every thread out of whatever it waits for, unless  *)
(* one polls nothing (socket_stuck shows how) or waits for its mutex.       *)
DestructorReturns == Destroying ~> mainPc = "gone" \/ Stuck

(* The queue does not stay filled while the sender lives and mdsd reads: a  *)
(* sender that failed to send goes on with the next item, unless a Send     *)
(* polls nothing and keeps m_sendMutex for good.                            *)
QueueDrains ==
    ServerFairness =>
        (queue # <<>> ~> queue = <<>> \/ SenderDone \/ Destroying \/ sendHung)

(* README.md:44, "After timeout, the events holding in mdsd plugin memory   *)
(* will be dropped": nothing stays in the cache for ever.  It takes an mdsd *)
(* that reads: the resender drops old items only between two rounds, and a  *)
(* round that meets a connected mdsd that does not read never ends, nor     *)
(* does one that needs m_sendMutex when a Send keeps it for good.           *)
CacheDrains ==
    ServerFairness =>
        (dataCache # {} ~> dataCache = {} \/ Destroying \/ sendHung)
==============================================================================
