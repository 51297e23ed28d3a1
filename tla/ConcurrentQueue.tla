--------------------------- MODULE ConcurrentQueue ---------------------------
(***************************************************************************)
(* ConcurrentQueue<T> (ConcurrentQueue.h): a queue under one mutex and one *)
(* condition variable.  Every method body runs under the mutex, so it is   *)
(* one action; the exception is wait_and_pop, which releases the mutex     *)
(* while it sleeps on data_cond and looks again each time it wakes up.     *)
(* notify_one wakes any one sleeper, and a sleeper may wake up by itself.  *)
(*                                                                         *)
(* The value pushed by the n-th push is the number n.                      *)
(***************************************************************************)
EXTENDS Naturals, Sequences, FiniteSets

CONSTANTS Poppers,   \* threads that call wait_and_pop in a loop
          MaxSize,   \* m_maxSize: 0 means no limit
          MaxPush    \* bound on the number of pushes of a behaviour

ASSUME PoppersAssumption == IsFiniteSet(Poppers)
ASSUME MaxSizeAssumption == MaxSize \in Nat
ASSUME MaxPushAssumption == MaxPush \in Nat

VARIABLES data_queue,     \* the queued values, oldest first
          stopOnceEmpty,  \* set by stop_once_empty and never reset
          pc,             \* where each popper is in wait_and_pop
          nPushed,        \* history: number of pushes
          popped,         \* history: values some popper received
          dropped         \* history: values removed by a push on a full queue

vars == <<data_queue, stopOnceEmpty, pc, nPushed, popped, dropped>>

(* "idle": outside the queue, about to call it; "waiting": asleep on       *)
(* data_cond; "woken": notified, not yet holding the mutex; "done": a call *)
(* returned no value and the caller left its loop.                         *)
PopperStates == {"idle", "waiting", "woken", "done"}

At(state) == {p \in Poppers : pc[p] = state}

(* Types, and the limit: a limited queue never holds more than m_maxSize.   *)
TypeOK ==
    /\ data_queue \in Seq(Nat)
    /\ MaxSize > 0 => Len(data_queue) <= MaxSize
    /\ stopOnceEmpty \in BOOLEAN
    /\ pc \in [Poppers -> PopperStates]
    /\ nPushed \in 0..MaxPush
    /\ popped \subseteq 1..nPushed
    /\ dropped \subseteq 1..nPushed

Init ==
    /\ data_queue = <<>>
    /\ stopOnceEmpty = FALSE
    /\ pc = [p \in Poppers |-> "idle"]
    /\ nPushed = 0
    /\ popped = {}
    /\ dropped = {}

------------------------------------------------------------------------------
(* Plausible bugs, each standing in for the definition it precedes when a   *)
(* property is tested.                                                      *)
IsFullLate == 0 < MaxSize /\ Len(data_queue) = MaxSize + 1
IsFullEarly == 0 < MaxSize /\ Len(data_queue) + 1 >= MaxSize /\ data_queue # <<>>

\* is_full
IsFull == 0 < MaxSize /\ Len(data_queue) = MaxSize

\* bug: a signal only for the first value of an empty queue
NotifyOneIfWasEmpty ==
    \/ (At("waiting") = {} \/ data_queue # <<>>) /\ UNCHANGED pc
    \/ /\ data_queue = <<>>
       /\ \E p \in At("waiting") : pc' = [pc EXCEPT ![p] = "woken"]

\* data_cond.notify_one: some sleeper wakes up, if there is one
NotifyOne ==
    \/ At("waiting") = {} /\ UNCHANGED pc
    \/ \E p \in At("waiting") : pc' = [pc EXCEPT ![p] = "woken"]

\* data_cond.notify_all
NotifyAll ==
    pc' = [p \in Poppers |-> IF pc[p] = "waiting" THEN "woken" ELSE pc[p]]

\* push, both overloads
Push ==
    /\ nPushed < MaxPush
    /\ nPushed' = nPushed + 1
    /\ data_queue' =
         Append(IF IsFull THEN Tail(data_queue) ELSE data_queue, nPushed + 1)
    /\ dropped' = IF IsFull THEN dropped \cup {Head(data_queue)} ELSE dropped
    /\ NotifyOne
    /\ UNCHANGED <<stopOnceEmpty, popped>>

\* bug: takes the newest value
TakeBack(p) ==
    /\ data_queue # <<>>
    /\ popped' = popped \cup {data_queue[Len(data_queue)]}
    /\ data_queue' = SubSeq(data_queue, 1, Len(data_queue) - 1)
    /\ pc' = [pc EXCEPT ![p] = "idle"]
    /\ UNCHANGED <<stopOnceEmpty, nPushed, dropped>>

\* value = data_queue.front(); data_queue.pop()
TakeFront(p) ==
    /\ data_queue # <<>>
    /\ popped' = popped \cup {Head(data_queue)}
    /\ data_queue' = Tail(data_queue)
    /\ pc' = [pc EXCEPT ![p] = "idle"]
    /\ UNCHANGED <<stopOnceEmpty, nPushed, dropped>>

\* wait_and_pop, from its call or from a wake-up, with the mutex held
WaitAndPop(p) ==
    /\ pc[p] \in {"idle", "woken"}
    /\ \/ TakeFront(p)
       \/ /\ data_queue = <<>>
          /\ pc' = [pc EXCEPT ![p] = IF stopOnceEmpty THEN "done" ELSE "waiting"]
          /\ UNCHANGED <<data_queue, stopOnceEmpty, nPushed, popped, dropped>>

\* a spurious wake-up of data_cond.wait
SpuriousWakeup(p) ==
    /\ pc[p] = "waiting"
    /\ pc' = [pc EXCEPT ![p] = "woken"]
    /\ UNCHANGED <<data_queue, stopOnceEmpty, nPushed, popped, dropped>>

\* try_pop: never sleeps; on an empty queue it changes nothing
TryPop(p) == pc[p] = "idle" /\ TakeFront(p)

\* bug: a plain flag, nobody is told
StopOnceEmptySilently ==
    /\ stopOnceEmpty' = TRUE
    /\ UNCHANGED <<data_queue, pc, nPushed, popped, dropped>>

\* stop_once_empty
StopOnceEmpty ==
    /\ stopOnceEmpty' = TRUE
    /\ NotifyAll
    /\ UNCHANGED <<data_queue, nPushed, popped, dropped>>

Next ==
    \/ Push
    \/ StopOnceEmpty
    \/ \E p \in Poppers : WaitAndPop(p) \/ TryPop(p) \/ SpuriousWakeup(p)

(* A popper that is awake gets the mutex and goes on; nothing makes anybody *)
(* push, stop the queue, or wake up without being notified.                 *)
Spec ==
    /\ Init
    /\ [][Next]_vars
    /\ \A p \in Poppers : WF_vars(WaitAndPop(p))

------------------------------------------------------------------------------
(* The queue always holds exactly the newest values, in the order of their  *)
(* pushes: push appends, and pop and the drop of push both take the oldest. *)
HoldsNewestInOrder ==
    \A i \in 1..Len(data_queue) :
        data_queue[i] = nPushed - Len(data_queue) + i

(* Every value older than the queued ones was either received once or       *)
(* dropped, never both and never neither.                                   *)
EveryValueAccountedFor ==
    /\ popped \cap dropped = {}
    /\ popped \cup dropped = 1..(nPushed - Len(data_queue))

(* push drops a value only for want of room: m_maxSize newer values had     *)
(* been pushed by then; an unlimited queue drops nothing.                   *)
DropsOnlyWhenFull ==
    \A v \in dropped : MaxSize > 0 /\ v + MaxSize <= nPushed

FifoOrder == HoldsNewestInOrder /\ EveryValueAccountedFor

(* No wake-up is lost: while anybody sleeps in wait_and_pop, each queued    *)
(* value has a notified popper on its way to it, although other poppers     *)
(* come and take values in between; once the queue is stopped, nobody       *)
(* sleeps at all.                                                           *)
NoLostWakeup ==
    At("waiting") # {} =>
        /\ ~stopOnceEmpty
        /\ Len(data_queue) <= Cardinality(At("woken"))

(* The queue implements the lossy fifo: a value that a popper could take is *)
(* eventually taken, and after stop_once_empty every popper gets away.      *)
Fifo == INSTANCE LossyFifo WITH
    Readers <- Poppers,
    Capacity <- MaxSize,
    buffer <- data_queue,
    put <- nPushed,
    taken <- popped,
    forgotten <- dropped,
    closed <- stopOnceEmpty,
    readers <- Poppers \ At("done")

ImplementsLossyFifo == Fifo!FifoSpec
==============================================================================
