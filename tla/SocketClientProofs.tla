-------------------------- MODULE SocketClientProofs ---------------------------
(***************************************************************************)
(* Theorems about SocketClient, for any number of senders and readers and  *)
(* any sizes of messages and buffer.                                       *)
(***************************************************************************)
EXTENDS SocketClient, TLAPS

LEMMA InitType == Init => TypeOK
<1> SUFFICES ASSUME Init
             PROVE  TypeOK
  OBVIOUS
<1> USE DEF Init
<1>1. ThreadTypeOK
  BY DEF ThreadTypeOK, Threads, SenderStates, ReaderStates, StopperStates
<1>2. LocksOK
  BY ThreadsAssumption
     DEF LocksOK, ThreadsAssumption, Threads, Connecting, Sending, PollStates
<1>3. DataTypeOK
  <2>1. 0 \in 0..MsgLen /\ 0 \in 0..SockBuf
    BY SizesAssumption DEF SizesAssumption
  <2>2. QED
    BY <2>1 DEF DataTypeOK, SocketStates
<1>4. QED
  BY <1>1, <1>2, <1>3 DEF TypeOK

------------------------------------------------------------------------------
(* What a step of one thread does to the program counters. *)

LEMMA GoesType ==
  ASSUME ThreadTypeOK, NEW t \in Threads, NEW from, NEW to, Goes(t, from, to),
         t \in Senders => to \in SenderStates,
         t \in Readers => to \in ReaderStates,
         t = Stopper => to \in StopperStates,
         polled' \in [Threads -> {"none", "current", "closed"}]
  PROVE  ThreadTypeOK'
  BY ThreadsAssumption DEF ThreadTypeOK, Goes, Threads, ThreadsAssumption

LEMMA NotifyAllType ==
  ASSUME ThreadTypeOK, NEW t \in Threads, NEW to, NotifyAll(t, to),
         t \in Senders => to \in SenderStates,
         t \in Readers => to \in ReaderStates,
         t = Stopper => to \in StopperStates,
         UNCHANGED polled
  PROVE  ThreadTypeOK'
<1>1. /\ \A u \in Threads : pc[u] = "asleep" => u \in Readers
      /\ "ready" \in ReaderStates
  BY DEF ThreadTypeOK, SenderStates, ReaderStates, StopperStates, PollStates,
         Threads
<1>2. pc' \in [Threads -> SenderStates \cup ReaderStates \cup StopperStates]
  BY DEF NotifyAll, ThreadTypeOK, Threads, ReaderStates
<1>3. QED
  BY <1>1, <1>2, ThreadsAssumption
     DEF NotifyAll, ThreadTypeOK, Threads, ThreadsAssumption

LEMMA MovesType ==
  ASSUME ThreadTypeOK, NEW t \in Threads, NEW from, NEW to, Moves(t, from, to),
         t \in Senders => to \in SenderStates,
         t \in Readers => to \in ReaderStates,
         t = Stopper => to \in StopperStates
  PROVE  ThreadTypeOK'
  BY GoesType DEF Moves, ThreadTypeOK

LEMMA ThrowsType ==
  ASSUME ThreadTypeOK, NEW t \in Senders \cup Readers, NEW from, Throws(t, from)
  PROVE  ThreadTypeOK'
<1>1. /\ t \in Threads /\ t # Stopper
      /\ "close" \in SenderStates /\ "close" \in ReaderStates
  BY ThreadsAssumption DEF ThreadsAssumption, Threads, SenderStates,
                           ReaderStates
<1>2. polled' \in [Threads -> {"none", "current", "closed"}]
  BY DEF Throws, ThreadTypeOK
<1>3. QED
  BY <1>1, <1>2, GoesType DEF Throws

LEMMA SocketGoneType ==
  ASSUME ThreadTypeOK, SocketGone
  PROVE  polled' \in [Threads -> {"none", "current", "closed"}]
  BY DEF ThreadTypeOK, SocketGone

LEMMA ConnectThreads ==
  ASSUME ThreadTypeOK, NEW s \in Senders, Connect(s)
  PROVE  ThreadTypeOK'
<1>1. s \in Threads /\ s \notin Readers /\ s # Stopper
  BY ThreadsAssumption DEF ThreadsAssumption, Threads
<1>2. {"attempt", "connecting", "backoff", "check"} \subseteq SenderStates
  BY DEF SenderStates
<1>3. polled \in [Threads -> {"none", "current", "closed"}]
  BY DEF ThreadTypeOK
<1>4. CASE LockConn(s)
  BY <1>1, <1>2, <1>3, <1>4, GoesType DEF LockConn
<1>5. CASE ConnectStopped(s)
  BY <1>1, <1>2, <1>3, <1>5, GoesType DEF ConnectStopped, LeaveConnect
<1>6. CASE AlreadyConnected(s)
  BY <1>1, <1>2, <1>6, NotifyAllType DEF AlreadyConnected, LeaveConnect
<1>7. CASE MakeSocket(s)
  BY <1>1, <1>2, <1>3, <1>7, GoesType DEF MakeSocket, NewSocket
<1>8. CASE Connected(s)
  BY <1>1, <1>2, <1>8, NotifyAllType DEF Connected, LeaveConnect
<1>9. CASE ConnectFailed(s)
  BY <1>1, <1>2, <1>9, GoesType, SocketGoneType DEF ConnectFailed
<1>10. CASE TryAgain(s)
  BY <1>1, <1>2, <1>10, MovesType DEF TryAgain
<1>11. CASE GiveUp(s)
  BY <1>1, <1>2, <1>3, <1>11, GoesType DEF GiveUp, LeaveConnect
<1>12. QED
  BY <1>4, <1>5, <1>6, <1>7, <1>8, <1>9, <1>10, <1>11 DEF Connect

LEMMA PollThreads ==
  ASSUME ThreadTypeOK, NEW t \in Senders \cup Readers, PollSocket(t)
  PROVE  ThreadTypeOK'
<1>1. /\ t \in Threads /\ t # Stopper
      /\ t \in Senders => t \notin Readers
  BY ThreadsAssumption DEF ThreadsAssumption, Threads
<1>2. /\ {"pollEnter", "polling", "write"} \subseteq SenderStates
      /\ {"pollEnter", "polling", "read"} \subseteq ReaderStates
  BY DEF SenderStates, ReaderStates, PollStates
<1>3. CASE PollCheck(t)
  BY <1>1, <1>2, <1>3, ThrowsType, MovesType DEF PollCheck
<1>4. CASE PollEnter(t)
  <2>1. polled' \in [Threads -> {"none", "current", "closed"}]
    BY <1>4 DEF PollEnter, ThreadTypeOK
  <2>2. QED
    BY <1>1, <1>2, <1>4, <2>1, GoesType DEF PollEnter
<1>5. CASE PollReturns(t)
  <2>1. polled' \in [Threads -> {"none", "current", "closed"}]
    BY <1>5 DEF PollReturns, ThreadTypeOK
  <2>2. QED
    BY <1>1, <1>2, <1>5, <2>1, GoesType DEF PollReturns
<1>6. CASE PollFails(t) \/ PollThrows(t)
  BY <1>6, ThrowsType DEF PollFails, PollThrows
<1>7. QED
  BY <1>3, <1>4, <1>5, <1>6 DEF PollSocket

LEMMA SendThreads ==
  ASSUME ThreadTypeOK, NEW s \in Senders, SendStart(s) \/ SendData(s)
  PROVE  ThreadTypeOK'
<1>1. s \in Threads /\ s \notin Readers /\ s # Stopper
  BY ThreadsAssumption DEF ThreadsAssumption, Threads
<1>2. {"idle", "lockConn", "check", "lockSend", "loop", "pollCheck"}
        \subseteq SenderStates
  BY DEF SenderStates, PollStates
<1>3. polled \in [Threads -> {"none", "current", "closed"}]
  BY DEF ThreadTypeOK
<1>4. CASE SendStart(s)
  BY <1>1, <1>2, <1>3, <1>4, GoesType DEF SendStart
<1>5. CASE SendCheck(s)
  BY <1>1, <1>2, <1>5, ThrowsType, MovesType DEF SendCheck
<1>6. CASE LockSend(s)
  BY <1>1, <1>2, <1>3, <1>6, GoesType DEF LockSend
<1>7. CASE SendLoop(s)
  BY <1>1, <1>2, <1>3, <1>7, GoesType DEF SendLoop
<1>8. ASSUME NEW n \in 1..MsgLen, Write(s, n)
      PROVE  ThreadTypeOK'
  BY <1>1, <1>2, <1>3, <1>8, GoesType DEF Write
<1>9. CASE WriteNothing(s)
  BY <1>1, <1>2, <1>9, MovesType DEF WriteNothing
<1>10. CASE WriteThrows(s)
  BY <1>10, ThrowsType DEF WriteThrows
<1>11. QED
  BY <1>4, <1>5, <1>6, <1>7, <1>8, <1>9, <1>10 DEF SendData

LEMMA ReadThreads ==
  ASSUME ThreadTypeOK, NEW r \in Readers,
         ReadStart(r) \/ WaitEndsEarly(r) \/ Read(r)
  PROVE  ThreadTypeOK'
<1>1. r \in Threads /\ r \notin Senders /\ r # Stopper
  BY ThreadsAssumption DEF ThreadsAssumption, Threads
<1>2. ReaderStates =
        {"idle", "ready", "asleep", "woken", "pollCheck", "pollEnter",
        "polling",
         "read", "close"}
  BY DEF ReaderStates, PollStates
<1>3. polled \in [Threads -> {"none", "current", "closed"}]
  BY DEF ThreadTypeOK
<1>4. CASE ReadReturns(r)
  BY <1>1, <1>2, <1>3, <1>4, GoesType DEF ReadReturns
<1>5. CASE \E from, to \in ReaderStates : Moves(r, from, to)
  BY <1>1, <1>5, MovesType
<1>6. ReadStart(r) \/ WaitEndsEarly(r) \/ WaitForSocket(r) \/ WaitIsOver(r)
        \/ ReadFails(r)
        => \E from, to \in ReaderStates : Moves(r, from, to)
  BY <1>2 DEF ReadStart, WaitEndsEarly, WaitTimesOut, WaitWakes,
              WaitForSocket, WaitIsOver, ReadFails
<1>7. QED
  BY <1>4, <1>5, <1>6 DEF Read

LEMMA CloseThreads ==
  ASSUME ThreadTypeOK, NEW t \in Threads, Close(t)
  PROVE  ThreadTypeOK'
<1>1. /\ "idle" \in SenderStates /\ "idle" \in ReaderStates
      /\ "stopped" \in StopperStates
      /\ Stopper \notin Senders /\ Stopper \notin Readers
  BY ThreadsAssumption
     DEF ThreadsAssumption, SenderStates, ReaderStates, StopperStates
<1>2. QED
  BY <1>1, GoesType, SocketGoneType DEF Close

LEMMA StopThreads ==
  ASSUME ThreadTypeOK, StopFlag \/ StopNotify
  PROVE  ThreadTypeOK'
<1>1. Stopper \in Threads /\ Stopper \notin Senders /\ Stopper \notin Readers
  BY ThreadsAssumption DEF ThreadsAssumption, Threads
<1>2. {"lockStop", "close"} \subseteq StopperStates
  BY DEF StopperStates
<1>3. polled \in [Threads -> {"none", "current", "closed"}]
  BY DEF ThreadTypeOK
<1>4. CASE StopFlag
  BY <1>1, <1>2, <1>3, <1>4, GoesType DEF StopFlag
<1>5. CASE StopNotify
  BY <1>1, <1>2, <1>5, NotifyAllType DEF StopNotify
<1>6. QED
  BY <1>4, <1>5

Server == ServerReads \/ ServerAcks \/ ServerHangsUp

LEMMA ThreadStep == TypeOK /\ [Next]_vars => ThreadTypeOK'
<1> SUFFICES ASSUME TypeOK, [Next]_vars
             PROVE  ThreadTypeOK'
  OBVIOUS
<1> USE DEF TypeOK
<1>1. \A s \in Senders \cup Readers : s \in Threads
  BY DEF Threads
<1>2. Stopper \in Threads
  BY DEF Threads
<1>3. ASSUME NEW s \in Senders, SendStart(s) \/ SenderStep(s)
      PROVE  ThreadTypeOK'
  BY <1>1, <1>3, ConnectThreads, PollThreads, SendThreads, CloseThreads
     DEF SenderStep
<1>4. ASSUME NEW r \in Readers,
ReadStart(r) \/ WaitEndsEarly(r) \/ ReaderStep(r)
      PROVE  ThreadTypeOK'
  BY <1>1, <1>4, PollThreads, ReadThreads, CloseThreads DEF ReaderStep
<1>5. CASE StopFlag \/ StopperStep
  BY <1>2, <1>5, StopThreads, CloseThreads DEF StopperStep
<1>6. CASE Server
  BY <1>6 DEF Server, ServerReads, ServerAcks, ServerHangsUp, ServerKeeps,
              ThreadTypeOK
<1>7. CASE UNCHANGED vars
  BY <1>7 DEF vars, ThreadTypeOK
<1>8. QED
  BY <1>3, <1>4, <1>5, <1>6, <1>7 DEF Next, Server
------------------------------------------------------------------------------
(* The mutexes. *)

(* Between two states with the same program counters up to stretches, the   *)
(* mutexes stay where they are.                                             *)
SameStretches(t, from, to) ==
    /\ from \in Connecting <=> to \in Connecting
    /\ from \in Sending <=> to \in Sending
    /\ from # "connecting" /\ to # "connecting"

LEMMA GoesLocks ==
  ASSUME ThreadTypeOK, LocksOK, NEW t \in Threads, NEW from, NEW to,
         Goes(t, from, to), UNCHANGED <<fdMutex, sendMutex>>,
         sock' = "made" <=> sock = "made",
         t \in Senders => SameStretches(t, from, to)
  PROVE  LocksOK'
<1>1. \A s \in Senders : s # t => pc'[s] = pc[s]
  BY DEF Goes, ThreadTypeOK, Threads
<1>2. t \in Senders => pc[t] = from /\ pc'[t] = to
  BY DEF Goes, ThreadTypeOK
<1>3. QED
  BY <1>1, <1>2 DEF LocksOK, SameStretches

LEMMA NotifyAllLocks ==
  ASSUME ThreadTypeOK, NEW t \in Threads, NEW to, NotifyAll(t, to)
  PROVE  \A s \in Senders : pc'[s] = IF s = t THEN to ELSE pc[s]
  BY DEF NotifyAll, ThreadTypeOK, Threads, SenderStates, PollStates

LEMMA ThrowsLocks ==
  ASSUME ThreadTypeOK, LocksOK, NEW t \in Senders \cup Readers, NEW from,
         Throws(t, from), t \in Senders => from \notin Connecting
  PROVE  LocksOK'
<1>1. t \in Threads /\ t # NoOne
  BY ThreadsAssumption DEF ThreadsAssumption, Threads
<1>2. /\ \A s \in Senders : s # t => pc'[s] = pc[s]
      /\ t \in Senders => pc[t] = from /\ pc'[t] = "close"
  BY <1>1 DEF Throws, Goes, ThreadTypeOK, Threads
<1>3. NoOne \notin Senders
  BY ThreadsAssumption DEF ThreadsAssumption
<1>4. /\ UNCHANGED <<fdMutex, sock>>
      /\ sendMutex' = IF sendMutex = t THEN NoOne ELSE sendMutex
  BY DEF Throws, sockVars
<1>5. "connecting" \in Connecting /\ "close" \notin Connecting \cup Sending
  BY DEF Connecting, Sending, PollStates
<1>6. QED
  BY <1>2, <1>3, <1>4, <1>5 DEF LocksOK

LEMMA ConnectLocks ==
  ASSUME ThreadTypeOK, LocksOK, DataTypeOK, NEW s \in Senders, Connect(s)
  PROVE  LocksOK'
<1>1. s \in Threads
  BY DEF Threads
<1>2. NoOne \notin Senders
  BY ThreadsAssumption DEF ThreadsAssumption
<1> USE DEF Connecting, Sending, PollStates
<1>3. ASSUME NEW to \in {"attempt", "connecting", "backoff", "check"},
             \A u \in Senders : pc'[u] = IF u = s THEN to ELSE pc[u],
             fdMutex' = IF to = "check" THEN NoOne ELSE s,
             fdMutex = s \/ fdMutex = NoOne,
             UNCHANGED sendMutex,
             pc[s] \in Connecting \cup {"lockConn"},
             sock' = "made" <=> to = "connecting"
      PROVE  LocksOK'
  BY <1>2, <1>3 DEF LocksOK
<1>4. \A from, to : Goes(s, from, to) =>
         /\ pc[s] = from
         /\ \A u \in Senders : pc'[u] = IF u = s THEN to ELSE pc[u]
  BY <1>1 DEF Goes, ThreadTypeOK, Threads
<1>5. pc[s] \in Connecting => fdMutex = s
  BY DEF LocksOK
<1>6. pc[s] \in {"attempt", "backoff"} \/ fdMutex = NoOne => sock # "made"
  BY <1>2 DEF LocksOK
<1>7. CASE LockConn(s)
  BY <1>3, <1>4, <1>6, <1>7 DEF LockConn, sockVars
<1>8. CASE ConnectStopped(s)
  BY <1>3, <1>4, <1>5, <1>6, <1>8 DEF ConnectStopped, LeaveConnect, sockVars
<1>9. CASE AlreadyConnected(s)
  BY <1>1, <1>3, <1>5, <1>6, <1>9, NotifyAllLocks
     DEF AlreadyConnected, LeaveConnect, sockVars
<1>10. CASE MakeSocket(s)
  BY <1>3, <1>4, <1>5, <1>10 DEF MakeSocket, NewSocket
<1>11. CASE Connected(s)
  BY <1>1, <1>3, <1>5, <1>11, NotifyAllLocks DEF Connected, LeaveConnect
<1>12. CASE ConnectFailed(s)
  BY <1>3, <1>4, <1>5, <1>12 DEF ConnectFailed, SocketGone, StreamEnds
<1>13. CASE TryAgain(s)
  BY <1>3, <1>4, <1>5, <1>6, <1>13 DEF TryAgain, Moves, sockVars
<1>14. CASE GiveUp(s)
  BY <1>3, <1>4, <1>5, <1>6, <1>14 DEF GiveUp, LeaveConnect, sockVars
<1>15. QED
  BY <1>7, <1>8, <1>9, <1>10, <1>11, <1>12, <1>13, <1>14 DEF Connect

LEMMA PollLocks ==
  ASSUME ThreadTypeOK, LocksOK, NEW t \in Senders \cup Readers, PollSocket(t)
  PROVE  LocksOK'
<1>1. t \in Threads
  BY DEF Threads
<1> USE DEF Connecting, Sending, PollStates
<1>2. CASE PollCheck(t)
  BY <1>1, <1>2, GoesLocks, ThrowsLocks DEF PollCheck, Moves, SameStretches,
                                            sockVars
<1>3. CASE PollEnter(t)
  BY <1>1, <1>3, GoesLocks DEF PollEnter, SameStretches, sockVars
<1>4. CASE PollReturns(t)
  BY <1>1, <1>4, GoesLocks DEF PollReturns, SameStretches, sockVars
<1>5. CASE PollFails(t) \/ PollThrows(t)
  BY <1>5, ThrowsLocks DEF PollFails, PollThrows
<1>6. QED
  BY <1>2, <1>3, <1>4, <1>5 DEF PollSocket

LEMMA SendLocks ==
  ASSUME ThreadTypeOK, LocksOK, NEW s \in Senders, SendStart(s) \/ SendData(s)
  PROVE  LocksOK'
<1>1. s \in Threads /\ s # NoOne /\ NoOne \notin Senders
  BY ThreadsAssumption DEF Threads, ThreadsAssumption
<1> USE DEF Connecting, Sending, PollStates
<1>2. CASE SendStart(s)
  BY <1>1, <1>2, GoesLocks DEF SendStart, SameStretches, sockVars
<1>3. CASE SendCheck(s)
  BY <1>1, <1>3, GoesLocks, ThrowsLocks DEF SendCheck, Moves, SameStretches,
                                            sockVars
<1>4. \A from, to : Goes(s, from, to) =>
         /\ pc[s] = from
         /\ \A u \in Senders : pc'[u] = IF u = s THEN to ELSE pc[u]
  BY <1>1 DEF Goes, ThreadTypeOK, Threads
<1>5. CASE LockSend(s)
  BY <1>1, <1>4, <1>5 DEF LockSend, LocksOK, sockVars
<1>6. CASE SendLoop(s)
  <2>1. CASE stopClient \/ left[s] = 0
    BY <1>1, <1>4, <1>6, <2>1 DEF SendLoop, LocksOK, sockVars
  <2>2. CASE ~(stopClient \/ left[s] = 0)
    BY <1>1, <1>6, <2>2, GoesLocks DEF SendLoop, SameStretches, sockVars
  <2>3. QED
    BY <2>1, <2>2
<1>7. ASSUME NEW n \in 1..MsgLen, Write(s, n)
      PROVE  LocksOK'
  BY <1>1, <1>7, GoesLocks DEF Write, SameStretches
<1>8. CASE WriteNothing(s)
  BY <1>1, <1>8, GoesLocks DEF WriteNothing, Moves, SameStretches, sockVars
<1>9. CASE WriteThrows(s)
  BY <1>9, ThrowsLocks DEF WriteThrows
<1>10. QED
  BY <1>2, <1>3, <1>5, <1>6, <1>7, <1>8, <1>9 DEF SendData

LEMMA OtherLocks ==
  ASSUME ThreadTypeOK, LocksOK, NEW t \in Threads, NEW from, NEW to,
         Goes(t, from, to), t \notin Senders,
         UNCHANGED <<fdMutex, sendMutex>>, sock' = "made" <=> sock = "made"
  PROVE  LocksOK'
  BY GoesLocks

LEMMA CloseLocks ==
  ASSUME ThreadTypeOK, LocksOK, NEW t \in Threads, Close(t)
  PROVE  LocksOK'
<1>1. sock # "made"
  BY ThreadsAssumption DEF Close, LocksOK, ThreadsAssumption, Connecting
<1>2. sock' # "made"
  BY DEF Close, SocketGone, StreamEnds
<1>3. Stopper \notin Senders
  BY ThreadsAssumption DEF ThreadsAssumption
<1>4. QED
  BY <1>1, <1>2, <1>3, GoesLocks
     DEF Close, SameStretches, Connecting, Sending, PollStates

LEMMA LocksStep == TypeOK /\ [Next]_vars => LocksOK'
<1> SUFFICES ASSUME TypeOK, [Next]_vars
             PROVE  LocksOK'
  OBVIOUS
<1>1. ThreadTypeOK /\ LocksOK /\ DataTypeOK
  BY DEF TypeOK
<1>2. /\ \A t \in Senders \cup Readers : t \in Threads
      /\ \A r \in Readers : r \notin Senders
      /\ Stopper \in Threads /\ Stopper \notin Senders
  BY ThreadsAssumption DEF Threads, ThreadsAssumption
<1>3. ASSUME NEW s \in Senders, SendStart(s) \/ SenderStep(s)
      PROVE  LocksOK'
  BY <1>1, <1>2, <1>3, ConnectLocks, PollLocks, SendLocks, CloseLocks
     DEF SenderStep
<1>4. ASSUME NEW r \in Readers,
ReadStart(r) \/ WaitEndsEarly(r) \/ ReaderStep(r)
      PROVE  LocksOK'
  <2>1. CASE PollSocket(r) \/ Close(r)
    BY <1>1, <1>2, <2>1, PollLocks, CloseLocks
  <2>2. CASE ReadStart(r) \/ WaitEndsEarly(r) \/ Read(r)
    <3>1. /\ \E from, to : Goes(r, from, to)
          /\ UNCHANGED <<fdMutex, sendMutex, sock>>
      BY <2>2 DEF ReadStart, WaitEndsEarly, WaitTimesOut, WaitWakes, Read,
                  WaitForSocket, WaitIsOver, ReadReturns, ReadFails, Moves,
                  sockVars
    <3>2. QED
      BY <1>1, <1>2, <3>1, OtherLocks
  <2>3. QED
    BY <1>4, <2>1, <2>2 DEF ReaderStep
<1>5. CASE StopFlag
  BY <1>1, <1>2, <1>5, OtherLocks DEF StopFlag, sockVars
<1>6. CASE StopNotify
  <2>1. \A s \in Senders : pc'[s] = pc[s]
    BY <1>1, <1>2, <1>6, NotifyAllLocks DEF StopNotify
  <2>2. QED
    BY <1>1, <1>6, <2>1 DEF StopNotify, LocksOK, sockVars
<1>7. CASE Close(Stopper)
  BY <1>1, <1>2, <1>7, CloseLocks
<1>8. CASE Server
  BY <1>1, <1>8 DEF Server, ServerReads, ServerAcks, ServerHangsUp, ServerKeeps,
                    LocksOK
<1>9. CASE UNCHANGED vars
  BY <1>1, <1>9 DEF vars, LocksOK
<1>10. QED
  BY <1>3, <1>4, <1>5, <1>6, <1>7, <1>8, <1>9 DEF Next, Server, StopperStep
------------------------------------------------------------------------------
(* The data, and the types as a whole. *)

LEMMA SocketGoneData ==
  ASSUME DataTypeOK, SocketGone, UNCHANGED <<stopClient, left>>
  PROVE  DataTypeOK'
<1>1. 0 \in 0..SockBuf
  BY SizesAssumption DEF SizesAssumption
<1>2. QED
  BY <1>1 DEF SocketGone, StreamEnds, DataTypeOK, SocketStates

LEMMA WriteData ==
  ASSUME DataTypeOK, NEW s \in Senders, NEW n \in 1..MsgLen, Write(s, n)
  PROVE  DataTypeOK'
<1>1. /\ MsgLen \in Nat /\ SockBuf \in Nat
      /\ left[s] \in 0..MsgLen /\ toServer \in 0..SockBuf /\ n \in 1..left[s]
      /\ n <= SockBuf - toServer
  BY SizesAssumption DEF SizesAssumption, DataTypeOK, Write
<1>2. left[s] - n \in 0..MsgLen /\ toServer + n \in 0..SockBuf
  BY <1>1
<1>3. left' \in [Senders -> 0..MsgLen] /\ toServer' \in 0..SockBuf
  BY <1>2 DEF Write, DataTypeOK
<1>4. tail' \in Senders \cup {NoOne}
  BY DEF Write, DataTypeOK
<1>5. QED
  BY <1>3, <1>4 DEF Write, DataTypeOK

LEMMA SendStartData ==
  ASSUME DataTypeOK, NEW s \in Senders, SendStart(s)
  PROVE  DataTypeOK'
<1>1. MsgLen \in 0..MsgLen
  BY SizesAssumption DEF SizesAssumption
<1>2. QED
  BY <1>1 DEF SendStart, DataTypeOK, sockVars

LEMMA ServerData ==
  ASSUME DataTypeOK, Server
  PROVE  DataTypeOK'
<1>1. toServer' \in 0..SockBuf
  BY SizesAssumption
     DEF Server, ServerReads, ServerAcks, ServerHangsUp, ServerKeeps,
         SizesAssumption, DataTypeOK
<1>2. QED
  BY <1>1 DEF Server, ServerReads, ServerAcks, ServerHangsUp, ServerKeeps,
              DataTypeOK, SocketStates

(* The steps that touch neither the socket nor a message.                   *)
DataStays == UNCHANGED <<sockVars, left, stopClient>>

LEMMA MovesStay ==
  /\ \A t, from, to : Moves(t, from, to) => DataStays
  /\ \A t, from : Throws(t, from) => DataStays
  BY DEF Moves, Throws, DataStays

LEMMA PollStays == \A t : PollSocket(t) => DataStays
  BY MovesStay DEF PollSocket, PollCheck, PollEnter, PollFails, PollReturns,
                   PollThrows,
                   DataStays

LEMMA ConnectStays ==
  \A s : \/ LockConn(s) \/ ConnectStopped(s) \/ AlreadyConnected(s)
         \/ TryAgain(s) \/ GiveUp(s)
         => DataStays
  BY MovesStay DEF LockConn, ConnectStopped, AlreadyConnected, TryAgain, GiveUp,
                   LeaveConnect, DataStays

LEMMA SendStays ==
  \A s : \/ SendCheck(s) \/ LockSend(s) \/ SendLoop(s)
         \/ WriteNothing(s) \/ WriteThrows(s)
         => DataStays
  BY MovesStay DEF SendCheck, LockSend, SendLoop, WriteNothing, WriteThrows,
                   DataStays

LEMMA ReadStays ==
  \A r : \/ ReadStart(r) \/ WaitEndsEarly(r) \/ WaitForSocket(r)
         \/ WaitIsOver(r) \/ ReadFails(r)
         => DataStays
  BY MovesStay DEF ReadStart, WaitEndsEarly, WaitTimesOut, WaitWakes,
                   WaitForSocket, WaitIsOver, ReadFails

LEMMA StaysData == DataTypeOK /\ DataStays => DataTypeOK'
  BY DEF DataStays, DataTypeOK, sockVars

LEMMA ConnectData ==
  ASSUME DataTypeOK, NEW s \in Senders, Connect(s)
  PROVE  DataTypeOK'
<1>1. CASE MakeSocket(s)
  BY <1>1 DEF MakeSocket, NewSocket, DataTypeOK, SocketStates
<1>2. CASE Connected(s)
  BY <1>2 DEF Connected, LeaveConnect, DataTypeOK, SocketStates
<1>3. CASE ConnectFailed(s)
  BY <1>3, SocketGoneData DEF ConnectFailed
<1>4. QED
  BY <1>1, <1>2, <1>3, ConnectStays, StaysData DEF Connect

LEMMA DataStep == TypeOK /\ [Next]_vars => DataTypeOK'
<1> SUFFICES ASSUME TypeOK, [Next]_vars
             PROVE  DataTypeOK'
  OBVIOUS
<1>1. DataTypeOK
  BY DEF TypeOK
<1>2. ASSUME NEW t \in Threads, Close(t)
      PROVE  DataTypeOK'
  BY <1>1, <1>2, SocketGoneData DEF Close
<1>3. ASSUME NEW s \in Senders, SendStart(s) \/ SenderStep(s)
      PROVE  DataTypeOK'
  BY <1>1, <1>2, <1>3, SendStartData, ConnectData, PollStays, SendStays,
     StaysData, WriteData DEF SenderStep, SendData, Threads
<1>4. ASSUME NEW r \in Readers,
ReadStart(r) \/ WaitEndsEarly(r) \/ ReaderStep(r)
      PROVE  DataTypeOK'
  <2>1. CASE ReadReturns(r)
    BY <1>1, <2>1 DEF ReadReturns, DataTypeOK
  <2>2. QED
    BY <1>1, <1>2, <1>4, <2>1, PollStays, ReadStays, StaysData
       DEF ReaderStep, Read, Threads
<1>5. CASE StopFlag
  BY <1>1, <1>5 DEF StopFlag, sockVars, DataTypeOK
<1>6. CASE StopNotify
  BY <1>1, <1>6, StaysData DEF StopNotify, DataStays
<1>7. CASE Close(Stopper)
  BY <1>2, <1>7 DEF Threads
<1>8. CASE Server
  BY <1>1, <1>8, ServerData
<1>9. CASE UNCHANGED vars
  BY <1>1, <1>9 DEF vars, DataTypeOK
<1>10. QED
  BY <1>3, <1>4, <1>5, <1>6, <1>7, <1>8, <1>9 DEF Next, Server, StopperStep

(* The types and the places of the mutexes hold for any number of threads:  *)
(* TypeOK is inductive.                                                     *)
THEOREM TypeCorrect == Spec => []TypeOK
<1>1. TypeOK /\ [Next]_vars => TypeOK'
  BY ThreadStep, LocksStep, DataStep DEF TypeOK
<1>2. QED
  BY <1>1, InitType, PTL DEF Spec
------------------------------------------------------------------------------
(* What steps do to a sender and its message. *)

(* A step of one thread leaves the others where they are.                   *)
LEMMA OthersStay ==
  ASSUME ThreadTypeOK, NEW t \in Threads, NEW from, NEW to, Goes(t, from, to)
  PROVE  /\ pc[t] = from /\ pc'[t] = to
         /\ \A u \in Senders \ {t} : pc'[u] = pc[u]
  BY DEF Goes, ThreadTypeOK, Threads

\* before m_sendMutex, and beyond the loop's condition
Unsent == Connecting \cup {"lockConn", "check", "lockSend"}
PastLoop == Sending \ {"loop"}

(* Where a sender is after a step of its own or of others; and how it gets  *)
(* beyond its loop's condition, and out of the sending stretch.             *)
LEMMA SenderMoves ==
  ASSUME TypeOK, [Next]_vars, NEW s \in Senders
  PROVE  /\ pc'[s] \in Unsent => pc[s] \in Unsent \/ SendStart(s)
         /\ pc'[s] \in Sending => pc[s] \in Sending \cup {"lockSend"}
         /\ pc'[s] \in PastLoop => \/ pc[s] \in PastLoop
                                   \/ pc[s] = "loop" /\ ~stopClient
         /\ pc[s] \in Sending \cup {"close"} =>
              \/ pc'[s] \in Sending \cup {"close"}
              \/ pc[s] = "loop" /\ (stopClient \/ left[s] = 0)
              \/ tail' = NoOne
<1>1. /\ Senders \subseteq Threads /\ Readers \subseteq Threads
      /\ Stopper \in Threads
      /\ \A u \in Readers \cup {Stopper} : u \notin Senders
  BY ThreadsAssumption DEF ThreadsAssumption, Threads
<1>2. ThreadTypeOK
  BY DEF TypeOK
<1>3. pc[s] # "asleep"
  BY <1>2 DEF ThreadTypeOK, SenderStates, PollStates
<1>4. ASSUME NEW t \in Threads, t # s, NEW from, NEW to, Goes(t, from, to)
      PROVE  pc'[s] = pc[s]
  BY <1>1, <1>2, <1>4, OthersStay
<1>5. ASSUME NEW t \in Threads, t # s, NEW to, NotifyAll(t, to)
      PROVE  pc'[s] = pc[s]
  BY <1>1, <1>3, <1>5 DEF NotifyAll
<1>6. ASSUME NEW from, NEW to, Goes(s, from, to)
      PROVE  pc[s] = from /\ pc'[s] = to
  BY <1>1, <1>2, <1>6, OthersStay
<1>7. ASSUME NEW t \in Senders, SendStart(t) \/ SenderStep(t)
      PROVE  \/ pc'[s] = pc[s]
             \/ t = s
  <2>1. CASE Connect(t)
    BY <1>1, <1>4, <1>5, <2>1
       DEF Connect, LockConn, ConnectStopped, AlreadyConnected, MakeSocket,
           NewSocket, Connected, ConnectFailed, TryAgain, GiveUp, Moves
  <2>2. CASE PollSocket(t)
    BY <1>1, <1>4, <2>2
       DEF PollSocket, PollCheck, PollEnter, PollFails, PollReturns,
           PollThrows, Throws,
           Moves
  <2>3. CASE SendStart(t) \/ SendData(t) \/ Close(t)
    BY <1>1, <1>4, <2>3
       DEF SendStart, SendData, SendCheck, LockSend, SendLoop, Write,
           WriteNothing, WriteThrows, Close, Throws, Moves
  <2>4. QED
    BY <1>7, <2>1, <2>2, <2>3 DEF SenderStep
<1>8. CASE Connect(s)
  <2>1. pc[s] \in Unsent
    BY <1>1, <1>6, <1>8
       DEF Connect, LockConn, ConnectStopped, AlreadyConnected, MakeSocket,
           NewSocket, Connected, ConnectFailed, TryAgain, GiveUp, Moves,
           Unsent, Connecting
  <2>2. pc'[s] \in {"check", "attempt", "connecting", "backoff"}
    BY <1>1, <1>6, <1>8
       DEF Connect, LockConn, ConnectStopped, AlreadyConnected, MakeSocket,
           NewSocket, Connected, ConnectFailed, TryAgain, GiveUp, Moves,
           NotifyAll
  <2>3. QED
    BY <2>1, <2>2 DEF Sending, PollStates, PastLoop, Unsent, Connecting
<1>9. CASE PollSocket(s)
  BY <1>6, <1>9
     DEF PollSocket, PollCheck, PollEnter, PollFails, PollReturns, PollThrows,
         Throws,
         Moves, Sending, PollStates, PastLoop, Unsent, Connecting
<1>10. CASE SendStart(s) \/ Close(s)
  <2>1. pc'[s] \in {"lockConn", "check", "idle", "stopped"}
    BY <1>6, <1>10 DEF SendStart, Close
  <2>2. Close(s) => pc'[s] \in {"idle", "stopped"} /\ tail' = NoOne
    BY <1>6 DEF Close, SocketGone, StreamEnds
  <2>3. QED
    BY <1>6, <1>10, <2>1, <2>2 DEF SendStart, Sending, PollStates, PastLoop,
                                   Unsent, Connecting
<1>11. CASE SendData(s)
  BY <1>6, <1>11
     DEF SendData, SendCheck, LockSend, SendLoop, Write, WriteNothing,
         WriteThrows, Throws, Moves, Sending, PollStates, PastLoop, Unsent,
         Connecting
<1>12. CASE \E r \in Readers : ReadStart(r) \/ WaitEndsEarly(r) \/ ReaderStep(r)
  <2>1. pc'[s] = pc[s]
    BY <1>1, <1>4, <1>12
       DEF ReadStart, WaitEndsEarly, WaitTimesOut, WaitWakes, ReaderStep, Read,
           WaitForSocket, WaitIsOver, ReadReturns, ReadFails, PollSocket,
           PollCheck, PollEnter, PollFails, PollReturns, PollThrows, Throws,
           Moves, Close
  <2>2. QED
    BY <2>1
<1>13. CASE StopFlag \/ StopperStep
  <2>1. pc'[s] = pc[s]
    BY <1>1, <1>4, <1>5, <1>13
       DEF StopFlag, StopperStep, StopNotify, Close
  <2>2. QED
    BY <2>1
<1>14. CASE Server \/ UNCHANGED vars
  BY <1>14 DEF Server, ServerReads, ServerAcks, ServerHangsUp, ServerKeeps, vars
<1>15. QED
  BY <1>7, <1>8, <1>9, <1>10, <1>11, <1>12, <1>13, <1>14
     DEF Next, SenderStep, Server

TailGoesOn == tail' = tail \/ (sock' = "none" /\ tail' = NoOne)

(* Only SendStart and Write change what is left of a message, and only      *)
(* Write and the end of a connection what its stream ends in.               *)
LEMMA LeftMoves ==
  ASSUME [Next]_vars
  PROVE  \/ left' = left /\ TailGoesOn
         \/ \E s \in Senders : SendStart(s)
         \/ \E s \in Senders : \E n \in 1..MsgLen : Write(s, n)
<1> USE DEF TailGoesOn
<1>1. ASSUME NEW s \in Senders, SenderStep(s),
             ~\E n \in 1..MsgLen : Write(s, n)
      PROVE  left' = left /\ TailGoesOn
  <2>1. CASE Connect(s)
    BY <2>1
       DEF Connect, LockConn, ConnectStopped, AlreadyConnected, MakeSocket,
           NewSocket, Connected, ConnectFailed, TryAgain, GiveUp, LeaveConnect,
           Moves, SocketGone, StreamEnds, sockVars
  <2>2. CASE PollSocket(s)
    BY <2>2, PollStays DEF DataStays, sockVars
  <2>3. CASE SendData(s)
    BY <1>1, <2>3
       DEF SendData, SendCheck, LockSend, SendLoop, WriteNothing, WriteThrows,
           Throws, Moves, sockVars
  <2>4. CASE Close(s)
    BY <2>4 DEF Close, SocketGone, StreamEnds
  <2>5. QED
    BY <1>1, <2>1, <2>2, <2>3, <2>4 DEF SenderStep
<1>2. ASSUME NEW r \in Readers,
ReadStart(r) \/ WaitEndsEarly(r) \/ ReaderStep(r)
      PROVE  left' = left /\ TailGoesOn
  <2>1. CASE PollSocket(r)
    BY <2>1, PollStays DEF DataStays, sockVars
  <2>2. CASE ReadStart(r) \/ WaitEndsEarly(r) \/ Read(r)
    BY <2>2
       DEF ReadStart, WaitEndsEarly, WaitTimesOut, WaitWakes, Read,
           WaitForSocket, WaitIsOver, ReadReturns, ReadFails, Moves, sockVars
  <2>3. CASE Close(r)
    BY <2>3 DEF Close, SocketGone, StreamEnds
  <2>4. QED
    BY <1>2, <2>1, <2>2, <2>3 DEF ReaderStep
<1>3. StopFlag \/ StopperStep \/ Server \/ UNCHANGED vars
        => left' = left /\ TailGoesOn
  BY DEF StopFlag, StopperStep, StopNotify, Close, SocketGone, StreamEnds,
         Server, ServerReads, ServerAcks, ServerHangsUp, ServerKeeps, vars,
         sockVars
<1>4. QED
  BY <1>1, <1>2, <1>3 DEF Next, Server

LEMMA OnlyWriteSends ==
  ASSUME TypeOK, [Next]_vars, NEW s \in Senders, left'[s] < left[s]
  PROVE  \E n \in 1..MsgLen : Write(s, n)
<1>1. s \in Threads /\ left \in [Senders -> 0..MsgLen] /\ MsgLen \in Nat
  BY SizesAssumption DEF SizesAssumption, Threads, TypeOK, DataTypeOK
<1>2. left[s] \in Nat /\ left[s] <= MsgLen
  BY <1>1
<1>3. ASSUME SendStart(s)
      PROVE  FALSE
  BY <1>1, <1>2, <1>3 DEF SendStart
<1>4. CASE ~SendStart(s) /\ ~\E n \in 1..MsgLen : Write(s, n)
  <2>1. left'[s] = left[s]
    BY <1>1, <1>4, LeftMoves DEF SendStart, Write
  <2>2. QED
    BY <1>2, <2>1
<1>5. QED
  BY <1>3, <1>4

LEMMA StopLasts == [Next]_vars /\ stopClient => stopClient'
<1>1. \A s : SenderStep(s) \/ SendStart(s) => UNCHANGED stopClient
  BY PollStays, SendStays
     DEF SenderStep, SendStart, Connect, LockConn, ConnectStopped,
         AlreadyConnected, MakeSocket, NewSocket, Connected, ConnectFailed,
         TryAgain, GiveUp, LeaveConnect, Moves, SendData, Write, Close,
         DataStays
<1>2. \A r : ReadStart(r) \/ WaitEndsEarly(r) \/ ReaderStep(r)
               => UNCHANGED stopClient
  BY PollStays, ReadStays DEF ReaderStep, Read, ReadReturns, Close, DataStays
<1>3. StopperStep \/ Server \/ UNCHANGED vars => UNCHANGED stopClient
  BY DEF StopperStep, StopNotify, Close, Server, ServerReads, ServerAcks,
         ServerHangsUp, ServerKeeps, vars
<1>4. QED
  BY <1>1, <1>2, <1>3 DEF Next, StopFlag, Server

------------------------------------------------------------------------------
(* Two Sends that go on do not mix their messages. *)

(* An unfinished message is being sent, or its sender is on the way to      *)
(* Close, or it was left there by a stopped sender, and then nobody gets    *)
(* beyond the loop's condition any more.                                    *)
LeftByStop == stopClient /\ \A s \in Senders : pc[s] \notin PastLoop

TailHeld ==
    tail # NoOne => /\ left[tail] # 0
                    /\ pc[tail] \in Sending \cup {"close"} \/ LeftByStop

LEMMA TailHeldStep ==
  ASSUME TypeOK, TailHeld, [Next]_vars
  PROVE  TailHeld'
<1> SUFFICES ASSUME tail' # NoOne
             PROVE  /\ left'[tail'] # 0
                    /\ pc'[tail'] \in Sending \cup {"close"} \/ LeftByStop'
  BY DEF TailHeld
<1>1. /\ left \in [Senders -> 0..MsgLen] /\ MsgLen \in Nat \ {0}
      /\ tail \in Senders \cup {NoOne} /\ Senders \subseteq Threads
  BY SizesAssumption DEF SizesAssumption, TypeOK, DataTypeOK, Threads
<1>2. CASE \E s \in Senders, n \in 1..MsgLen : Write(s, n)
  <2>1. PICK s \in Senders, n \in 1..MsgLen : Write(s, n)
    BY <1>2
  <2>2. /\ tail' = s /\ n # left[s] /\ n \in Nat /\ left[s] \in Nat
        /\ left'[s] = left[s] - n
    BY <1>1, <2>1 DEF Write
  <2>3. pc'[s] = "loop"
    BY <1>1, <2>1, OthersStay DEF Write, TypeOK
  <2>4. QED
    BY <2>2, <2>3 DEF Sending
<1>3. CASE ~\E s \in Senders, n \in 1..MsgLen : Write(s, n)
  <2>1. /\ tail' = tail /\ tail \in Senders
        /\ left' = left \/ \E s \in Senders : SendStart(s)
    BY <1>1, <1>3, LeftMoves DEF TailGoesOn, SendStart, sockVars
  <2>2. left'[tail] # 0
    BY <1>1, <2>1 DEF TailHeld, SendStart
  <2>3. stopClient => stopClient'
    BY StopLasts
  <2>4. ASSUME stopClient, \A s \in Senders : pc[s] \notin PastLoop
        PROVE  LeftByStop'
    BY <2>3, <2>4, SenderMoves DEF LeftByStop
  <2>5. CASE LeftByStop
    BY <2>1, <2>2, <2>4, <2>5 DEF LeftByStop
  <2>6. CASE pc[tail] \in Sending \cup {"close"}
    <3>1. CASE pc[tail] = "loop" /\ (stopClient \/ left[tail] = 0)
      <4>1. stopClient
        BY <2>1, <3>1 DEF TailHeld
      <4>2. sendMutex = tail
        BY <2>1, <3>1 DEF TypeOK, LocksOK, Sending
      <4>3. \A s \in Senders : pc[s] \notin PastLoop
        BY <3>1, <4>2 DEF TypeOK, LocksOK, PastLoop
      <4>4. QED
        BY <2>1, <2>2, <2>4, <4>1, <4>3
    <3>2. CASE pc'[tail] \in Sending \cup {"close"}
      BY <2>1, <2>2, <3>2
    <3>3. QED
      BY <2>1, <2>6, <3>1, <3>2, SenderMoves
  <2>7. QED
    BY <2>1, <2>5, <2>6 DEF TailHeld
<1>4. QED
  BY <1>2, <1>3

LEMMA MixedStep ==
  ASSUME TypeOK, TailHeld, [Next]_vars, NEW s \in Senders, left'[s] < left[s]
  PROVE  tail \in {NoOne, s} \/ pc[tail] = "close"
<1>1. s \in Threads /\ left \in [Senders -> 0..MsgLen] /\ MsgLen \in Nat
  BY SizesAssumption DEF SizesAssumption, Threads, TypeOK, DataTypeOK
<1>2. PICK n \in 1..MsgLen : Write(s, n)
  BY <1>1, OnlyWriteSends
<1>3. pc[s] = "write" /\ sendMutex = s
  BY <1>2 DEF Write, Goes, TypeOK, LocksOK, Sending
<1>4. ASSUME tail # NoOne
      PROVE  pc[tail] \in Sending \cup {"close"}
  BY <1>3, <1>4 DEF TailHeld, LeftByStop, PastLoop, Sending
<1>5. pc[tail] \in Sending /\ tail # NoOne => sendMutex = tail
  BY DEF TypeOK, LocksOK, DataTypeOK
<1>6. QED
  BY <1>3, <1>4, <1>5

(* SocketClient.h:140: whatever threads send, stop, lose their connection   *)
(* or make a new one, what one Send writes does not get into the message of *)
(* another one that goes on.                                                *)
THEOREM MixedOnlyBeforeCloseHolds == Spec => MixedOnlyBeforeClose
<1>1. Init => TypeOK /\ TailHeld
  BY InitType DEF Init, TailHeld
<1>2. TypeOK /\ TailHeld /\ [Next]_vars => (TypeOK /\ TailHeld)'
  BY ThreadStep, LocksStep, DataStep, TailHeldStep DEF TypeOK
<1>3. TypeOK /\ TailHeld /\ [Next]_vars
        => [\A s \in Senders : left'[s] < left[s] =>
               tail \in {NoOne, s} \/ pc[tail] = "close"]_vars
  BY MixedStep
<1>4. QED
  BY <1>1, <1>2, <1>3, PTL DEF Spec, MixedOnlyBeforeClose
------------------------------------------------------------------------------
(* What steps do to m_sockfd. *)

(* Only MakeSocket brings a socket about, and only Connected makes a        *)
(* connection of it.                                                        *)
LEMMA SockSteps ==
  ASSUME [Next]_vars
  PROVE  \/ sock' = sock
         \/ sock' = "none"
         \/ sock = "up" /\ sock' = "hup"
         \/ \E s \in Senders : MakeSocket(s) /\ sock' = "made"
         \/ \E s \in Senders : Connected(s)
<1>1. ASSUME NEW s \in Senders, SendStart(s) \/ SenderStep(s)
      PROVE  \/ sock' = sock \/ sock' = "none"
             \/ MakeSocket(s) /\ sock' = "made"
             \/ Connected(s)
  <2>1. CASE Connect(s)
    BY <2>1 DEF Connect, LockConn, ConnectStopped, AlreadyConnected, MakeSocket,
                NewSocket, ConnectFailed, TryAgain, GiveUp, Moves, SocketGone,
                StreamEnds, sockVars
  <2>2. CASE PollSocket(s)
    BY <2>2 DEF PollSocket, PollCheck, PollEnter, PollFails, PollReturns,
                PollThrows, Throws,
                Moves, sockVars
  <2>3. CASE SendStart(s) \/ SendData(s)
    BY <2>3 DEF SendStart, SendData, SendCheck, LockSend, SendLoop, Write,
                WriteNothing, WriteThrows, Throws, Moves, sockVars
  <2>4. CASE Close(s)
    BY <2>4 DEF Close, SocketGone, StreamEnds
  <2>5. QED
    BY <1>1, <2>1, <2>2, <2>3, <2>4 DEF SenderStep
<1>2. ASSUME NEW r \in Readers,
ReadStart(r) \/ WaitEndsEarly(r) \/ ReaderStep(r)
      PROVE  sock' = sock \/ sock' = "none"
  <2>1. CASE PollSocket(r)
    BY <2>1 DEF PollSocket, PollCheck, PollEnter, PollFails, PollReturns,
                PollThrows, Throws,
                Moves, sockVars
  <2>2. CASE ReadStart(r) \/ WaitEndsEarly(r) \/ Read(r)
    BY <2>2 DEF ReadStart, WaitEndsEarly, WaitTimesOut, WaitWakes, Read,
                WaitForSocket, WaitIsOver, ReadReturns, ReadFails, Moves,
                sockVars
  <2>3. CASE Close(r)
    BY <2>3 DEF Close, SocketGone, StreamEnds
  <2>4. QED
    BY <1>2, <2>1, <2>2, <2>3 DEF ReaderStep
<1>3. StopFlag \/ StopperStep => sock' = sock \/ sock' = "none"
  BY DEF StopFlag, StopperStep, StopNotify, Close, SocketGone, StreamEnds,
         sockVars
<1>4. Server \/ UNCHANGED vars => sock' = sock \/ (sock = "up" /\ sock' = "hup")
  BY DEF Server, ServerReads, ServerAcks, ServerHangsUp, vars
<1>5. QED
  BY <1>1, <1>2, <1>3, <1>4 DEF Next, Server

(* A socket is never replaced without being closed, for any number of       *)
(* threads that find at the same time that there is none.                   *)
THEOREM NoSocketLostHolds == Spec => NoSocketLost
<1>1. ASSUME TypeOK, [Next]_vars
      PROVE  sock' = "made" => sock \in {"none", "made"}
  <2>1. \A s \in Senders : MakeSocket(s) => sock = "none"
    BY DEF MakeSocket
  <2>2. \A s \in Senders : Connected(s) => sock' = "up"
    BY DEF Connected
  <2>3. QED
    BY <1>1, <2>1, <2>2, SockSteps
<1>2. QED
  BY <1>1, TypeCorrect, PTL DEF Spec, NoSocketLost

(* What Stop relies on: it set m_stopClient before it went for m_fdMutex, so *)
(* that whoever has the mutex after it does not make a socket any more.      *)
StopInv ==
    /\ TypeOK
    /\ pc[Stopper] # "idle" => stopClient
    /\ StoppedStaysClosed

LEMMA StopperAlone ==
  ASSUME TypeOK, [Next]_vars
  PROVE  \/ pc'[Stopper] = pc[Stopper] /\ (stopClient => stopClient')
         \/ StopFlag
         \/ StopNotify
         \/ Close(Stopper)
<1>0. /\ \A t \in Senders \cup Readers : t \in Threads /\ t # Stopper
      /\ Stopper \in Threads
  BY ThreadsAssumption DEF ThreadsAssumption, Threads
<1>1. pc[Stopper] # "asleep"
  BY DEF TypeOK, ThreadTypeOK, StopperStates
<1>2. pc \in [Threads -> SenderStates \cup ReaderStates \cup StopperStates]
  BY DEF TypeOK, ThreadTypeOK
<1>3. ASSUME NEW t \in Senders \cup Readers, NEW from, NEW to, Goes(t, from, to)
      PROVE  pc'[Stopper] = pc[Stopper]
  BY <1>0, <1>2, <1>3 DEF Goes
<1>4. ASSUME NEW t \in Senders \cup Readers, NEW to, NotifyAll(t, to)
      PROVE  pc'[Stopper] = pc[Stopper]
  BY <1>0, <1>1, <1>4 DEF NotifyAll
<1>5. ASSUME NEW s \in Senders, SendStart(s) \/ SenderStep(s)
      PROVE  pc'[Stopper] = pc[Stopper] /\ stopClient' = stopClient
  <2>1. CASE Connect(s)
    BY <1>3, <1>4, <2>1
       DEF Connect, LockConn, ConnectStopped, AlreadyConnected, MakeSocket,
           NewSocket, Connected, ConnectFailed, TryAgain, GiveUp, LeaveConnect,
           Moves
  <2>2. CASE PollSocket(s)
    BY <1>3, <2>2 DEF PollSocket, PollCheck, PollEnter, PollFails,
                      PollReturns, PollThrows,
                      Throws, Moves
  <2>3. CASE SendStart(s) \/ SendData(s)
    BY <1>3, <2>3 DEF SendStart, SendData, SendCheck, LockSend, SendLoop, Write,
                      WriteNothing, WriteThrows, Throws, Moves
  <2>4. CASE Close(s)
    BY <1>3, <2>4 DEF Close
  <2>5. QED
    BY <1>5, <2>1, <2>2, <2>3, <2>4 DEF SenderStep
<1>6. ASSUME NEW r \in Readers,
ReadStart(r) \/ WaitEndsEarly(r) \/ ReaderStep(r)
      PROVE  pc'[Stopper] = pc[Stopper] /\ stopClient' = stopClient
  <2>1. CASE PollSocket(r)
    BY <1>3, <2>1 DEF PollSocket, PollCheck, PollEnter, PollFails,
                      PollReturns, PollThrows,
                      Throws, Moves
  <2>2. CASE ReadStart(r) \/ WaitEndsEarly(r) \/ Read(r)
    BY <1>3, <2>2 DEF ReadStart, WaitEndsEarly, WaitTimesOut, WaitWakes, Read,
                      WaitForSocket, WaitIsOver, ReadReturns, ReadFails, Moves
  <2>3. CASE Close(r)
    BY <1>3, <2>3 DEF Close
  <2>4. QED
    BY <1>6, <2>1, <2>2, <2>3 DEF ReaderStep
<1>7. Server \/ UNCHANGED vars => UNCHANGED <<pc, stopClient>>
  BY DEF Server, ServerReads, ServerAcks, ServerHangsUp, ServerKeeps, vars
<1>8. QED
  BY <1>5, <1>6, <1>7 DEF Next, StopperStep, Server

LEMMA StopStep == StopInv /\ [Next]_vars => StopInv'
<1> SUFFICES ASSUME StopInv, [Next]_vars
             PROVE  StopInv'
  OBVIOUS
<1>1. TypeOK /\ TypeOK'
  BY ThreadStep, LocksStep, DataStep DEF StopInv, TypeOK
<1>2. pc'[Stopper] # "idle" => stopClient'
  <2>1. CASE StopFlag
    BY <2>1 DEF StopFlag
  <2>2. CASE StopNotify
    BY <2>2 DEF StopNotify, StopInv
  <2>3. CASE Close(Stopper)
    BY <2>3 DEF Close, Goes, StopInv
  <2>4. QED
    BY <1>1, <2>1, <2>2, <2>3, StopperAlone DEF StopInv
<1>3. pc'[Stopper] = "stopped" => pc[Stopper] = "stopped" \/ sock' = "none"
  <2>1. Stopper \in Threads /\ pc \in [Threads -> SenderStates \cup ReaderStates
                                                  \cup StopperStates]
    BY <1>1 DEF Threads, TypeOK, ThreadTypeOK
  <2>2. StopFlag => pc'[Stopper] = "lockStop"
    BY <2>1 DEF StopFlag, Goes
  <2>3. StopNotify => pc'[Stopper] = "close"
    BY <2>1 DEF StopNotify, NotifyAll
  <2>4. Close(Stopper) => sock' = "none"
    BY DEF Close, SocketGone, StreamEnds
  <2>5. QED
    BY <1>1, <2>2, <2>3, <2>4, StopperAlone
<1>4. pc[Stopper] = "stopped" => sock' = "none"
  <2>1. SUFFICES ASSUME stopClient, sock = "none"
                 PROVE  sock' = "none"
    BY DEF StopInv, StoppedStaysClosed
  <2>2. \A s \in Senders : ~MakeSocket(s)
    BY <2>1 DEF MakeSocket, NewSocket, KeepsTrying
  <2>3. \A s \in Senders : ~Connected(s)
    BY <1>1, <2>1 DEF Connected, TypeOK, LocksOK
  <2>4. QED
    BY <2>1, <2>2, <2>3, SockSteps
<1>5. StoppedStaysClosed'
  BY <1>3, <1>4 DEF StoppedStaysClosed
<1>6. QED
  BY <1>1, <1>2, <1>5 DEF StopInv

(* Once Stop returned there is no connection, and none is made any more:    *)
(* neither by a thread that was already in Connect nor by one that comes    *)
(* later.                                                                   *)
THEOREM StoppedStaysClosedHolds == Spec => []StoppedStaysClosed
<1>1. Init => StopInv
  <2>1. Init => pc[Stopper] = "idle"
    BY DEF Init, Threads
  <2>2. QED
    BY <2>1, InitType DEF StopInv, StoppedStaysClosed
<1>2. StopInv => StoppedStaysClosed
  BY DEF StopInv
<1>3. QED
  BY <1>1, <1>2, StopStep, PTL DEF Spec

------------------------------------------------------------------------------
(* Why SentOnOneConnection fails. *)

(* A sender that wrote a part of its message finds that part at the end of  *)
(* the connection's stream, as long as there is a connection; before it has *)
(* m_sendMutex it wrote nothing.                                            *)
PartWay(s) == pc[s] \in Sending /\ left[s] \notin {0, MsgLen}

OnOneConnection ==
    \A s \in Senders : /\ pc[s] \in Unsent => left[s] = MsgLen
                       /\ PartWay(s) /\ sock = "up" => tail = s

\* Connect succeeds in one thread while another one is within SendData, some
\* of its message written
ConnectedInsideMessage ==
    sock # "up" /\ sock' = "up" /\ \E s \in Senders : PartWay(s)

LEMMA OneConnectionStep ==
  ASSUME TypeOK, OnOneConnection, [Next]_vars, ~ConnectedInsideMessage
  PROVE  OnOneConnection'
<1> SUFFICES ASSUME NEW s \in Senders
             PROVE  /\ pc'[s] \in Unsent => left'[s] = MsgLen
                    /\ PartWay(s)' /\ sock' = "up" => tail' = s
  BY DEF OnOneConnection
<1>1. /\ Unsent \cap Sending = {} /\ s \in Threads
      /\ left \in [Senders -> 0..MsgLen]
  BY DEF Unsent, Connecting, Sending, PollStates, Threads, TypeOK, DataTypeOK
<1>2. CASE ~SendStart(s) /\ ~\E n \in 1..MsgLen : Write(s, n)
  <2>1. left'[s] = left[s]
    BY <1>1, <1>2, LeftMoves DEF SendStart, Write
  <2>2. ASSUME PartWay(s)', sock' = "up"
        PROVE  tail' = s
    <3>1. PartWay(s)
      BY <1>2, <2>1, <2>2, SenderMoves DEF PartWay, OnOneConnection, Unsent
    <3>2. sock = "up" /\ tail = s
      BY <2>2, <3>1 DEF ConnectedInsideMessage, OnOneConnection
    <3>3. ASSUME NEW t \in Senders, NEW n \in 1..MsgLen, Write(t, n)
          PROVE  FALSE
      <4>1. pc[t] = "write" /\ t # s
        BY <1>2, <3>3 DEF Write, Goes
      <4>2. sendMutex = t /\ sendMutex = s
        BY <3>1, <4>1 DEF PartWay, TypeOK, LocksOK, Sending
      <4>3. QED
        BY <4>1, <4>2
    <3>4. tail' = tail
      BY <2>2, <3>3, LeftMoves DEF TailGoesOn, SendStart, sockVars
    <3>5. QED
      BY <3>2, <3>4
  <2>3. QED
    BY <1>2, <2>1, <2>2, SenderMoves DEF OnOneConnection
<1>3. CASE SendStart(s)
  <2>1. pc'[s] \in {"lockConn", "check"} /\ left'[s] = MsgLen
    BY <1>1, <1>3 DEF SendStart, Goes, TypeOK, ThreadTypeOK
  <2>2. QED
    BY <2>1 DEF PartWay, Sending, PollStates
<1>4. ASSUME NEW n \in 1..MsgLen, Write(s, n)
      PROVE  /\ pc'[s] \in Unsent => left'[s] = MsgLen
             /\ PartWay(s)' /\ sock' = "up" => tail' = s
  <2>1. pc'[s] = "loop" /\ left'[s] = left[s] - n
    BY <1>1, <1>4 DEF Write, Goes, TypeOK, ThreadTypeOK
  <2>2. left[s] \in Nat /\ n \in Nat /\ tail' = IF n = left[s] THEN NoOne ELSE s
    BY <1>1, <1>4, SizesAssumption DEF Write, SizesAssumption
  <2>3. QED
    BY <2>1, <2>2 DEF PartWay, Unsent, Connecting
<1>5. QED
  BY <1>2, <1>3, <1>4

LEMMA OneConnectionInit == Init => OnOneConnection
  BY DEF Init, OnOneConnection, PartWay, Unsent, Connecting, Sending,
         PollStates,
         Threads

LEMMA SentWhereItBegan ==
  ASSUME TypeOK, OnOneConnection, [Next]_vars, NEW s \in Senders,
         left'[s] < left[s]
  PROVE  left[s] = MsgLen \/ tail = s
<1>1. s \in Threads /\ left \in [Senders -> 0..MsgLen] /\ MsgLen \in Nat
  BY SizesAssumption DEF SizesAssumption, Threads, TypeOK, DataTypeOK
<1>2. PICK n \in 1..MsgLen : Write(s, n)
  BY OnlyWriteSends
<1>3. pc[s] = "write" /\ sock = "up" /\ left[s] # 0
  BY <1>1, <1>2 DEF Write, Goes
<1>4. QED
  BY <1>3 DEF OnOneConnection, PartWay, Sending

(* A message goes out on one connection, as Send's comment has it, unless   *)
(* another thread connects while some of it is written: that SendData's     *)
(* loop (SocketClient.cc:250) reads m_sockfd anew is the only cause.        *)
THEOREM SentOnOneConnectionUnlessReplaced ==
  Spec /\ [][~ConnectedInsideMessage]_vars => SentOnOneConnection
<1>1. TypeOK /\ OnOneConnection /\ [Next]_vars /\ [~ConnectedInsideMessage]_vars
        => OnOneConnection'
  <2>1. UNCHANGED vars => ~ConnectedInsideMessage
    BY DEF vars, ConnectedInsideMessage
  <2>2. QED
    BY <2>1, OneConnectionStep
<1>2. TypeOK /\ OnOneConnection /\ [Next]_vars
        => [\A s \in Senders : left'[s] < left[s] => left[s] = MsgLen \/ tail = s]_vars
  BY SentWhereItBegan
<1>3. QED
  BY <1>1, <1>2, OneConnectionInit, TypeCorrect, PTL DEF Spec,
                                                         SentOnOneConnection

(* With one thread that sends, BufferedLogger's sender when there are no    *)
(* acks and hence no resender, it always does: only a sender connects.      *)
THEOREM OneSenderOneConnection ==
  ASSUME \A s, t \in Senders : s = t
  PROVE  Spec => SentOnOneConnection
<1>1. TypeOK /\ [Next]_vars => [~ConnectedInsideMessage]_vars
  <2> SUFFICES ASSUME TypeOK, [Next]_vars, ConnectedInsideMessage
               PROVE  FALSE
    OBVIOUS
  <2>1. PICK s \in Senders : PartWay(s)
    BY DEF ConnectedInsideMessage
  <2>2. \A t \in Senders : ~MakeSocket(t) \/ sock' # "up"
    BY DEF MakeSocket, NewSocket
  <2>3. PICK t \in Senders : Connected(t)
    BY <2>2, SockSteps DEF ConnectedInsideMessage
  <2>4. pc[t] = "connecting" /\ pc[s] \in Sending /\ s = t
    BY <2>1, <2>3 DEF Connected, PartWay
  <2>5. QED
    BY <2>4 DEF Sending, PollStates
<1>2. QED
  BY <1>1, SentOnOneConnectionUnlessReplaced, TypeCorrect, PTL DEF Spec

------------------------------------------------------------------------------
(* The mutexes, and what Stop leaves behind. *)

(* Close, Connect's lock_guard, wait_for and StopNotify wait for m_fdMutex, *)
(* SendData's lock_guard for m_sendMutex.                                   *)
AtMutex == {"lockConn", "lockSend", "close", "ready", "asleep", "lockStop"}

(* A thread that waits for a mutex holds neither, and none holds both; so   *)
(* no circle of threads waits on each other, whatever the order in which    *)
(* SendData, its handler and Connect take them.                             *)
NoCircularWait ==
    /\ \A t \in Threads : pc[t] \in AtMutex => fdMutex # t /\ sendMutex # t
    /\ fdMutex = sendMutex => fdMutex = NoOne

THEOREM NoCircularWaitHolds == Spec => []NoCircularWait
<1>1. ASSUME TypeOK
      PROVE  NoCircularWait
  <2>1. /\ \A s \in Senders : fdMutex = s => pc[s] \in Connecting
        /\ \A s \in Senders : sendMutex = s => pc[s] \in Sending
        /\ fdMutex \in Senders \cup {NoOne} /\ sendMutex \in Senders \cup {NoOne}
    BY <1>1 DEF TypeOK, LocksOK
  <2>2. NoOne \notin Threads
    BY ThreadsAssumption DEF ThreadsAssumption, Threads
  <2>3. Connecting \cap AtMutex = {} /\ Sending \cap AtMutex = {}
        /\ Connecting \cap Sending = {}
    BY DEF Connecting, Sending, PollStates, AtMutex
  <2>4. QED
    BY <2>1, <2>2, <2>3 DEF NoCircularWait
<1>2. QED
  BY <1>1, TypeCorrect, PTL

(* A thread polls a socket that is there; one that goes away while it does  *)
(* was shut down, which wakes it.  No thread sleeps on m_connCV once Stop   *)
(* notified: it would have seen m_stopClient under the mutex.               *)
StopInterrupts ==
    pc[Stopper] = "stopped" =>
        \A t \in Threads : pc[t] # "asleep" /\ polled[t] # "current"

InterruptInv ==
    /\ \A t \in Threads : polled[t] = "current" => sock # "none"
    /\ pc[Stopper] \in {"close", "stopped"} => \A t \in Threads : pc[t] # "asleep"

LEMMA PolledMoves ==
  ASSUME TypeOK, [Next]_vars
  PROVE  \/ SocketGone
         \/ /\ sock' = "none" => sock = "none"
            /\ \A t \in Threads : polled'[t] = "current" =>
                  polled[t] = "current" \/ (sock # "none" /\ sock' = sock)
<1>1. polled \in [Threads -> {"none", "current", "closed"}]
  BY DEF TypeOK, ThreadTypeOK
<1>2. CASE \E t : PollEnter(t)
  BY <1>1, <1>2 DEF PollEnter, sockVars
<1>3. CASE \E t, from : Throws(t, from)
  BY <1>1, <1>3 DEF Throws, sockVars
<1>4. CASE \E t : PollReturns(t)
  BY <1>1, <1>4 DEF PollReturns, sockVars
<1>5. CASE UNCHANGED polled /\ (sock' = "none" => sock = "none")
  BY <1>5
<1>6. ASSUME NEW s \in Senders, SendStart(s) \/ SenderStep(s)
      PROVE  \/ SocketGone
             \/ (\E t : PollEnter(t)) \/ (\E t, from : Throws(t, from))
             \/ \E t : PollReturns(t)
             \/ UNCHANGED polled /\ (sock' = "none" => sock = "none")
  <2>1. CASE Connect(s)
    BY <2>1
       DEF Connect, LockConn, ConnectStopped, AlreadyConnected, MakeSocket,
           NewSocket, Connected, ConnectFailed, TryAgain, GiveUp, LeaveConnect,
           Moves, sockVars
  <2>2. CASE PollSocket(s)
    BY <2>2 DEF PollSocket, PollCheck, PollFails, PollThrows, Moves, sockVars
  <2>3. CASE SendStart(s) \/ SendData(s)
    BY <2>3
       DEF SendStart, SendData, SendCheck, LockSend, SendLoop, Write,
           WriteNothing, WriteThrows, Moves, sockVars
  <2>4. CASE Close(s)
    BY <2>4 DEF Close
  <2>5. QED
    BY <1>6, <2>1, <2>2, <2>3, <2>4 DEF SenderStep
<1>7. ASSUME NEW r \in Readers,
ReadStart(r) \/ WaitEndsEarly(r) \/ ReaderStep(r)
      PROVE  \/ SocketGone
             \/ (\E t : PollEnter(t)) \/ (\E t, from : Throws(t, from))
             \/ \E t : PollReturns(t)
             \/ UNCHANGED polled /\ (sock' = "none" => sock = "none")
  <2>1. CASE PollSocket(r)
    BY <2>1 DEF PollSocket, PollCheck, PollFails, PollThrows, Moves, sockVars
  <2>2. CASE ReadStart(r) \/ WaitEndsEarly(r) \/ Read(r)
    BY <2>2
       DEF ReadStart, WaitEndsEarly, WaitTimesOut, WaitWakes, Read,
           WaitForSocket, WaitIsOver, ReadReturns, ReadFails, Moves, sockVars
  <2>3. CASE Close(r)
    BY <2>3 DEF Close
  <2>4. QED
    BY <1>7, <2>1, <2>2, <2>3 DEF ReaderStep
<1>8. CASE StopFlag \/ StopperStep \/ Server \/ UNCHANGED vars
  BY <1>1, <1>8
     DEF StopFlag, StopperStep, StopNotify, Close, Server, ServerReads,
         ServerAcks, ServerHangsUp, ServerKeeps, vars, sockVars
<1>9. QED
  BY <1>2, <1>3, <1>4, <1>5, <1>6, <1>7, <1>8 DEF Next, Server

(* Only wait_for puts a thread to sleep, and not when the client is stopped. *)
LEMMA SleepMoves ==
  ASSUME TypeOK, [Next]_vars, stopClient, NEW t \in Threads, pc'[t] = "asleep"
  PROVE  pc[t] = "asleep" /\ ~StopNotify
<1>1. /\ Senders \subseteq Threads /\ Readers \subseteq Threads
      /\ Stopper \in Threads
      /\ \A u \in Readers \cup {Stopper} : u \notin Senders
  BY ThreadsAssumption DEF ThreadsAssumption, Threads
<1>2. ThreadTypeOK
  BY DEF TypeOK
<1>3. ASSUME NEW u \in Threads, NEW from, NEW to, Goes(u, from, to),
to # "asleep"
      PROVE  pc[t] = "asleep"
  BY <1>2, <1>3 DEF Goes, ThreadTypeOK
<1>4. ASSUME NEW u, NEW to, NotifyAll(u, to), to # "asleep"
      PROVE  FALSE
  BY <1>4 DEF NotifyAll
<1>5. ASSUME NEW s \in Senders, SendStart(s) \/ SenderStep(s)
      PROVE  pc[t] = "asleep"
  <2>1. CASE Connect(s)
    BY <1>1, <1>3, <1>4, <2>1
       DEF Connect, LockConn, ConnectStopped, AlreadyConnected, MakeSocket,
           NewSocket, Connected, ConnectFailed, TryAgain, GiveUp, Moves
  <2>2. CASE PollSocket(s)
    BY <1>1, <1>3, <2>2
       DEF PollSocket, PollCheck, PollEnter, PollFails, PollReturns,
           PollThrows, Throws,
           Moves
  <2>3. CASE SendStart(s) \/ SendData(s) \/ Close(s)
    BY <1>1, <1>3, <2>3
       DEF SendStart, SendData, SendCheck, LockSend, SendLoop, Write,
           WriteNothing, WriteThrows, Close, Throws, Moves
  <2>4. QED
    BY <1>5, <2>1, <2>2, <2>3 DEF SenderStep
<1>6. ASSUME NEW r \in Readers,
ReadStart(r) \/ WaitEndsEarly(r) \/ ReaderStep(r)
      PROVE  pc[t] = "asleep"
  <2>1. CASE PollSocket(r)
    BY <1>1, <1>3, <2>1
       DEF PollSocket, PollCheck, PollEnter, PollFails, PollReturns,
           PollThrows, Throws,
           Moves
  <2>2. CASE ReadStart(r) \/ WaitEndsEarly(r) \/ Read(r) \/ Close(r)
    BY <1>1, <1>3, <2>2
       DEF ReadStart, WaitEndsEarly, WaitTimesOut, WaitWakes, Read,
           WaitForSocket, WaitIsOver, ReadReturns, ReadFails, Close, Moves
  <2>3. QED
    BY <1>6, <2>1, <2>2 DEF ReaderStep
<1>7. ~StopNotify
  BY <1>4 DEF StopNotify
<1>8. CASE StopFlag \/ Close(Stopper)
  BY <1>1, <1>3, <1>7, <1>8 DEF StopFlag, Close
<1>9. CASE Server \/ UNCHANGED vars
  BY <1>7, <1>9 DEF Server, ServerReads, ServerAcks, ServerHangsUp,
                    ServerKeeps, vars
<1>10. QED
  BY <1>5, <1>6, <1>7, <1>8, <1>9 DEF Next, StopperStep, Server

LEMMA InterruptStep ==
  ASSUME StopInv, InterruptInv, [Next]_vars
  PROVE  InterruptInv'
<1>1. TypeOK /\ Stopper \in Threads
  BY DEF StopInv, Threads
<1>2. ASSUME NEW t \in Threads, polled'[t] = "current"
      PROVE  sock' # "none"
  <2>1. ~SocketGone
    BY <1>1, <1>2 DEF SocketGone, TypeOK, ThreadTypeOK
  <2>2. QED
    BY <1>1, <1>2, <2>1, PolledMoves DEF InterruptInv
<1>3. ASSUME pc'[Stopper] \in {"close", "stopped"}, NEW t \in Threads,
             pc'[t] = "asleep"
      PROVE  FALSE
  <2>1. stopClient
    <3>1. pc[Stopper] # "idle" \/ StopFlag
      BY <1>1, <1>3, StopperAlone DEF StopNotify, Close, Goes
    <3>2. StopFlag => pc'[Stopper] = "lockStop"
      BY <1>1 DEF StopFlag, Goes, TypeOK, ThreadTypeOK
    <3>3. QED
      BY <1>3, <3>1, <3>2 DEF StopInv
  <2>2. pc[t] = "asleep" /\ ~StopNotify
    BY <1>1, <1>3, <2>1, SleepMoves
  <2>3. pc[Stopper] \in {"close", "stopped"}
    <3>1. StopFlag => pc'[Stopper] = "lockStop"
      BY <1>1 DEF StopFlag, Goes, TypeOK, ThreadTypeOK
    <3>2. QED
      BY <1>1, <1>3, <2>2, <3>1, StopperAlone DEF Close, Goes
  <2>4. QED
    BY <2>2, <2>3 DEF InterruptInv
<1>4. QED
  BY <1>2, <1>3 DEF InterruptInv

(* When Stop has returned, no thread sleeps on m_connCV and none waits in   *)
(* poll() for a socket: a poll that has not returned yet was woken by       *)
(* shutdown(), or is the one of AllThreadsCanBeStopped that polls nothing.  *)
THEOREM StopInterruptsHolds == Spec => []StopInterrupts
<1>1. Init => StopInv /\ InterruptInv
  <2>1. Init => pc[Stopper] = "idle"
    BY DEF Init, Threads
  <2>2. Init => InterruptInv
    BY DEF Init, InterruptInv
  <2>3. QED
    BY <2>1, <2>2, InitType DEF StopInv, StoppedStaysClosed
<1>2. StopInv /\ InterruptInv => StopInterrupts
  BY DEF StopInv, StoppedStaysClosed, InterruptInv, StopInterrupts
<1>3. QED
  BY <1>1, <1>2, StopStep, InterruptStep, PTL DEF Spec
================================================================================
