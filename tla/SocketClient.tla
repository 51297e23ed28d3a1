------------------------------ MODULE SocketClient ------------------------------
(***************************************************************************)
(* SocketClient: one socket shared by threads that send, threads that read *)
(* and the thread that stops it.  m_fdMutex guards the making and closing  *)
(* of the socket, m_sendMutex a message that takes several writes; what    *)
(* lies between looks at m_sockfd without a lock.                          *)
(*                                                                         *)
(* A descriptor is named by what it is to a thread: the socket m_sockfd    *)
(* stands for now, one that was closed since, or -1.                       *)
(***************************************************************************)
EXTENDS Naturals

CONSTANTS Senders,   \* threads that call Send
          Readers,   \* threads that call Read
          Stopper,   \* the thread that calls Stop
          NoOne,     \* holds a mutex that is free
          MsgLen,    \* bytes in a message
          SockBuf    \* bytes the socket buffer holds

ASSUME ThreadsAssumption ==
    /\ Senders \cap Readers = {}
    /\ Stopper \notin Senders \cup Readers
    /\ NoOne \notin Senders \cup Readers \cup {Stopper}
ASSUME SizesAssumption == MsgLen \in Nat \ {0} /\ SockBuf \in Nat \ {0}

VARIABLES
    sock,        \* what m_sockfd is: see SocketStates
    fdMutex,     \* who holds m_fdMutex
    sendMutex,   \* who holds m_sendMutex
    stopClient,  \* m_stopClient
    pc,          \* where each thread is in its call
    polled,      \* the descriptor each thread gave to poll()
    left,        \* bytes of each sender's message not written yet (bytesleft)
    toServer,    \* bytes in the socket that mdsd has not read
    acks,        \* mdsd sent something that was not read
    tail         \* whose unfinished message the connection's stream ends in

sockVars == <<sock, toServer, acks, tail>>
vars == <<sock, fdMutex, sendMutex, stopClient, pc, polled, left, toServer,
          acks, tail>>

Threads == Senders \cup Readers \cup {Stopper}

(* "none": INVALID_SOCKET; "made": socket() returned, connect() has not;    *)
(* "up": connected; "hup": connected, and mdsd closed its end.              *)
SocketStates == {"none", "made", "up", "hup"}

(* "idle": outside.  Connect: "lockConn", "attempt", "connecting",          *)
(* "backoff".  Send and SendData: "check", "lockSend", "loop", "write".     *)
(* Read: "ready", "asleep" on m_connCV, "woken", "read".  PollSocket:       *)
(* "pollCheck", "pollEnter", "polling".  Stop: "lockStop", "stopped".       *)
(* "close": on the way to Close, in a handler or in Stop.                   *)
PollStates == {"pollCheck", "pollEnter", "polling"}
SenderStates == PollStates \cup
    {"idle", "lockConn", "attempt", "connecting", "backoff", "check",
     "lockSend", "loop", "write", "close"}
ReaderStates == PollStates \cup
    {"idle", "ready", "asleep", "woken", "read", "close"}
StopperStates == {"idle", "lockStop", "close", "stopped"}

Connecting == {"attempt", "connecting", "backoff"}
Sending == PollStates \cup {"loop", "write"}

ThreadTypeOK ==
    /\ pc \in [Threads -> SenderStates \cup ReaderStates \cup StopperStates]
    /\ \A s \in Senders : pc[s] \in SenderStates
    /\ \A r \in Readers : pc[r] \in ReaderStates
    /\ pc[Stopper] \in StopperStates
    /\ polled \in [Threads -> {"none", "current", "closed"}]

LocksOK ==
    /\ fdMutex \in Senders \cup {NoOne}
    /\ sendMutex \in Senders \cup {NoOne}
    /\ \A s \in Senders : /\ pc[s] \in Connecting <=> fdMutex = s
                          /\ pc[s] \in Sending <=> sendMutex = s
    /\ sock = "made" <=> \E s \in Senders : pc[s] = "connecting"

DataTypeOK ==
    /\ sock \in SocketStates
    /\ stopClient \in BOOLEAN
    /\ left \in [Senders -> 0..MsgLen]
    /\ toServer \in 0..SockBuf
    /\ acks \in BOOLEAN
    /\ tail \in Senders \cup {NoOne}

(* Types, and the mutexes: a thread holds one exactly where its code does,  *)
(* and a socket that is not connected yet is there only while Connect has   *)
(* m_fdMutex.                                                               *)
TypeOK == ThreadTypeOK /\ LocksOK /\ DataTypeOK

Init ==
    /\ sock = "none"
    /\ fdMutex = NoOne
    /\ sendMutex = NoOne
    /\ stopClient = FALSE
    /\ pc = [t \in Threads |-> "idle"]
    /\ polled = [t \in Threads |-> "none"]
    /\ left = [s \in Senders |-> 0]
    /\ toServer = 0
    /\ acks = FALSE
    /\ tail = NoOne

------------------------------------------------------------------------------
(* Steps that several calls are made of. *)

Goes(t, from, to) ==
    /\ pc[t] = from
    /\ pc' = [pc EXCEPT ![t] = to]

Moves(t, from, to) ==
    /\ Goes(t, from, to)
    /\ UNCHANGED <<sockVars, left, fdMutex, sendMutex, stopClient,
                   polled>>

\* a SocketException; the lock_guard of m_sendMutex, if any, lets go
Throws(t, from) ==
    /\ Goes(t, from, "close")
    /\ sendMutex' = IF sendMutex = t THEN NoOne ELSE sendMutex
    /\ polled' = [polled EXCEPT ![t] = "none"]
    /\ UNCHANGED <<sockVars, left, fdMutex, stopClient>>

\* m_connCV.notify_all, by a thread that goes on to some state
NotifyAll(t, to) ==
    pc' = [u \in Threads |-> IF u = t THEN to
                             ELSE IF pc[u] = "asleep" THEN "ready" ELSE pc[u]]

StreamEnds ==
    /\ sock' = "none"
    /\ toServer' = 0
    /\ acks' = FALSE
    /\ tail' = NoOne

\* bug: close() without shutdown(); a poll() on the socket sleeps on
SocketClosed == StreamEnds /\ UNCHANGED polled

\* shutdown() and close(); a poll() on the socket returns
SocketGone ==
    /\ StreamEnds
    /\ polled' = [u \in Threads |-> IF polled[u] = "current" THEN "closed"
                                                             ELSE polled[u]]

\* Close, in a handler or in Stop
Close(t) ==
    /\ fdMutex = NoOne
    /\ Goes(t, "close", IF t = Stopper THEN "stopped" ELSE "idle")
    /\ SocketGone
    /\ UNCHANGED <<fdMutex, sendMutex, stopClient, left>>

------------------------------------------------------------------------------
(* Connect, called by Send. *)

\* Send and Connect up to the first look at m_sockfd
SendStart(s) ==
    /\ Goes(s, "idle", IF sock = "none" THEN "lockConn" ELSE "check")
    /\ left' = [left EXCEPT ![s] = MsgLen]
    /\ UNCHANGED <<sockVars, fdMutex, sendMutex, stopClient, polled>>

\* bug: the mutex is not taken here
LockConnNot(s) == Moves(s, "lockConn", "attempt")

LockConn(s) ==
    /\ fdMutex = NoOne
    /\ Goes(s, "lockConn", "attempt")
    /\ fdMutex' = s
    /\ UNCHANGED <<sockVars, left, sendMutex, stopClient, polled>>

\* Connect is over; its lock_guard lets go
LeaveConnect(s) ==
    /\ fdMutex' = NoOne
    /\ UNCHANGED <<left, sendMutex, stopClient, polled>>

\* bug: the retry loop does not look at m_stopClient
KeepsTryingAlways == TRUE

\* the loop's condition
KeepsTrying == ~stopClient

ConnectStopped(s) ==
    /\ ~KeepsTrying
    /\ Goes(s, "attempt", "check")
    /\ LeaveConnect(s)
    /\ UNCHANGED sockVars

\* SetupSocketConnect found that another thread made the socket
AlreadyConnected(s) ==
    /\ KeepsTrying
    /\ pc[s] = "attempt"
    /\ sock # "none"
    /\ NotifyAll(s, "check")
    /\ LeaveConnect(s)
    /\ UNCHANGED sockVars

NewSocket(s) ==
    /\ KeepsTrying
    /\ Goes(s, "attempt", "connecting")
    /\ sock' = "made"
    /\ UNCHANGED <<toServer, acks, tail, left, fdMutex, sendMutex,
                   stopClient, polled>>

\* bug: does not look again under the mutex
MakeAnotherSocket(s) == NewSocket(s)

\* socket()
MakeSocket(s) == sock = "none" /\ NewSocket(s)

\* connect() returned 0
Connected(s) ==
    /\ pc[s] = "connecting"
    /\ NotifyAll(s, "check")
    /\ sock' = "up"
    /\ LeaveConnect(s)
    /\ UNCHANGED <<toServer, acks, tail>>

\* connect() failed, or socket() did; what socket() made is closed
ConnectFailed(s) ==
    /\ Goes(s, "connecting", "backoff")
    /\ SocketGone
    /\ UNCHANGED <<fdMutex, sendMutex, stopClient, left>>

\* WaitBeforeReConnect
TryAgain(s) == Moves(s, "backoff", "attempt")

\* connRetryTimeoutMS passed
GiveUp(s) ==
    /\ Goes(s, "backoff", "check")
    /\ LeaveConnect(s)
    /\ UNCHANGED sockVars

Connect(s) ==
    \/ LockConn(s) \/ ConnectStopped(s) \/ AlreadyConnected(s)
    \/ MakeSocket(s) \/ Connected(s) \/ ConnectFailed(s)
    \/ TryAgain(s) \/ GiveUp(s)

------------------------------------------------------------------------------
(* PollSocket, called by SendData and by Read. *)

PollCheck(t) ==
    IF sock = "none" THEN Throws(t, "pollCheck")
                     ELSE Moves(t, "pollCheck", "pollEnter")

\* m_sockfd is read once more; poll() ignores an entry whose fd is negative
PollEnter(t) ==
    /\ Goes(t, "pollEnter", "polling")
    /\ polled' = [polled EXCEPT ![t] = IF sock = "none" THEN "none"
                                                        ELSE "current"]
    /\ UNCHANGED <<sockVars, left, fdMutex, sendMutex, stopClient>>

\* POLLOUT, POLLIN
IsReady(t) == IF t \in Senders THEN toServer < SockBuf ELSE acks

PollReturns(t) ==
    /\ polled[t] = "current"
    /\ sock = "up"
    /\ IsReady(t)
    /\ Goes(t, "polling", IF t \in Senders THEN "write" ELSE "read")
    /\ polled' = [polled EXCEPT ![t] = "none"]
    /\ UNCHANGED <<sockVars, left, fdMutex, sendMutex, stopClient>>

\* poll() itself fails (ENOMEM), whatever it was to poll
PollFails(t) == Throws(t, "pollEnter")

\* POLLHUP: mdsd closed its end, the socket was shut down here, or it is
\* not connected yet
PollThrows(t) ==
    /\ \/ polled[t] = "closed"
       \/ polled[t] = "current" /\ sock \in {"made", "hup"}
    /\ Throws(t, "polling")

PollSocket(t) ==
    PollCheck(t) \/ PollEnter(t) \/ PollFails(t)
        \/ PollReturns(t) \/ PollThrows(t)

------------------------------------------------------------------------------
(* Send, from Connect's return on, and SendData. *)

\* the two tests of m_sockfd < 0
SendCheck(s) ==
    IF sock = "none" THEN Throws(s, "check") ELSE Moves(s, "check", "lockSend")

\* bug: nothing keeps two messages apart
LockSendNot(s) == Moves(s, "lockSend", "loop")

LockSend(s) ==
    /\ sendMutex = NoOne
    /\ Goes(s, "lockSend", "loop")
    /\ sendMutex' = s
    /\ UNCHANGED <<sockVars, left, fdMutex, stopClient, polled>>

\* the loop's condition; a stopped Send returns as if it had sent everything
SendLoop(s) ==
    /\ IF stopClient \/ left[s] = 0
       THEN Goes(s, "loop", "idle") /\ sendMutex' = NoOne
       ELSE Goes(s, "loop", "pollCheck") /\ UNCHANGED sendMutex
    /\ UNCHANGED <<sockVars, left, fdMutex, stopClient, polled>>

\* send() of n bytes on whatever m_sockfd is by now
Write(s, n) ==
    /\ sock = "up"
    /\ n \in 1..left[s]
    /\ n <= SockBuf - toServer
    /\ Goes(s, "write", "loop")
    /\ left' = [left EXCEPT ![s] = left[s] - n]
    /\ toServer' = toServer + n
    /\ tail' = IF n = left[s] THEN NoOne ELSE s
    /\ UNCHANGED <<sock, fdMutex, sendMutex, stopClient, polled, acks>>

\* EAGAIN: poll() reported the socket as ready without cause
WriteNothing(s) ==
    /\ sock = "up"
    /\ Moves(s, "write", "loop")

\* EPIPE, ENOTCONN, EBADF; and ENOBUFS or ENOMEM, on a live connection too
WriteThrows(s) == Throws(s, "write")

SendData(s) ==
    \/ SendCheck(s) \/ LockSend(s) \/ SendLoop(s)
    \/ \E n \in 1..MsgLen : Write(s, n)
    \/ WriteNothing(s) \/ WriteThrows(s)

------------------------------------------------------------------------------
(* Read, with WaitForSocketToBeReady. *)

\* the loop around Read does not end here; a stopped client returns -1
ReadStart(r) ==
    /\ ~stopClient
    /\ Moves(r, "idle", "ready")

\* wait_for's condition, with m_fdMutex
WaitForSocket(r) ==
    /\ fdMutex = NoOne
    /\ Moves(r, "ready", IF stopClient THEN "idle"
                        ELSE IF sock = "none" THEN "asleep" ELSE "woken")

\* wait_for's time is over: a SocketException, without Close
WaitTimesOut(r) ==
    /\ fdMutex = NoOne
    /\ Moves(r, "asleep", IF ~stopClient /\ sock # "none" THEN "woken"
                                                         ELSE "idle")

\* a spurious wake-up
WaitWakes(r) == Moves(r, "asleep", "ready")

\* m_stopClient is looked at once more, without the mutex
WaitIsOver(r) == Moves(r, "woken", IF stopClient THEN "idle" ELSE "pollCheck")

\* read() on whatever m_sockfd is by now: data, or EAGAIN
ReadReturns(r) ==
    /\ sock = "up" \/ (sock = "hup" /\ acks)
    /\ Goes(r, "read", "idle")
    /\ acks' = FALSE
    /\ UNCHANGED <<sock, toServer, tail, left, fdMutex, sendMutex,
                   stopClient, polled>>

\* end of file, EBADF, ENOTCONN, or an error on a live connection; all lead
\* to Close
ReadFails(r) == Moves(r, "read", "close")

Read(r) ==
    \/ WaitForSocket(r) \/ WaitIsOver(r)
    \/ ReadReturns(r) \/ ReadFails(r)

WaitEndsEarly(r) == WaitTimesOut(r) \/ WaitWakes(r)

------------------------------------------------------------------------------
(* Stop. *)

StopFlag ==
    /\ Goes(Stopper, "idle", "lockStop")
    /\ stopClient' = TRUE
    /\ UNCHANGED <<sockVars, left, fdMutex, sendMutex, polled>>

StopNotify ==
    /\ fdMutex = NoOne
    /\ pc[Stopper] = "lockStop"
    /\ NotifyAll(Stopper, "close")
    /\ UNCHANGED <<sockVars, left, fdMutex, sendMutex, stopClient,
                   polled>>

------------------------------------------------------------------------------
(* mdsd. *)

ServerKeeps ==
    UNCHANGED <<tail, left, fdMutex, sendMutex, stopClient, pc, polled>>

ServerReads ==
    /\ sock = "up" /\ toServer > 0
    /\ toServer' = toServer - 1
    /\ ServerKeeps /\ UNCHANGED <<sock, acks>>

ServerAcks ==
    /\ sock = "up" /\ ~acks
    /\ acks' = TRUE
    /\ ServerKeeps /\ UNCHANGED <<sock, toServer>>

ServerHangsUp ==
    /\ sock = "up"
    /\ sock' = "hup"
    /\ toServer' = 0
    /\ ServerKeeps /\ UNCHANGED acks

------------------------------------------------------------------------------
SenderStep(s) == Connect(s) \/ PollSocket(s) \/ SendData(s) \/ Close(s)
ReaderStep(r) == Read(r) \/ PollSocket(r) \/ Close(r)
StopperStep == StopNotify \/ Close(Stopper)

Next ==
    \/ \E s \in Senders : SendStart(s) \/ SenderStep(s)
    \/ \E r \in Readers : ReadStart(r) \/ WaitEndsEarly(r) \/ ReaderStep(r)
    \/ StopFlag \/ StopperStep
    \/ ServerReads \/ ServerAcks \/ ServerHangsUp

Spec == Init /\ [][Next]_vars

(* A thread inside a call goes on, and gets a mutex that is free again and  *)
(* again.  Nothing makes anybody call, mdsd do anything, or a wait end by   *)
(* its timeout: stopping must not depend on these.                          *)
Fairness ==
    /\ \A s \in Senders : SF_vars(SenderStep(s))
    /\ \A r \in Readers : SF_vars(ReaderStep(r))
    /\ SF_vars(StopperStep)

FairSpec == Spec /\ Fairness

------------------------------------------------------------------------------
(* Properties. *)

(* SocketClient.h:140, m_sendMutex is there to "avoid interleaved message   *)
(* in multi Send() at the same time": two Sends that go on do not mix their *)
(* messages, whatever breaks.  The mutex does not cover the end of one that *)
(* fails half way: it is free again before the socket is closed, and when   *)
(* the connection still works somebody may write behind the torn message in *)
(* between (SocketClient.cc:262, 312).                                      *)
MixedOnlyBeforeClose ==
    [][\A s \in Senders :
           left'[s] < left[s] => tail \in {NoOne, s} \/ pc[tail] = "close"]_vars

(* A socket is never replaced without being closed, although two threads    *)
(* may both find that there is none: the second one looks again under the   *)
(* mutex.                                                                   *)
NoSocketLost == [][sock' = "made" => sock \in {"none", "made"}]_vars

(* Once Stop returned there is no connection any more, whoever was on the   *)
(* way to make one, and none is made again.                                 *)
StoppedStaysClosed == pc[Stopper] = "stopped" => sock = "none"

(* The poll() of an entry that is ignored: it never returns.                *)
PollsNothing(t) == pc[t] = "polling" /\ polled[t] = "none"

(* Stop returns, whatever mdsd does and however long the others would go on *)
(* trying to connect with m_fdMutex in their hands.                         *)
StopReturns == stopClient ~> pc[Stopper] = "stopped"

(* Stop gets every thread out of its call: out of poll(), of m_connCV, of   *)
(* the retry loop and of a mutex; unless a thread polls nothing.            *)
StopReaches ==
    \A t \in Senders \cup Readers :
        stopClient /\ pc[t] # "idle" ~>
            pc[t] = "idle" \/ \E u \in Senders \cup Readers : PollsNothing(u)

(* SocketClient.h:20, "All the threads can be stopped immediately if needed *)
(* when they are calling this class."  Not one that tested m_sockfd before  *)
(* another thread closed it and read it again for poll() afterwards.        *)
AllThreadsCanBeStopped ==
    \A t \in Senders \cup Readers : stopClient /\ pc[t] # "idle" ~> pc[t] = "idle"

(* SocketClient.h:88-89, Send throws "for any error", so a message whose    *)
(* connection broke should not go on elsewhere.  It does when other threads *)
(* close it and make a new one while the sender is in its loop, which reads *)
(* m_sockfd anew for each poll() and send(): the rest goes out there, where *)
(* no part of the message is, and Send returns as if it had been sent.      *)
SentOnOneConnection ==
    [][\A s \in Senders :
           left'[s] < left[s] => left[s] = MsgLen \/ tail = s]_vars
==============================================================================
