# A TLA+ model of outmdsd, the fluentd output plugin for mdsd

`out_mdsd` is a fluentd output plugin. Its Ruby part (`out_mdsd.rb`) turns
records into text; its C++ part, the library `outmdsd` under
`src/src/outmdsd`, sends the text over a socket to the Linux monitoring agent
mdsd, keeps what was sent until mdsd acknowledges it, and sends it again when
no acknowledgement comes. The library has several threads around shared
state, a peer that may answer late or never, and timeouts everywhere; that is
what these modules are about.

In paths below, `outmdsd/X` is `src/src/outmdsd/X`.

## Inventory

| Part | State it keeps | Operations | Talks to |
|---|---|---|---|
| `ConcurrentQueue<T>` (`outmdsd/ConcurrentQueue.h`) | a queue, its limit, `m_stopOnceEmpty`, one mutex, one condition variable | `push`, `wait_and_pop`, `try_pop`, `stop_once_empty`, `size` | the main thread pushes, the sender pops |
| `ConcurrentMap<T>` (`ConcurrentMap.h`) | a hash map under a mutex | `Add`, `Erase`, `Get`, `FilterEach`, `ForEachUnsafe`, copy | sender adds, reader erases, resender copies and erases |
| `SocketClient` | `m_sockfd`, `m_stopClient`, two mutexes, `m_connCV`, number of connects | `Connect`, `Send`, `Read`, `Close`, `Stop` | sender, resender and reader call it, each in its thread; it talks to mdsd |
| `DataSender` | `m_stopSender`, counters | `Run`, `Stop` | pops the queue, adds to the cache, sends |
| `DataReader` | `m_stopRead`, the text of a line read half way | `Run`, `Stop` | reads acks, erases from the cache |
| `DataResender` | `m_stopMe`, timer | `Run`, `Stop` | copies the cache, sends it, drops old items |
| `BufferedLogger` | the four above, a future for each thread | `AddData`, `WaitUntilAllSend`, destructor | the application |
| `SocketLogger` | client, cache, reader, resender | `SendDjson`, destructor | the Ruby plugin; sends in the caller's thread, without a queue |
| `LogItem`, `DjsonLogItem`, `IdMgr` | a tag, the time of the last touch, the text; schema ids | `GetData`, `Touch`, `FindOrInsert` | application, sender and resender |
| `out_mdsd.rb`: `OutputMdsd`, `SchemaManager`, `MdsdMsgMaker` | schema ids and schemas | `format`, `write` | fluentd's flush threads call it; it calls `SocketLogger` |
| `Trace*`, `*Tracer`, `SockAddr`, the SWIG wrapper | a global tracer | log, build an address | all parts |

What is hard here:

* **interleavings**: the application's thread, sender, resender and reader
  share the queue, the cache and the socket; each looks something up, lets go
  of the lock and then acts on it;
* **delivery**: messages and acks are lost when a connection breaks, an ack may
  overtake the thread that sent its item, and may arrive in pieces;
* **timeouts**: an item may be dropped for its age, acknowledged and sent again
  at the same time;
* **shutdown**: a destructor has to get threads out of a sleep in the queue, in
  `poll`, in a timer and in a retry loop;
* **limits**: the queue drops its oldest item when it is full;
* **retries above retries**: fluentd writes a chunk again as a whole, the
  resender sends what was not acknowledged, and neither knows of the other.

`PROJECT.json` lists each of these at its line under "hazards", with the
properties that watch it.

What makes each part correct, in a sentence: the queue is a fifo that loses a
value only when it is full, and lets nobody sleep who could take a value; the
client keeps messages apart as long as no send fails half way on a connection that
still works, loses no socket, and lets every caller go once stopped; an item that was cached stays until it is acknowledged or too
old, and does not come back; loggers can be destroyed at any time; a chunk of
fluentd's is gone only when the logger took its records; a schema id names one
schema, and a message is sent whole.


## The modules

| Module | What it is |
|---|---|
| `LossyFifo` | abstract: a fifo with several poppers that may drop its oldest value when full, and ends once it is stopped and empty |
| `ConcurrentQueue` | the queue with its mutex-protected operations, its condition variable, sleepers, notifications and spurious wake-ups; implements `LossyFifo` |
| `DeliveryPromise` | abstract: an item that a logger takes is kept, let go of only for a reason that holds at that moment, and never kept again; a caller gets one answer for it |
| `Delivery` | what both loggers share: cache, connection, mdsd, reader, resender |
| `BufferedLogger` | `Delivery` with the main thread, the queue (as the lossy fifo with one popper) and the sender; with acks it implements `DeliveryPromise` |
| `SocketLogger` | `Delivery` with callers of `SendDjson`, who send in their own threads, and the destructor; with acks it implements `DeliveryPromise` |
| `OutputMdsd` | `SocketLogger` under the plugin: flush threads that write chunks of records, and fluentd's retries |
| `DjsonLogItem` | what `GetData` makes of an item's fields, and the two givers of schema ids, `IdMgr` and `SchemaManager` |
| `SocketClient` | the client itself: senders, readers and `Stop` around one socket |
| `MC...` | instances for TLC where constants are sets of model values |
| `ConcurrentQueueProofs`, `DeliveryProofs`, `BufferedLoggerProofs`, `BufferedLoggerSafetyProofs`, `SocketLoggerProofs`, `OutputMdsdProofs`, `SocketClientProofs`, `DjsonLogItemProofs` | theorems and proofs |

They fit together in layers. `OutputMdsd` extends `SocketLogger`: a step of
the plugin is a step of the logger or leaves it alone (`PluginIsCaller`), so
that what holds of the logger holds under the plugin. `DjsonLogItem` looks
inside `GetData`, which the loggers take as given. `BufferedLogger` uses the queue through its
abstraction, which `ConcurrentQueue` is shown to implement
(`RefinesLossyFifo`) and of which `BufferedLogger` is shown to take no other
steps (`QueueIsLossyFifo`), and the client
through what its callers can tell: a message gets into the socket whole or the
call fails, or it never returns (`Written`, `NotWritten`, `NeverReturns` in `Delivery`).
`SocketClient` looks inside that step. A call that never returns is the `poll` of
-1 that `socket_stuck` shows: whoever is in it as a sender keeps `m_sendMutex`
(`sendHung`), so that every other sender waits for good, and no `Stop` reaches
them. A call may also fail although mdsd is still there (`send`, `read` and
`poll` have errors of their own); that is `LateClose`, which closes a live connection at
any time, and `NotWritten` or the reader's next step. What `socket_torn` shows, a message written
over two connections, is not in `Delivery`: there such a message is one that got
through or one that was lost.

### ConcurrentQueue

An operation under `mut` is one action. `wait_and_pop` is an action that
either takes the front, ends empty-handed, or goes to sleep; a sleeper must be
notified, or wake up spuriously, before it tries again, and another popper may
take the value in between. `push` with a full queue drops the front first
(`ConcurrentQueue.h:62-72`). Values are the numbers of their pushes, so that
order and loss can be told.

### Delivery and BufferedLogger

| In the model | In the code |
|---|---|
| tags | items; a `LogItem`'s tag is a process-wide counter as text |
| `dataCache`, `aged` | `m_dataCache`; the cached items last touched over `ackTimeoutMS` ago |
| `conn`, `toServer`, `toClient` | `m_sockfd` with what lies in the two directions of the socket |
| `sendHung` | a thread is in a `poll` of -1 with `m_sendMutex` in its hands |
| `cut`, `stale` | `partialData` in `DataReader::Run`: part of a line that is still coming, and what an ended connection left there |
| `lines`, `readerPc` | the lines of one `Read`, and the reader's place in its loop |
| `cacheBak`, `cacheCopy`, `resenderPc` | the two copies in `ResendData`, and its place in it |
| `queue`, `stopOnceEmpty` | `m_incomingQueue` |
| `senderPc`, `item` | the place in `DataSender::Run`, its item |
| `mainPc`, `allSent` | the place in `WaitUntilAllSend` or the destructor, and the former's result |
| `cached`, `acked`, `expired`, `misread`, `overflowed`, `attempted`, `thrown`, `added` | history, only for properties |

`Main` is the application's thread: `AddData` (which starts the workers the
first time), `WaitUntilAllSend` with its timeout, and the destructor step by
step (client, queue, sender, resender, reader stopped, then three joins).
`Sender` has a step for each of `DataSender::Run`'s looks at shared state: pop,
interrupt point, `Add`, `Get`, interrupt point, `Get`, `Send`. `Get` of an item
that is gone throws, which ends the thread; so does a `GetData` that throws
(`SenderThrows`), before there is anything to send. `Throwing` says which items' `GetData`
may throw; `DjsonLogItem` says when one does. In the resender the same exception
ends the round (`ResenderThrows`). `Reader` and `Resender` are cut the
same way as the sender. mdsd may read, acknowledge with status 0 or another, read and say
nothing, hang up, or sit there.

A line that is read in two parts matters because `partialData` outlives a
connection. `Numerals(tag)` are the numbers that the first characters of a line
can be, `Splice` is what the next line makes of them; a text that is no item's
tag is `Junk`.

`Promise` is `DeliveryPromise` with what was cached for what was taken, the
cache for what is kept, and the history variables for the reasons; a
`BufferedLogger` answers nobody. `KeepsItsPromise` says that, with acks, each
step shows there as a step or not at all. What `NoSilentLoss` and `AcceptedIsKept`
say of states, the promise says of steps: an item leaves the cache at the moment
of its ack, of its timeout, of a mistake or of a refusal, and not before.

### SocketLogger

`item` and `callerPc` say which item a caller of `SendDjson` has and where in
`SendData` it is: at `Add`, at the `Get` before the `try`, at the `Get` in it, at
`Send`, at the handler's `Erase`. The first `Get` throws past the handler when
the item is gone, the second into it; both end in "false". `accepted` and
`refused` record the answers, `counter` is `LogItem::s_counter`: who is refused
and writes the record again does so with a new tag. The first call starts reader
and resender (`call_once`). The destructor runs when no call is under way; a
call to an object that is being destroyed is undefined. Without a cache there
is no resender, and an item is sent and forgotten. The items of a
`SocketLogger` come with their schema, so that their `GetData` does not throw
(`SendDjsonAssumption`). A caller whose `Send` never returns is "stuck", and so is its
`SendDjson`.

### OutputMdsd

A flush thread is a caller of `SocketLogger`. It has one chunk at a time
(`chunkOf`) and handles one record of it (`at`): one that has no text makes `write`
raise (`RaiseMalformed`: `JSON.generate` of invalid UTF-8, `out_mdsd.rb:105`, `:276`), one that is too large is
dropped with a warning, one with an empty source name is refused by
`SendDjson` before there is an item, and of any other an item is made with the
next tag, which then goes through all of `SocketLogger`'s steps. `HandleAnswer`
is what `handle_record` does when `SendDjson` returns: on to the next record, or
`raise`, which puts the whole chunk back into fluentd's buffer. Any thread may
take it from there, and begins with its first record. fluentd is external: the
model has its threads take chunks in any order and any number of times, and
purge a chunk when `write` returns. Shutdown comes after the flush threads are
done, as `BufferedOutput`'s does. Which records have no text, are too large or have
no source name are constants; a tag that a pattern matches in the empty string
(`out_mdsd.rb:246-248`) makes the latter, and its chunk is written again for as
long as fluentd tries.

### DjsonLogItem

| In the model | In the code |
|---|---|
| `manager` | who gives ids: `IdMgr` to items of a `BufferedLogger`, `SchemaManager` to the plugin's records |
| `cache`, `lastId` | `m_cache` or `@schemaHash`; `@schema_id` |
| `svlist`, `schemaAndData`, `djsonData` | the members of an item |
| `pc`, `itemOf`, `keyOf`, `newId`, `strm` | where a thread is in `GetData` or `get_schema_value_str`, and its locals |

`IdMgr`'s calls are atomic, its lock being held over each, but looking up
(`GetItem`) and making an id (`FindOrInsert`) are two of them; Ruby's
`@schemaHash` has no lock, only the counter has, so that a record whose schema two
threads miss at the same time gets two ids and the later entry replaces the
first. Names and types are sequences of characters because they are run
together for a key, with commas in Ruby and with nothing in C++. A message is
the length of a text and the text: `ComposeFullData` assigns one and appends the other.
A record of the plugin's that has no text (`Malformed`) raises when its values are
made, which is after its schema got an id; there is no item of it.

`ResendOverlaps` says whether a resend round may fall between an item's `Add` to the cache
and the end of the sender's `GetData`. Resend rounds are 30 s apart by default,
which keeps them clear of each other most of the time, and nothing in the code
does. When they are not clear, two threads are in one item: `getdata_race`
shows what comes of it. The model takes a look at `m_svlist` during the swap
as a look before or after it, and strings as their parts; this is a data race,
and a real build may do worse.

### SocketClient

One state per look at `m_sockfd` or `m_stopClient` and per lock: a thread's
place is `pc`, the mutexes have holders, `polled` is the descriptor handed to
`poll`. "current" becomes "closed" by `shutdown` (that is what wakes the
poller), and "none" is the -1 of an invalid descriptor. A message is `MsgLen`
bytes that `send` may take in parts; `left` is what is still to be written of each sender's. `Connect` holds `m_fdMutex` over its
attempts and waits; `SendData` holds `m_sendMutex` over its loop; a thread that
threw has let go of it when it comes to `Close`, as the code's scopes have it.
`poll`, `send` and `read` may fail at any time, on a live connection as well
(`PollFails`, `WriteThrows`, `ReadFails`).

## The runs

| Run | Instance | Shows |
|---|---|---|
| `queue` | 3 poppers, limit 2, 5 pushes | `TypeOK`, `FifoOrder`, `DropsOnlyWhenFull`, `NoLostWakeup`, and `ImplementsLossyFifo`: every behaviour of the queue is one of the lossy fifo |
| `logger_safety` | tags 1 and 11, queue limit 1, one message per socket buffer; with and without cache, success acks, whole and split; one item's `GetData` may throw | `TypeOK`, `NoSilentLoss`, `CachedBeforeSent`, `ObsoleteNotResent`, `ErasedStaysErased`, and `KeepsItsPromise`: with a cache, every behaviour is one of `DeliveryPromise` |
| `logger_live` | the same, cache on, failure acks, not split; fair threads | `DestructorReturns`; with an mdsd that reads, `QueueDrains`, `CacheDrains` |
| `all_sent` | as `logger_safety` with cache, acks not split, no `GetData` that throws | violation: the sender ends by itself when its item leaves the cache between `Add` and `Get`, and `WaitUntilAllSend` says that all was sent while the next item is queued |
| `misread_ack` | cache on, split acks | violation: an ack cut by a hang-up joins the next connection's first ack and erases another item |
| `socketlogger_live` | 1 caller, tags 1 and 2, one message per socket buffer; with and without cache, acks of success and of failure; fair threads, mdsd reads | `CallReturns`, `CacheDrains`, and `AcceptedIsKept` with acks of failure |
| `plugin` | 2 flush threads, chunks of 1, 2 and 3 records, one of them too large, one without a text, one without a source name; with and without cache, success acks | `PluginTypeOK`, `TypeOK`, `WrittenIsKept`, `RecordsInOrder`, `RepeatedOnlyAfterFailure`; and the logger's `AcceptedIsKept`, `RefusedNotKept`, `CachedBeforeSent`, `ErasedStaysErased`, `KeepsItsPromise` |
| `messages` | 2 threads, 6 items, one of them without a text in Ruby, both managers, one thread at a time in an item | `TypeOK`, `OneSchemaPerId`, `SameFieldsSameId`, `OwnSchema`, `OnlyCollisionsThrow`, `WholeMessage` |
| `getdata_race` | the same with `IdMgr` and resends at any time | violation: one of two threads in `GetData` returns a part of the message |
| `socket` | 2 senders, 1 reader, messages of 2 bytes, socket buffer 1; fair threads | `TypeOK` with the mutexes, `MixedOnlyBeforeClose`, `NoSocketLost`, `StoppedStaysClosed`, `StopReturns`, `StopReaches` |
| `socket_stuck` | as `socket`; fair threads | violation: a thread that polls -1 is out of `Stop`'s reach |
| `socket_torn` | as `socket` | violation: a message is written over two connections and `Send` returns |

The violations are described, with the lines that say otherwise, under
"findings" in `PROJECT.json`.

### Bounds

* `queue`: a lost wake-up needs a value, a sleeper that was notified and
  another popper that comes in between; a third popper sees whether one
  notification was enough for two values. A limit of 2 lets a drop happen while
  something stays, 5 pushes fill the queue twice over.
* `logger_*`: two items are what a queue of one needs to overflow, and what the
  reader needs to take one for the other; more items only add independent
  copies. The tags are 1 and 11 in base 10 because the text "1", the first
  character of 11's ack, followed by "1:0" reads 11. One message and one ack
  in the socket buffers make senders wait, and a resender and a sender
  compete. The `GetData` of the item 11 may throw (`Throwing`) and that of
  the item 1 does not, so that the sender dies with or without an item before it, and the resender's
  rounds meet both kinds. Nothing else in the model grows. `NumDigits` and `Numerals` take any
  base of at least 2, for the proofs; the code's is 10.
* `logger_live` has acks of failure only, which erase nothing: the cache must
  drain by age alone. Acks of success, split acks and the logger without a cache
  are in `logger_safety`.
* `socketlogger_live`: one caller that calls again after each answer, so that one
  item is refused while the other is anywhere on its way, or is the refused one
  written again. Callers share nothing but the cache, the counter and the
  socket; two are in `plugin`. Acks are read whole: split ones are the same
  reader's, in `logger_safety`.
* `plugin`: two threads and three chunks: one whose second record has no text, so that its first
  is sent again each time, one that begins with a record that is dropped and
  has two that are sent, and one whose record has no source name. Three items are made at
  most, so that a chunk is written again after each kind of failure. With a cache,
  where the states are many, they are two, the third chunk is left in the
  buffer, and a reader that polls nothing is not followed further (`FewItems`). The
  threads do alike (`Threads`). The run ends when tags run out, which is why it
  has deadlock unchecked.
* `messages`: two items with the same fields, for two threads to make one id;
  one with another type in one place, which in Ruby has the same mdsd type, and no text there; for
  each manager one whose key is that of the first two, and one without fields. A
  third thread would be between steps that two are already between.
* `socket`, `socket_*`: two senders compete for both mutexes, one reader closes under
  them. Two bytes make a message that stops half way, a buffer of one makes every
  message stop there until mdsd reads.

Deadlock is checked where the cfg does not say otherwise. The queue's run turns
it off because poppers of an empty queue sleep when no push is left, the
`SocketClient` runs because a stopped client rests and because its threads may
hang together (`socket_stuck`), and `plugin` because its tags run out.

### Fairness

* `BufferedLogger`: each thread takes a step when it can (`ThreadFairness`, the
  fairness of `FairSpec`): they are threads of a preemptive scheduler, and a step is
  enabled only if what the code blocks on is there. Time passes: cached items age
  (`AgeStep`), the resend timer and `WaitUntilAllSend`'s timeout run out. Nothing
  makes the application call, connections break, calls of the client hang (`HangStep`) or mdsd acknowledge.
  A thread that hangs stays where it is: `DestructorReturns` says that the
  destructor returns or a thread is `Stuck`, `QueueDrains` and `CacheDrains` except the case that
  a Send has hung (`sendHung`), for then the sender or the resender will wait for its mutex
  even with an mdsd that reads. That mdsd
  reads what it is sent (`ServerFairness`) is an antecedent of `QueueDrains` and
  `CacheDrains` and not of `DestructorReturns`. They need it: the resender drops
  old items only at the start of a round, and a round sends with a `poll` without
  timeout (`SocketClient.cc:336`), so that while mdsd stays connected and does not read, no
  later round begins and the cache grows. `src/README.md:44` says that events are
  dropped after the timeout; that holds of an mdsd that reads.
* `SocketLogger`: the same for callers inside `SendDjson` and the two threads,
  with an mdsd that reads. Nobody has to call. `SendDjson` does block while
  mdsd is connected and reads nothing, and it hangs, as does every later
  call, when a Send polls nothing: `CallReturns` and `CacheDrains` except `sendHung`.
* `SocketClient`: a thread in a call goes on. It is strong fairness because a
  mutex may be free and taken again and again; the model assumes that a waiter
  gets it at some time, as the operating system's mutexes give it. No timeout is
  fair (`WaitEndsEarly`, nor `GiveUp` by itself), so that stopping is shown not to depend
  on one, and mdsd need not do anything.

## The theorems

For every value of the constants, from the assumptions in the modules
(`ThreadsAssumption`, `SizesAssumption`, `TagsAssumption` and so on: types,
and that names of threads differ), TLAPS checks what follows. Every safety
property that a run checks is among it. Theorems marked + are about formulas
that no run lists; they were model-checked on the instances of the runs before
they were proved.

**ConcurrentQueueProofs.** `TypeCorrect`, `FifoOrderHolds`,
`DropsOnlyWhenFullHolds`, `NoLostWakeupHolds`, and `RefinesLossyFifo`: each
step is a step of the lossy fifo or stutters. Their invariant is the
conjunction of the first three; `NoLostWakeup` is inductive next to it, since
a push adds one value and one notified popper, and a popper takes a value
before it ceases to be one of those that were notified.

**BufferedLoggerProofs.** `TypeCorrect`, with `DeliveryProofs` for the shared
part. It needs that reader and resender start with the sender
(`StartedTogether`), without which `StartWorkers` could start a reader that
has lines in its hands.

**BufferedLoggerSafetyProofs.** `NoSilentLossHolds`, `CachedBeforeSentHolds`,
`ObsoleteNotResentHolds`, `ErasedStaysErasedHolds`. Their invariant `IInv` follows an item on its way.
`Flow`: what is in the cache, in a copy, in a socket or in the sender's hand
after `Add` was cached. `AcksTrue`: an ack of success that travels was given
by mdsd. `InOrder`: tags grow, so that the sender's new item was never cached
before, which is what keeps an erased item erased when the sender adds one.
`ExpiredGone`: what the resender dropped is neither in the cache nor in
its second copy. `EndedAsTold`: a sender that ended and did not die was told to stop, or
found the queue stopped. On that invariant rest

* `KeepsItsPromiseHolds`: each step of `Next` maps to a step of `DeliveryPromise`
  or to a stutter. `InOrder` makes `SenderCache` a `Take`, `AcksTrue` makes the
  reader's erasing of the line's item a `LetGo` and of another's a `Mistake`, and
  `Flow` makes mdsd's answer an `Acknowledge` of an item that was taken;
* `KeptUnlessCutOff` +: `Spec /\ [][~CutOff]_vars` implies
  `[]KeptUntilAckedOrTimedOut`, the property that `misread_ack` refutes. `CutOff` is a
  step that loses a connection from which part of a line was read. Without such a
  step `partialData` is always the beginning of the line that comes next
  (`WholeLines`), and `number` of the line is its own. So that step is the whole
  cause of the finding;
* `SenderEndsForAReason` +, `SenderDiesForAReason` +: a sender that has ended was told
  to, or its queue was stopped, or `Get` or `GetData` threw; and it dies only with an
  item whose `GetData` may throw, or that was acknowledged, got too old, or was misread.
  So in the `all_sent` finding what is lost are the items behind that one;
* `QueueIsLossyFifo` +: `AddData`, `DataSender::Run` and `stop_once_empty` take
  only steps of `LossyFifo`, with items numbered by their rank among those added.
  Ranks stay because tags grow (`RankStays`), and
  `OldGoFirst` says that what was taken or dropped is older than what is queued. With
  `RefinesLossyFifo` it joins the two modules;
* `NoThreadOutlivesLogger` +: after the destructor's joins no thread runs. Only
  `AddData` starts threads (`FinishedStays`), so each join holds until the last
  one (`Joined`).

**SocketLoggerProofs.** `TypeCorrect`, `AcceptedIsKeptHolds`,
`RefusedNotKeptHolds`, `CachedBeforeSentHolds`, `ErasedStaysErasedHolds`.
`Numbered` says that the counter has passed every item and that who is in
`SendDjson` has no answer yet and adds once: so an item that was refused or
erased is never added again. `Added` follows an accepted item back to the
cache, and `Retained` says for which four reasons it may have left, of which
refusal is excluded for an accepted one. `AcksTrue`, `CacheLosses` and what
travels (`CachedBeforeSent`), from `DeliveryProofs`, are used for both loggers.
`KeepsItsPromiseHolds`: as for `BufferedLogger`, and each answer of `SendDjson` is an
`Accept` or a `Refuse`, the only one for its item. `KeptUnlessCutOff` +: without a
`CutOff`, what was accepted stays until it is acknowledged or too old.

**OutputMdsdProofs.** `PluginIsCaller`, `PluginTypeCorrect`, `WrittenIsKeptHolds`,
`RecordsInOrderHolds`, `RepeatedOnlyAfterFailureHolds`, on top of
`SocketLoggerProofs`. `Progress` says that a thread at a place in its chunk has
answers "true" for the places before it; `Latest` that an item in
`SendDjson` is the newest of its chunk; `Passes` that the pass over the chunk in
which an item was made goes on, ended with the chunk written, or failed: because the logger
refused an item, or because `write` raised for a record behind it that has no text or no source name
(`StopsBehind`), which is the other reason in `RepeatedOnlyAfterFailure`.
Through `PluginIsCaller`, what is proved of the logger holds here:
`PluginKeepsItsPromise`, and `WrittenUnlessCutOff` +, which follows a record from the
chunk that is gone to the cache, to mdsd's ack, or to its timeout.

**DjsonLogItemProofs.** `TypeCorrect`, `OneSchemaPerIdHolds`,
`SameFieldsSameIdHolds`, `OwnSchemaHolds`, `WholeMessageHolds`,
`OnlyCollisionsThrowHolds`. `Ids`: ids in entries, in the hands of threads and in
messages are at most what was given, and those that are the same have the same
schema. `Keys`: an entry's schema is that of some item with that key,
and a thread's key that of its item. `Lives`: an item that nobody has is
fresh, ready or whole, and one that a thread has is as far as the thread is.
`OneSchemaPerId`, `SameFieldsSameId` and `OwnSchema` hold whether or not resends
overlap; `WholeMessageHolds` and `OnlyCollisionsThrowHolds` assume that they do not: where they do,
`GetData` may also throw because `m_svlist` is swapped away.
`SchemaStaysHolds` +: an item keeps the id and schema it was first given, also when
resends overlap. For `IdMgr` that is because both threads find one entry for
the item's key; for `SchemaManager`, which may give a key two ids, because an item
there is made by one thread alone (`MakesAlone`). `SameMessageAgainHolds` +: the
text of a message does not change once it is composed, if resends do not overlap. The
assumption, `~ResendOverlaps`, is what `getdata_race` does without.

**SocketClientProofs.** `TypeCorrect` includes that each mutex is held exactly
from its lock to the end of its scope, and that a socket that is made and not
connected has its maker in `connect`. `MixedOnlyBeforeCloseHolds` needs
`TailHeld`: an unfinished message at the end of a live connection is being
sent by the holder of `m_sendMutex`, or its sender threw and is on its way to `Close`, or
`Stop` made its sender leave, after which nobody begins to write.
`NoSocketLostHolds` follows from which steps set `m_sockfd` (`SockSteps`).
`StoppedStaysClosedHolds` needs that the flag is set before
`Stop` asks for `m_fdMutex` (`StopInv`). Besides,

* `SentOnOneConnectionUnlessReplaced` +: a message is sent on the connection it
  began on, the property that `socket_torn` refutes, unless a thread connects while a
  sender is inside a message (`ConnectedInsideMessage`); `OneSenderOneConnection` +:
  with one sender, as in a `BufferedLogger` without acks, nothing else is needed;
* `NoCircularWaitHolds` +: a thread that waits for a mutex holds neither and none
  holds both, so that `SendData`, its handler, `Connect`, `Close` and `Stop` cannot
  wait for each other in a circle;
* `StopInterruptsHolds` +: once `Stop` returned, no thread sleeps on `m_connCV`, and
  none polls a socket that was not shut down: the safety part of `StopReaches`. The
  thread that polls -1, which `socket_stuck` shows, is the one it leaves out.

Checked by TLC only: everything under fairness (`DestructorReturns`,
`QueueDrains`, `CacheDrains`, `CallReturns`, `StopReturns`, `StopReaches`, and the part of
`ImplementsLossyFifo` that says that values are taken and poppers of a stopped
queue leave) and the runs that expect a violation. Liveness under fairness is
out of the prover's reach.

## Not modelled

* Of the plugin: `format`, the matching of tags with patterns, the texts of
  values, and the time stamp that `write` adds (a record that already has a
  field of its name keeps that field where it was, `out_mdsd.rb:85-87`, and the
  schema then names another field as the time). The model is given which records are too
  large, where the code compares a number of characters with a limit that mdsd has in bytes.
  fluentd's own limit on retries is not in this repository.
* Restarts: tags start at 1 again in a new process, and what mdsd makes of tags
  that it had within the hour is mdsd's.
* The delay before reconnecting (`SocketClient.cc:356-381`): waits last as long as
  they may, and no property depends on how long.
* The assertion at `DataSender.cc:68`, in a build that has assertions: the pop and
  the look at the size are one step.
* `IdMgr::Insert`, which only a test calls, and the `bool` overload of `try_pop`
  (`ConcurrentQueue.h:105`), which nothing calls and which ends without a return.
* The counters (`m_totalSend` and the like), which only tests read. A send that `Stop` ends half way
  returns as one that succeeded (`SocketClient.cc:250`) and is counted as one.
* `ConcurrentMap::ForEachUnsafe` while its map changes: the code calls it on
  private copies only. Assignment and moves of maps, and `ForEach`, are the tests'.
* The number of a closed descriptor given to a new socket of another part of
  the process before a thread uses it: the model takes such a use as one that
  fails.
* Tracing: diagnostic output with one hazard, a tracer that is replaced while others
  write to it. Addresses, the SWIG wrapper, tests and build files have no behaviour
  over time.

## Plan

What is left, in the order of its worth:

1. `DataReader::ProcessData` and `WaitBeforeReConnect` as functions against
   reference definitions: lines over any division into reads; the delay over
   attempts and time left.
2. mdsd across restarts of the plugin, with its memory of tags.
3. `DjsonLogItem` inside the loggers, so that which resend overlaps which `GetData`
   follows from the resend timer's and the sender's steps.
