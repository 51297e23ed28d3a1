------------------------------ MODULE OutputMdsd ------------------------------
(***************************************************************************)
(* The fluentd plugin: flush threads write chunks of records through one   *)
(* SocketLogger, each thread one chunk at a time and one record after the  *)
(* other.  A record that is too large is dropped.  When no text can be     *)
(* made of a record, or SendDjson says "false", write raises, and fluentd, *)
(* which is external, writes the whole chunk again later; a chunk whose    *)
(* write returned is gone.                                                 *)
(*                                                                         *)
(* The flush threads are SocketLogger's Callers.  A record is a member of  *)
(* Records; which of them have no text, are too large, or have a source    *)
(* name that is empty, is all that the plugin's control depends on.        *)
(***************************************************************************)
EXTENDS SocketLogger

CONSTANTS
    Records,
    Malformed,   \* records that JSON.generate raises for: invalid UTF-8
    TooLarge,    \* records whose text is longer than max_record_size
    Sourceless,  \* records for whose tag a pattern matches the empty string
    Chunks,      \* the chunks that fluentd's buffer gets
    RecordsOf,   \* the records of each chunk, in order
    NoChunk      \* what a thread has that writes no chunk

ASSUME RecordsAssumption ==
    /\ Malformed \subseteq Records
    /\ TooLarge \subseteq Records
    /\ Sourceless \subseteq Records
    /\ RecordsOf \in [Chunks -> Seq(Records)]
    /\ NoChunk \notin Chunks

VARIABLES
    chunkOf,  \* the chunk each thread writes
    at,       \* the place in it of the record that the thread handles
    queued,   \* chunks in the buffer that no thread writes
    written,  \* chunks whose write returned, which fluentd purged
    carries   \* history: for each item's tag, the chunk and place of its record

chunkVars == <<chunkOf, at, queued, written>>
pluginVars == <<vars, chunkVars, carries>>

Places == (Chunks \cup {NoChunk}) \X Nat
NoPlace == <<NoChunk, 0>>

Writing(c) == chunkOf[c] # NoChunk
AtRecord(c) == Writing(c) /\ at[c] <= Len(RecordsOf[chunkOf[c]])
RecordOf(c) == RecordsOf[chunkOf[c]][at[c]]

(* Types; a chunk is in one place: queued, written, or in one thread's      *)
(* hands; and only a thread that writes is in SendDjson, with an item made  *)
(* of the record it is at.                                                  *)
PluginTypeOK ==
    /\ chunkOf \in [Callers -> Chunks \cup {NoChunk}]
    /\ at \in [Callers -> Nat \ {0}]
    /\ queued \subseteq Chunks
    /\ written \subseteq Chunks
    /\ queued \cap written = {}
    /\ carries \in [Tags -> Places]
    /\ \A c \in Callers : Writing(c) => chunkOf[c] \notin queued \cup written
    /\ \A c, d \in Callers : Writing(c) /\ chunkOf[c] = chunkOf[d] => c = d
    /\ \A c \in Callers :
         item[c] # NoItem => /\ AtRecord(c)
                             /\ carries[item[c]] = <<chunkOf[c], at[c]>>

PluginInit ==
    /\ Init
    /\ chunkOf = [c \in Callers |-> NoChunk]
    /\ at = [c \in Callers |-> 1]
    /\ queued = Chunks
    /\ written = {}
    /\ carries = [tag \in Tags |-> NoPlace]

------------------------------------------------------------------------------
(* write(chunk), in a flush thread. *)

\* bug: goes on in the new chunk where the last one failed
StartWriteGoesOn(c) ==
    /\ loggerPc = "used"
    /\ ~Writing(c)
    /\ \E k \in queued :
         /\ chunkOf' = [chunkOf EXCEPT ![c] = k]
         /\ queued' = queued \ {k}
    /\ UNCHANGED <<vars, at, written, carries>>

\* bug: another thread can take it too
StartWriteShared(c) ==
    /\ loggerPc = "used"
    /\ ~Writing(c)
    /\ \E k \in queued : chunkOf' = [chunkOf EXCEPT ![c] = k]
    /\ at' = [at EXCEPT ![c] = 1]
    /\ UNCHANGED <<vars, queued, written, carries>>

\* fluentd takes a chunk from its buffer and calls write
StartWrite(c) ==
    /\ loggerPc = "used"
    /\ ~Writing(c)
    /\ \E k \in queued :
         /\ chunkOf' = [chunkOf EXCEPT ![c] = k]
         /\ queued' = queued \ {k}
    /\ at' = [at EXCEPT ![c] = 1]
    /\ UNCHANGED <<vars, written, carries>>

NextRecord(c) ==
    /\ at' = [at EXCEPT ![c] = @ + 1]
    /\ UNCHANGED <<chunkOf, queued, written>>

\* write raises; fluentd keeps the chunk, to be written again as a whole
Raise(c) ==
    /\ chunkOf' = [chunkOf EXCEPT ![c] = NoChunk]
    /\ queued' = queued \cup {chunkOf[c]}
    /\ UNCHANGED <<at, written>>

\* get_schema_value_str raises, before the other tests
RaiseMalformed(c) ==
    /\ AtRecord(c) /\ item[c] = NoItem
    /\ RecordOf(c) \in Malformed
    /\ Raise(c)
    /\ UNCHANGED <<vars, carries>>

\* record_too_large?: a warning, and on to the next record
DropTooLarge(c) ==
    /\ AtRecord(c) /\ item[c] = NoItem
    /\ RecordOf(c) \in TooLarge \ Malformed
    /\ NextRecord(c)
    /\ UNCHANGED <<vars, carries>>

\* SendDjson refuses an empty source name before it makes an item
RefuseSourceless(c) ==
    /\ AtRecord(c) /\ item[c] = NoItem
    /\ RecordOf(c) \in Sourceless \ (TooLarge \cup Malformed)
    /\ Raise(c)
    /\ UNCHANGED <<vars, carries>>

\* SendDjson makes an item of the record
CallSendDjson(c) ==
    /\ AtRecord(c) /\ item[c] = NoItem
    /\ RecordOf(c) \notin Sourceless \cup TooLarge \cup Malformed
    /\ SendDjson(c)
    /\ carries' = [carries EXCEPT ![counter'] = <<chunkOf[c], at[c]>>]
    /\ UNCHANGED chunkVars

\* bug: a "false" is passed over
HandleAnswerIgnored(c) ==
    \/ item'[c] # NoItem /\ UNCHANGED chunkVars
    \/ item'[c] = NoItem /\ NextRecord(c)

\* bug: the "not" is missing
HandleAnswerInverted(c) ==
    \/ item'[c] # NoItem /\ UNCHANGED chunkVars
    \/ item[c] \in refused' /\ NextRecord(c)
    \/ item[c] \in accepted' /\ Raise(c)

\* handle_record goes on when SendDjson returns
HandleAnswer(c) ==
    \/ item'[c] # NoItem /\ UNCHANGED chunkVars
    \/ item[c] \in accepted' /\ NextRecord(c)
    \/ item[c] \in refused' /\ Raise(c)

InSendDjson(c) ==
    /\ SendData(c)
    /\ HandleAnswer(c)
    /\ UNCHANGED carries

\* SendDjson does not return, and neither does write
HangInSendDjson(c) ==
    /\ SendItemHangs(c)
    /\ UNCHANGED <<chunkVars, carries>>

\* write returns and fluentd purges the chunk
FinishWrite(c) ==
    /\ Writing(c) /\ ~AtRecord(c)
    /\ chunkOf' = [chunkOf EXCEPT ![c] = NoChunk]
    /\ written' = written \cup {chunkOf[c]}
    /\ UNCHANGED <<vars, at, queued, carries>>

WriteStep(c) ==
    \/ StartWrite(c)
    \/ RaiseMalformed(c)
    \/ DropTooLarge(c)
    \/ RefuseSourceless(c)
    \/ CallSendDjson(c)
    \/ InSendDjson(c)
    \/ HangInSendDjson(c)
    \/ FinishWrite(c)

\* the object goes away after the flush threads
Shutdown ==
    /\ \A c \in Callers : ~Writing(c)
    /\ Destroy

LoggerStep ==
    /\ \/ Shutdown \/ Destructor
       \/ ReaderStep \/ ResenderStep
       \/ ServerStep \/ LateCloseStep \/ HangStep
       \/ \E tag \in Tags : AgeStep(tag)
       \/ Terminated
    /\ UNCHANGED <<chunkVars, carries>>

PluginNext == LoggerStep \/ \E c \in Callers : WriteStep(c)

PluginSpec == PluginInit /\ [][PluginNext]_pluginVars

------------------------------------------------------------------------------
(* Properties. *)

\* the items made so far, and what an item was made of
Made == {tag \in Tags : carries[tag] # NoPlace}
ChunkOf(tag) == carries[tag][1]
PlaceOf(tag) == carries[tag][2]

\* records that write raises for before there is an item of them
Unsendable == Malformed \cup (Sourceless \ TooLarge)

\* one of them comes behind the item's record in its chunk
StopsBehind(tag) ==
    \E i \in DOMAIN RecordsOf[ChunkOf(tag)] :
        i > PlaceOf(tag) /\ RecordsOf[ChunkOf(tag)][i] \in Unsendable

(* A chunk is gone from fluentd's buffer only when each of its records that *)
(* is not too large was accepted by the logger, and so, with a cache, is    *)
(* kept until mdsd acknowledged it or it got too old (or an ack was         *)
(* misread): out_mdsd.rb:107 raises when one is not.                        *)
WrittenIsKept ==
    \A k \in written : \A i \in DOMAIN RecordsOf[k] :
        RecordsOf[k][i] \notin TooLarge =>
            \E tag \in accepted :
                /\ carries[tag] = <<k, i>>
                /\ useCache => tag \in dataCache \cup acked \cup expired \cup misread

(* Records reach the logger in the order of their chunk, also when it is    *)
(* written again: who makes an item of one had an answer "true" for an      *)
(* earlier item of each record before it.                                   *)
RecordsInOrder ==
    \A tag \in Made : \A i \in 1..(PlaceOf(tag) - 1) :
        RecordsOf[ChunkOf(tag)][i] \notin TooLarge =>
            \E earlier \in accepted :
                earlier < tag /\ carries[earlier] = <<ChunkOf(tag), i>>

(* mdsd gets a record twice only for a reason: between two items of one     *)
(* record the logger refused an item of the same chunk; or a record behind  *)
(* it in the chunk has no text or no source name, and raised every time.    *)
RepeatedOnlyAfterFailure ==
    \A first, second \in Made :
        first < second /\ carries[first] = carries[second] =>
            \/ StopsBehind(first)
            \/ \E tag \in refused :
                 /\ first <= tag /\ tag < second
                 /\ ChunkOf(tag) = ChunkOf(first)
==============================================================================
