----------------------------- MODULE DjsonLogItem -----------------------------
(***************************************************************************)
(* The messages: what GetData makes of an item's fields, and the schema    *)
(* ids, which mdsd takes to name one schema each.  A BufferedLogger item   *)
(* gets its id from IdMgr, in GetData, in the thread that sends it first.  *)
(* A plugin record gets its id from SchemaManager (Ruby), in the flush     *)
(* thread, and its item is made of the id, schema and values.              *)
(*                                                                         *)
(* IdMgr locks its table for each call; SchemaManager locks its counter    *)
(* and not its table; an item has no lock, and sender and resender may     *)
(* have it at once.  IdMgr::Insert, which only a test calls, is left out.  *)
(***************************************************************************)
EXTENDS Integers, FiniteSets, Sequences, SequencesExt

CONSTANTS
    Managers,       \* who may give the ids
    Threads,        \* senders, resenders, flush threads
    Items,          \* items (of plugin records too)
    NoItem,         \* what a thread has outside of these functions
    Chars,          \* what names of fields and types are made of
    FieldsOf,       \* an item's fields: names and types, in order
    Rb2MdsdType,    \* the mdsd type of a Ruby class
    Malformed,      \* records with a text that JSON.generate raises for
    Comma,          \* what SchemaManager puts between names and classes
    ResendOverlaps  \* may a resend round fall in the sender's GetData?

Fields == [name : Seq(Chars), type : Seq(Chars)]

ASSUME ManagersAssumption == Managers \subseteq {"IdMgr", "SchemaManager"}
ASSUME ItemsAssumption == NoItem \notin Items
ASSUME MalformedAssumption == Malformed \subseteq Items
ASSUME FieldsAssumption == FieldsOf \in [Items -> Seq(Fields)]
ASSUME ClassesAssumption ==
    "SchemaManager" \in Managers =>
        \A i \in Items : \A n \in DOMAIN FieldsOf[i] :
            /\ FieldsOf[i][n].type \in DOMAIN Rb2MdsdType
            /\ Rb2MdsdType[FieldsOf[i][n].type] \in Seq(Chars)
ASSUME ResendOverlapsAssumption == ResendOverlaps \in BOOLEAN

VARIABLES
    manager,        \* IdMgr or SchemaManager
    cache,          \* its table: m_cache, @schemaHash
    lastId,         \* @schema_id
    svlist,         \* m_svlist of each item
    schemaAndData,  \* m_schemaAndData of each item
    djsonData,      \* m_djsonData of each item
    pc,             \* where each thread is
    itemOf,         \* the item it works on
    keyOf,          \* its local key
    newId,          \* its local new_schema_id
    strm            \* its local strm

tableVars == <<cache, lastId>>
itemVars == <<svlist, schemaAndData, djsonData>>
localVars == <<itemOf, keyOf, newId, strm>>
vars == <<manager, tableVars, itemVars, pc, localVars>>

\* an empty string: of m_schemaAndData, of a stream
Nothing == [id |-> 0, schema |-> <<>>, values |-> <<>>]

\* a stream with id and schema in it, for the values to follow
Stream(id, schema) == [id |-> id, schema |-> schema, values |-> <<>>]

------------------------------------------------------------------------------
(* Keys and schemas. *)

\* names and types in one string
NamesAndTypes(fields, between) ==
    FlattenSeq([n \in DOMAIN fields |->
        fields[n].name \o between \o fields[n].type \o between])

\* bug: the types are left out
NamesOnly(fields) == FlattenSeq([n \in DOMAIN fields |-> fields[n].name])

\* m_svlist as a key of IdMgr's table
GetSchemaCacheKey(fields) == NamesAndTypes(fields, <<>>)

\* a record as a key of SchemaManager's table
GetSchemaKey(fields) == NamesAndTypes(fields, <<Comma>>)

\* a record's names, with the mdsd types of its values' classes
GetNewSchema(fields) ==
    [n \in DOMAIN fields |-> [fields[n] EXCEPT !.type = Rb2MdsdType[@]]]

\* the schema array: names and mdsd types
SchemaArray(fields) ==
    IF manager = "IdMgr" THEN fields ELSE GetNewSchema(fields)

------------------------------------------------------------------------------
(* Initial state. *)

PcStates == {"idle", "schemaAndData", "schema", "insert", "newId", "store",
             "values", "swap", "storeItem", "head", "body", "return", "threw"}

Init ==
    /\ manager \in Managers
    /\ cache = << >>
    /\ lastId = 0
    /\ svlist = [i \in Items |->
                    IF manager = "IdMgr" THEN FieldsOf[i] ELSE <<>>]
    /\ schemaAndData = [i \in Items |-> Nothing]
    /\ djsonData = [i \in Items |-> <<>>]
    /\ pc = [t \in Threads |-> "idle"]
    /\ itemOf = [t \in Threads |-> NoItem]
    /\ keyOf = [t \in Threads |-> <<>>]
    /\ newId = [t \in Threads |-> 0]
    /\ strm = [t \in Threads |-> Nothing]

Goes(t, from, to) ==
    /\ pc[t] = from
    /\ pc' = [pc EXCEPT ![t] = to]
    /\ UNCHANGED manager

\* the thread leaves the function and its locals
Leaves(t, from) ==
    /\ Goes(t, from, "idle")
    /\ itemOf' = [itemOf EXCEPT ![t] = NoItem]
    /\ keyOf' = [keyOf EXCEPT ![t] = <<>>]
    /\ newId' = [newId EXCEPT ![t] = 0]
    /\ strm' = [strm EXCEPT ![t] = Nothing]

Busy(i) == \E t \in Threads : itemOf[t] = i

\* the table with an entry that is new, or written over
WithEntry(key, id, schema) ==
    [k \in DOMAIN cache \cup {key} |->
        IF k = key THEN [id |-> id, schema |-> schema] ELSE cache[k]]

------------------------------------------------------------------------------
(* SchemaManager: get_schema_info of a record, in its flush thread. *)

\* a look into the table, under no lock
GetSchemaInfo(t, i) ==
    /\ manager = "SchemaManager"
    /\ schemaAndData[i] = Nothing /\ ~Busy(i)
    /\ FieldsOf[i] # <<>>   \* write has added a time stamp
    /\ LET key == GetSchemaKey(FieldsOf[i]) IN
         /\ keyOf' = [keyOf EXCEPT ![t] = key]
         /\ \/ /\ key \in DOMAIN cache
               /\ strm' =
                    [strm EXCEPT ![t] = Stream(cache[key].id, cache[key].schema)]
               /\ Goes(t, "idle", "values")
            \/ /\ key \notin DOMAIN cache
               /\ UNCHANGED strm
               /\ Goes(t, "idle", "newId")
    /\ itemOf' = [itemOf EXCEPT ![t] = i]
    /\ UNCHANGED <<tableVars, itemVars, newId>>

\* bug: counts up after it takes the id
GetNewSchemaIdPost(t) ==
    /\ manager = "SchemaManager"
    /\ Goes(t, "newId", "store")
    /\ lastId' = lastId + 1
    /\ newId' = [newId EXCEPT ![t] = lastId]
    /\ UNCHANGED <<cache, itemVars, itemOf, keyOf, strm>>

\* get_new_schema_id, under its mutex
GetNewSchemaId(t) ==
    /\ manager = "SchemaManager"
    /\ Goes(t, "newId", "store")
    /\ lastId' = lastId + 1
    /\ newId' = [newId EXCEPT ![t] = lastId']
    /\ UNCHANGED <<cache, itemVars, itemOf, keyOf, strm>>

\* the entry is written over when another thread was faster
StoreSchema(t) ==
    /\ manager = "SchemaManager"
    /\ Goes(t, "store", "values")
    /\ LET schema == SchemaArray(FieldsOf[itemOf[t]]) IN
         /\ cache' = WithEntry(keyOf[t], newId[t], schema)
         /\ strm' = [strm EXCEPT ![t] = Stream(newId[t], schema)]
    /\ UNCHANGED <<lastId, itemVars, itemOf, keyOf, newId>>

\* get_record_values, and the item that SendDjson makes of the string
MakeItem(t) ==
    /\ manager = "SchemaManager"
    /\ itemOf[t] \notin Malformed
    /\ Leaves(t, "values")
    /\ schemaAndData' =
         [schemaAndData EXCEPT
             ![itemOf[t]] = [strm[t] EXCEPT !.values = FieldsOf[itemOf[t]]]]
    /\ UNCHANGED <<tableVars, svlist, djsonData>>

------------------------------------------------------------------------------
(* DjsonLogItem::GetData. *)

\* GetData is called, again at a resend, and finds m_djsonData empty or not
GetData(t, i) ==
    /\ ResendOverlaps \/ ~Busy(i)
    /\ manager = "SchemaManager" => schemaAndData[i] # Nothing
    /\ \/ djsonData[i] # <<>> /\ Goes(t, "idle", "return")
       \/ djsonData[i] = <<>> /\ Goes(t, "idle", "schemaAndData")
    /\ itemOf' = [itemOf EXCEPT ![t] = i]
    /\ UNCHANGED <<tableVars, itemVars, keyOf, newId, strm>>

\* bug: takes every item for one with fields
TestSchemaAndDataAlways(t) ==
    /\ Goes(t, "schemaAndData", "schema")
    /\ UNCHANGED <<tableVars, itemVars, localVars>>

\* m_schemaAndData.empty()
TestSchemaAndData(t) ==
    /\ \/ Goes(t, "schemaAndData", "schema") /\ schemaAndData[itemOf[t]] = Nothing
       \/ Goes(t, "schemaAndData", "head") /\ schemaAndData[itemOf[t]] # Nothing
    /\ UNCHANGED <<tableVars, itemVars, localVars>>

\* GetSchemaCacheKey and IdMgr::GetItem
GetItem(t) ==
    /\ pc[t] = "schema"
    /\ LET key == GetSchemaCacheKey(svlist[itemOf[t]]) IN
         /\ keyOf' = [keyOf EXCEPT ![t] = key]
         /\ \/ /\ key = <<>>
               /\ UNCHANGED strm
               /\ Goes(t, "schema", "threw")
            \/ /\ key # <<>> /\ key \in DOMAIN cache
               /\ strm' =
                    [strm EXCEPT ![t] = Stream(cache[key].id, cache[key].schema)]
               /\ Goes(t, "schema", "values")
            \/ /\ key # <<>> /\ key \notin DOMAIN cache
               /\ UNCHANGED strm
               /\ Goes(t, "schema", "insert")
    /\ UNCHANGED <<tableVars, itemVars, itemOf, newId>>

\* bug: does not look for the key again
FindOrInsertBlind(t) ==
    /\ manager = "IdMgr" /\ pc[t] = "insert"
    /\ LET schema == SchemaArray(svlist[itemOf[t]])
           id == Cardinality(DOMAIN cache) + 1
       IN /\ cache' = WithEntry(keyOf[t], id, schema)
          /\ strm' = [strm EXCEPT ![t] = Stream(id, schema)]
    /\ Goes(t, "insert", "values")
    /\ UNCHANGED <<lastId, itemVars, itemOf, keyOf, newId>>

\* bug: takes what it finds, of whatever schema
FindOrInsertUnchecked(t) ==
    /\ manager = "IdMgr" /\ pc[t] = "insert"
    /\ LET schema == SchemaArray(svlist[itemOf[t]])
           known == keyOf[t] \in DOMAIN cache
           id == IF known THEN cache[keyOf[t]].id
                 ELSE Cardinality(DOMAIN cache) + 1
       IN /\ cache' = IF known THEN cache ELSE WithEntry(keyOf[t], id, schema)
          /\ strm' = [strm EXCEPT ![t] = Stream(id, schema)]
    /\ Goes(t, "insert", "values")
    /\ UNCHANGED <<lastId, itemVars, itemOf, keyOf, newId>>

\* ComposeSchemaArray and IdMgr::FindOrInsert
FindOrInsert(t) ==
    /\ manager = "IdMgr" /\ pc[t] = "insert"
    /\ LET schema == SchemaArray(svlist[itemOf[t]])
           key == keyOf[t]
           Answers(id) == strm' = [strm EXCEPT ![t] = Stream(id, schema)]
       IN \/ /\ key \notin DOMAIN cache
             /\ LET id == Cardinality(DOMAIN cache) + 1 IN
                  /\ cache' = WithEntry(key, id, schema)
                  /\ Answers(id)
             /\ Goes(t, "insert", "values")
          \/ /\ key \in DOMAIN cache /\ cache[key].schema = schema
             /\ Answers(cache[key].id)
             /\ UNCHANGED cache
             /\ Goes(t, "insert", "values")
          \/ /\ key \in DOMAIN cache /\ cache[key].schema # schema
             /\ UNCHANGED <<cache, strm>>
             /\ Goes(t, "insert", "threw")
    /\ UNCHANGED <<lastId, itemVars, itemOf, keyOf, newId>>

\* bug: m_svlist was freed before
ComposeDataValueFreed(t) ==
    /\ manager = "IdMgr"
    /\ Goes(t, "values", "swap")
    /\ UNCHANGED <<tableVars, itemVars, localVars>>

ComposeDataValue(t) ==
    /\ manager = "IdMgr"
    /\ Goes(t, "values", "swap")
    /\ strm' = [strm EXCEPT ![t].values = svlist[itemOf[t]]]
    /\ UNCHANGED <<tableVars, itemVars, itemOf, keyOf, newId>>

\* frees m_svlist
SwapSvlist(t) ==
    /\ Goes(t, "swap", "storeItem")
    /\ svlist' = [svlist EXCEPT ![itemOf[t]] = <<>>]
    /\ UNCHANGED <<tableVars, schemaAndData, djsonData, localVars>>

StoreSchemaAndData(t) ==
    /\ Goes(t, "storeItem", "head")
    /\ schemaAndData' = [schemaAndData EXCEPT ![itemOf[t]] = strm[t]]
    /\ UNCHANGED <<tableVars, svlist, djsonData, localVars>>

\* the two parts of a message: the length of a text, and the text
Length(of) == [part |-> "length", of |-> of]
Text(of) == [part |-> "text", of |-> of]

\* ComposeFullData: m_djsonData = lenstr
AssignLength(t) ==
    /\ Goes(t, "head", "body")
    /\ djsonData' =
         [djsonData EXCEPT ![itemOf[t]] = <<Length(schemaAndData[itemOf[t]])>>]
    /\ UNCHANGED <<tableVars, svlist, schemaAndData, localVars>>

\* ComposeFullData: m_djsonData.append()
AppendBody(t) ==
    /\ Goes(t, "body", "return")
    /\ djsonData' =
         [djsonData EXCEPT
             ![itemOf[t]] = Append(@, Text(schemaAndData[itemOf[t]]))]
    /\ UNCHANGED <<tableVars, svlist, schemaAndData, localVars>>

\* GetData returns, or the exception leaves it
Return(t) ==
    /\ Leaves(t, "return") \/ Leaves(t, "threw")
    /\ UNCHANGED <<tableVars, itemVars>>

\* get_record_values raises: the record has its id by then, and gets no item
RaiseMalformed(t) ==
    /\ manager = "SchemaManager"
    /\ itemOf[t] \in Malformed
    /\ Leaves(t, "values")
    /\ UNCHANGED <<tableVars, itemVars>>

ThreadStep(t) ==
    \/ \E i \in Items : GetSchemaInfo(t, i) \/ GetData(t, i)
    \/ GetNewSchemaId(t) \/ StoreSchema(t) \/ MakeItem(t)
    \/ TestSchemaAndData(t)
    \/ GetItem(t) \/ FindOrInsert(t) \/ ComposeDataValue(t)
    \/ SwapSvlist(t) \/ StoreSchemaAndData(t)
    \/ AssignLength(t) \/ AppendBody(t)
    \/ Return(t) \/ RaiseMalformed(t)

Next == \E t \in Threads : ThreadStep(t)

Spec == Init /\ [][Next]_vars

------------------------------------------------------------------------------
(* Properties. *)

Texts == [id : Nat, schema : Seq(Fields), values : Seq(Fields)]
Parts == [part : {"length", "text"}, of : Texts]

TableOK ==
    /\ lastId \in Nat
    /\ IsFiniteSet(DOMAIN cache)
    /\ \A key \in DOMAIN cache :
         /\ cache[key] \in [id : Nat \ {0}, schema : Seq(Fields)]
         /\ manager = "IdMgr" => cache[key].id <= Cardinality(DOMAIN cache)
         /\ manager = "SchemaManager" => cache[key].id <= lastId

ItemsOK ==
    /\ DOMAIN svlist = Items
    /\ \A i \in Items : svlist[i] \in {FieldsOf[i], <<>>}
    /\ schemaAndData \in [Items -> Texts]
    /\ djsonData \in [Items -> Seq(Parts)]

ThreadsOK ==
    /\ pc \in [Threads -> PcStates]
    /\ itemOf \in [Threads -> Items \cup {NoItem}]
    /\ \A t \in Threads : pc[t] = "idle" <=> itemOf[t] = NoItem
    /\ DOMAIN keyOf = Threads
    /\ newId \in [Threads -> Nat]
    /\ \A t \in Threads : pc[t] = "store" => newId[t] \in 1..lastId
    /\ strm \in [Threads -> Texts]

(* Types; an item's svlist is whole until it is freed; and ids are given    *)
(* from 1 on without a gap by IdMgr, and are counted by SchemaManager.      *)
TypeOK ==
    /\ manager \in Managers
    /\ TableOK
    /\ ItemsOK
    /\ ThreadsOK

Composed(i) == schemaAndData[i] # Nothing

\* an item's names and types, as they are run together
Spelling(i) ==
    NamesAndTypes(FieldsOf[i], IF manager = "IdMgr" THEN <<>> ELSE <<Comma>>)

Collides(i) ==
    \E j \in Items : /\ Spelling(j) = Spelling(i)
                     /\ SchemaArray(FieldsOf[j]) # SchemaArray(FieldsOf[i])

(* A schema id names one schema, in all that mdsd gets: the table of ids    *)
(* may be asked and filled by many threads at once (IdMgr.cc:42-56,         *)
(* out_mdsd.rb:132, 155-168), and different keys may have run together.     *)
OneSchemaPerId ==
    \A i, j \in Items :
        Composed(i) /\ Composed(j) /\ schemaAndData[i].id = schemaAndData[j].id =>
            schemaAndData[i].schema = schemaAndData[j].schema

(* IdMgr gives items with the same fields, in the same order, the same id,  *)
(* whichever threads compose them: IdMgr.h:24-28.                           *)
SameFieldsSameId ==
    \A i, j \in Items :
        /\ manager = "IdMgr" /\ FieldsOf[i] = FieldsOf[j]
        /\ Composed(i) /\ Composed(j)
        => schemaAndData[i].id = schemaAndData[j].id

(* What is sent has the schema of its own fields, in their order            *)
(* (DjsonLogItem.cc:50-51), unless names and types of another item, run     *)
(* together, make the same key.                                             *)
OwnSchema ==
    \A i \in Items :
        Composed(i) => \/ schemaAndData[i].schema = SchemaArray(FieldsOf[i])
                       \/ Collides(i)

(* GetData throws only for an item without fields, or with a key that is    *)
(* not its own (IdMgr.cc:13, 50).  The sender's thread ends by that, and    *)
(* the resender's round (DataSender.cc:100, DataResender.cc:102).  This is  *)
(* so as long as no resend round falls in the sender's GetData: then it may *)
(* find m_svlist swapped away, and throws for that (getdata_race).          *)
OnlyCollisionsThrow ==
    \A t \in Threads :
        pc[t] = "threw" =>
            \/ Spelling(itemOf[t]) = <<>>
            \/ Collides(itemOf[t])

(* GetData returns the full string (DjsonLogItem.h:77), at the first call   *)
(* and at a resend: the length of a text, the text, and in it the values of *)
(* all of the item's fields.                                                *)
WholeMessage ==
    \A t \in Threads :
        pc[t] = "return" =>
            \E text \in {schemaAndData[itemOf[t]]} :
                /\ djsonData[itemOf[t]] = <<Length(text), Text(text)>>
                /\ text.values = FieldsOf[itemOf[t]]
===============================================================================
