-------------------------- MODULE DjsonLogItemProofs --------------------------
(***************************************************************************)
(* Proofs about the messages, for any threads, items and fields: ids name  *)
(* one schema each, items get the schema of their own fields, and, as long *)
(* as one thread at a time has an item, GetData returns it whole.          *)
(***************************************************************************)
EXTENDS DjsonLogItem, FiniteSetTheorems, SequenceTheorems, TLAPS

------------------------------------------------------------------------------
(* Keys and schemas. *)

\* no key without fields
LEMMA NoFieldsNoKey ==
  ASSUME NEW between
  PROVE  NamesAndTypes(<<>>, between) = <<>>
<1>1. [n \in DOMAIN <<>> |->
         (<<>>)[n].name \o between \o (<<>>)[n].type \o between] = <<>>
  OBVIOUS
<1>2. QED
  BY <1>1 DEF NamesAndTypes, FlattenSeq

LEMMA EmptyIsFields == <<>> \in Seq(Fields)
<1>1. ASSUME NEW S PROVE <<>> \in Seq(S)
  OBVIOUS
<1>2. QED
  BY <1>1

LEMMA SchemaArrayType ==
  ASSUME manager \in Managers, NEW i \in Items
  PROVE  SchemaArray(FieldsOf[i]) \in Seq(Fields)
<1>1. FieldsOf[i] \in Seq(Fields)
  BY FieldsAssumption DEF FieldsAssumption
<1>2. CASE manager = "IdMgr"
  BY <1>1, <1>2 DEF SchemaArray
<1>3. CASE manager = "SchemaManager"
  <2> DEFINE Mapped(n) == [FieldsOf[i][n] EXCEPT !.type = Rb2MdsdType[@]]
  <2>1. ASSUME NEW n \in 1..Len(FieldsOf[i])
        PROVE  Mapped(n) \in Fields
    <3>1. FieldsOf[i][n] \in Fields
      BY <1>1
    <3>2. n \in DOMAIN FieldsOf[i]
      BY <1>1
    <3>3. Rb2MdsdType[FieldsOf[i][n].type] \in Seq(Chars)
      BY <1>3, <3>2, ClassesAssumption DEF ClassesAssumption
    <3>4. QED
      BY <3>1, <3>3 DEF Fields
  <2>2. [n \in 1..Len(FieldsOf[i]) |-> Mapped(n)] \in Seq(Fields)
    BY <1>1, <2>1
  <2>3. DOMAIN FieldsOf[i] = 1..Len(FieldsOf[i])
    BY <1>1
  <2>4. SchemaArray(FieldsOf[i]) = [n \in 1..Len(FieldsOf[i]) |-> Mapped(n)]
    BY <1>3, <2>3 DEF SchemaArray, GetNewSchema
  <2>5. QED
    BY <2>2, <2>4
<1>4. QED
  BY <1>2, <1>3, ManagersAssumption DEF ManagersAssumption

LEMMA SchemaArrayOfNone ==
  ASSUME manager \in Managers
  PROVE  SchemaArray(<<>>) = <<>>
  BY ManagersAssumption DEF SchemaArray, GetNewSchema, ManagersAssumption

------------------------------------------------------------------------------
(* Types. *)

LEMMA EntryFacts ==
  ASSUME NEW key, NEW id, NEW schema, cache' = WithEntry(key, id, schema)
  PROVE  /\ DOMAIN cache' = DOMAIN cache \cup {key}
         /\ cache'[key] = [id |-> id, schema |-> schema]
         /\ \A k \in DOMAIN cache : k # key => cache'[k] = cache[k]
  BY DEF WithEntry

LEMMA NothingIsText == Nothing \in Texts
  BY DEF Nothing, Texts

\* a schema read from svlist is one of the item's, or empty
LEMMA SvlistSchema ==
  ASSUME TypeOK, NEW i \in Items
  PROVE  SchemaArray(svlist[i]) \in Seq(Fields)
<1>1. svlist[i] = FieldsOf[i] \/ svlist[i] = <<>>
  BY DEF TypeOK, ItemsOK
<1>2. SchemaArray(<<>>) \in Seq(Fields)
  <2>1. SchemaArray(<<>>) = <<>>
    BY SchemaArrayOfNone DEF TypeOK
  <2>2. QED
    BY <2>1, EmptyIsFields
<1>3. QED
  BY <1>1, <1>2, SchemaArrayType DEF TypeOK

LEMMA StreamIsText ==
  ASSUME NEW id \in Nat, NEW schema \in Seq(Fields)
  PROVE  Stream(id, schema) \in Texts
  BY EmptyIsFields DEF Stream, Texts

\* what GetItem and get_schema_info find
LEMMA FoundIsText ==
  ASSUME TableOK, NEW key \in DOMAIN cache
  PROVE  Stream(cache[key].id, cache[key].schema) \in Texts
<1>1. cache[key] \in [id : Nat \ {0}, schema : Seq(Fields)]
  BY DEF TableOK
<1>2. cache[key].id \in Nat /\ cache[key].schema \in Seq(Fields)
  BY <1>1
<1>3. QED
  BY <1>2, StreamIsText

LEMMA TypeInit == Init => TypeOK
<1> SUFFICES ASSUME Init PROVE TypeOK
  OBVIOUS
<1>1. TableOK
  <2>1. DOMAIN cache = {}
    BY DEF Init
  <2>2. IsFiniteSet(DOMAIN cache)
    BY <2>1, FS_EmptySet
  <2>3. QED
    BY <2>1, <2>2 DEF Init, TableOK
<1>2. ItemsOK
  BY NothingIsText DEF Init, ItemsOK
<1>3. ThreadsOK
  BY NothingIsText DEF Init, ThreadsOK, PcStates
<1>4. QED
  BY <1>1, <1>2, <1>3 DEF Init, TypeOK

LEMMA OneMore ==
  ASSUME NEW S, IsFiniteSet(S), NEW x
  PROVE  /\ IsFiniteSet(S \cup {x})
         /\ Cardinality(S) \in Nat /\ Cardinality(S \cup {x}) \in Nat
         /\ Cardinality(S) <= Cardinality(S \cup {x})
         /\ x \notin S => Cardinality(S \cup {x}) = Cardinality(S) + 1
<1>1. /\ IsFiniteSet(S \cup {x})
      /\ Cardinality(S \cup {x}) =
           IF x \in S THEN Cardinality(S) ELSE Cardinality(S) + 1
  BY FS_AddElement
<1>2. Cardinality(S) \in Nat /\ Cardinality(S \cup {x}) \in Nat
  BY <1>1, FS_CardinalityType
<1>3. QED
  BY <1>1, <1>2

\* a new entry, or one written over
LEMMA TableEntry ==
  ASSUME TableOK, NEW key, NEW id \in Nat \ {0}, NEW schema \in Seq(Fields),
         cache' = WithEntry(key, id, schema), manager' = manager,
         lastId' = lastId,
         manager = "IdMgr" => id <= Cardinality(DOMAIN cache'),
         manager = "SchemaManager" => id <= lastId
  PROVE  TableOK'
<1>1. /\ DOMAIN cache' = DOMAIN cache \cup {key}
      /\ cache'[key] = [id |-> id, schema |-> schema]
      /\ \A k \in DOMAIN cache : k # key => cache'[k] = cache[k]
  BY EntryFacts
<1>2. IsFiniteSet(DOMAIN cache)
  BY DEF TableOK
<1>3. /\ IsFiniteSet(DOMAIN cache')
      /\ Cardinality(DOMAIN cache) \in Nat
      /\ Cardinality(DOMAIN cache') \in Nat
      /\ Cardinality(DOMAIN cache) <= Cardinality(DOMAIN cache')
  BY <1>1, <1>2, OneMore
<1>4. ASSUME NEW k \in DOMAIN cache'
      PROVE  /\ cache'[k] \in [id : Nat \ {0}, schema : Seq(Fields)]
             /\ manager' = "IdMgr" => cache'[k].id <= Cardinality(DOMAIN cache')
             /\ manager' = "SchemaManager" => cache'[k].id <= lastId'
  <2>1. CASE k = key
    BY <1>1, <2>1
  <2>2. CASE k # key
    <3>1. k \in DOMAIN cache /\ cache'[k] = cache[k]
      BY <1>1, <2>2
    <3>2. cache[k].id \in Nat
      BY <3>1 DEF TableOK
    <3>3. QED
      BY <1>3, <3>1, <3>2 DEF TableOK
  <2>3. QED
    BY <2>1, <2>2
<1>5. QED
  BY <1>3, <1>4 DEF TableOK

LEMMA TableSame ==
  ASSUME TableOK, UNCHANGED <<manager, tableVars>>
  PROVE  TableOK'
  BY DEF TableOK, tableVars

LEMMA ItemsSame ==
  ASSUME ItemsOK, UNCHANGED itemVars
  PROVE  ItemsOK'
  BY DEF ItemsOK, itemVars

\* a thread goes on within a function
LEMMA ThreadsGo ==
  ASSUME ThreadsOK, NEW t \in Threads,
         NEW from \in PcStates \ {"idle"},
         NEW to \in PcStates \ {"idle", "store"},
         Goes(t, from, to), itemOf' = itemOf, DOMAIN keyOf' = Threads,
         UNCHANGED <<newId, lastId>>, strm' \in [Threads -> Texts]
  PROVE  ThreadsOK'
  BY DEF ThreadsOK, Goes

\* a thread enters a function
LEMMA ThreadsEnter ==
  ASSUME ThreadsOK, NEW t \in Threads, NEW i \in Items,
         NEW to \in PcStates \ {"idle", "store"},
         Goes(t, "idle", to), itemOf' = [itemOf EXCEPT ![t] = i],
         DOMAIN keyOf' = Threads, UNCHANGED <<newId, lastId>>,
         strm' \in [Threads -> Texts]
  PROVE  ThreadsOK'
  BY ItemsAssumption DEF ThreadsOK, Goes, ItemsAssumption

LEMMA ThreadsLeave ==
  ASSUME ThreadsOK, NEW t \in Threads,
         NEW from \in PcStates \ {"idle"}, Leaves(t, from), lastId' = lastId
  PROVE  ThreadsOK'
<1>1. strm' \in [Threads -> Texts]
  BY NothingIsText DEF Leaves, ThreadsOK
<1>2. pc' \in [Threads -> PcStates] /\ itemOf' \in [Threads -> Items \cup {NoItem}]
  BY DEF Leaves, Goes, ThreadsOK, PcStates
<1>3. QED
  BY <1>1, <1>2 DEF Leaves, Goes, ThreadsOK

LEMMA TypeStep == TypeOK /\ [Next]_vars => TypeOK'
<1> SUFFICES ASSUME TypeOK, [Next]_vars PROVE TypeOK'
  OBVIOUS
<1>0. /\ TableOK /\ ItemsOK /\ ThreadsOK /\ manager \in Managers
      /\ \A t \in Threads : /\ pc[t] # "idle" => itemOf[t] \in Items
                            /\ strm[t] \in Texts
      /\ strm \in [Threads -> Texts]
  BY DEF TypeOK, ThreadsOK
<1>1. ASSUME NEW t \in Threads, NEW i \in Items, GetSchemaInfo(t, i)
      PROVE  TypeOK'
  <2>1. strm' \in [Threads -> Texts]
    BY <1>0, <1>1, FoundIsText DEF GetSchemaInfo
  <2>2. PICK to \in {"values", "newId"} : Goes(t, "idle", to)
    BY <1>1 DEF GetSchemaInfo
  <2>3. DOMAIN keyOf' = Threads
    BY <1>0, <1>1 DEF GetSchemaInfo, ThreadsOK
  <2>4. ThreadsOK'
    BY <1>0, <1>1, <2>1, <2>2, <2>3, ThreadsEnter
       DEF GetSchemaInfo, PcStates, tableVars
  <2>5. UNCHANGED <<manager, tableVars, itemVars>>
    BY <1>1, <2>2 DEF GetSchemaInfo, Goes
  <2>6. QED
    BY <1>0, <2>4, <2>5, TableSame, ItemsSame DEF TypeOK
<1>2. ASSUME NEW t \in Threads, NEW i \in Items, GetData(t, i)
      PROVE  TypeOK'
  <2>1. PICK to \in {"return", "schemaAndData"} : Goes(t, "idle", to)
    BY <1>2 DEF GetData
  <2>2. ThreadsOK'
    BY <1>0, <1>2, <2>1, ThreadsEnter
       DEF GetData, PcStates, tableVars, ThreadsOK
  <2>3. UNCHANGED <<manager, tableVars, itemVars>>
    BY <1>2, <2>1 DEF GetData, Goes
  <2>4. QED
    BY <1>0, <2>2, <2>3, TableSame, ItemsSame DEF TypeOK
<1>3. ASSUME NEW t \in Threads, GetNewSchemaId(t)
      PROVE  TypeOK'
  <2>1. /\ Goes(t, "newId", "store") /\ lastId' = lastId + 1
        /\ newId' = [newId EXCEPT ![t] = lastId + 1]
        /\ UNCHANGED <<manager, cache, itemVars, itemOf, keyOf, strm>>
    BY <1>3 DEF GetNewSchemaId, Goes
  <2>2. TableOK'
    BY <1>0, <2>1 DEF TableOK
  <2>3. lastId \in Nat
    BY <1>0 DEF TableOK
  <2>4. newId' \in [Threads -> Nat] /\ pc' \in [Threads -> PcStates]
    BY <1>0, <2>1, <2>3 DEF ThreadsOK, Goes, PcStates
  <2>5. ThreadsOK'
    BY <1>0, <2>1, <2>3, <2>4 DEF ThreadsOK, Goes
  <2>6. QED
    BY <1>0, <2>1, <2>2, <2>5, ItemsSame DEF TypeOK
<1>4. ASSUME NEW t \in Threads, StoreSchema(t)
      PROVE  TypeOK'
  <2>1. /\ itemOf[t] \in Items /\ newId[t] \in Nat \ {0}
        /\ newId[t] <= lastId
    BY <1>0, <1>4 DEF StoreSchema, Goes, ThreadsOK, TableOK
  <2> DEFINE schema == SchemaArray(FieldsOf[itemOf[t]])
  <2>2. schema \in Seq(Fields)
    BY <1>0, <2>1, SchemaArrayType
  <2>3. strm' \in [Threads -> Texts]
    BY <1>0, <1>4, <2>1, <2>2, StreamIsText DEF StoreSchema
  <2>4. TableOK'
    BY <1>0, <1>4, <2>1, <2>2, TableEntry DEF StoreSchema, Goes
  <2>5. ThreadsOK'
    BY <1>0, <1>4, <2>3, ThreadsGo DEF StoreSchema, PcStates, ThreadsOK
  <2>6. UNCHANGED itemVars /\ manager' = manager
    BY <1>4 DEF StoreSchema, Goes
  <2>7. QED
    BY <1>0, <2>4, <2>5, <2>6, ItemsSame DEF TypeOK
<1>5. ASSUME NEW t \in Threads, MakeItem(t)
      PROVE  TypeOK'
  <2>1. itemOf[t] \in Items
    BY <1>0, <1>5 DEF MakeItem, Leaves, Goes
  <2>2. [strm[t] EXCEPT !.values = FieldsOf[itemOf[t]]] \in Texts
    BY <1>0, <2>1, FieldsAssumption DEF Texts, FieldsAssumption
  <2>3. ItemsOK'
    BY <1>0, <1>5, <2>1, <2>2 DEF MakeItem, ItemsOK
  <2>4. ThreadsOK'
    BY <1>0, <1>5, ThreadsLeave DEF MakeItem, PcStates, tableVars
  <2>5. UNCHANGED <<manager, tableVars>>
    BY <1>5 DEF MakeItem, Leaves, Goes
  <2>6. QED
    BY <1>0, <2>3, <2>4, <2>5, TableSame DEF TypeOK
<1>6. ASSUME NEW t \in Threads, TestSchemaAndData(t)
      PROVE  TypeOK'
  <2>1. PICK to \in {"schema", "head"} : Goes(t, "schemaAndData", to)
    BY <1>6 DEF TestSchemaAndData
  <2>2. ThreadsOK'
    BY <1>0, <1>6, <2>1, ThreadsGo
       DEF TestSchemaAndData, PcStates, ThreadsOK, localVars, tableVars
  <2>3. UNCHANGED <<manager, tableVars, itemVars>>
    BY <1>6, <2>1 DEF TestSchemaAndData, Goes
  <2>4. QED
    BY <1>0, <2>2, <2>3, TableSame, ItemsSame DEF TypeOK
<1>7. ASSUME NEW t \in Threads, GetItem(t)
      PROVE  TypeOK'
  <2>1. PICK to \in {"threw", "values", "insert"} : Goes(t, "schema", to)
    BY <1>7 DEF GetItem
  <2>2. strm' \in [Threads -> Texts]
    BY <1>0, <1>7, FoundIsText DEF GetItem
  <2>3. DOMAIN keyOf' = Threads
    BY <1>0, <1>7 DEF GetItem, ThreadsOK
  <2>4. ThreadsOK'
    BY <1>0, <1>7, <2>1, <2>2, <2>3, ThreadsGo DEF GetItem, PcStates, tableVars
  <2>5. UNCHANGED <<manager, tableVars, itemVars>>
    BY <1>7, <2>1 DEF GetItem, Goes
  <2>6. QED
    BY <1>0, <2>4, <2>5, TableSame, ItemsSame DEF TypeOK
<1>8. ASSUME NEW t \in Threads, FindOrInsert(t)
      PROVE  TypeOK'
  <2> DEFINE schema == SchemaArray(svlist[itemOf[t]])
             key == keyOf[t]
             id == Cardinality(DOMAIN cache) + 1
             Writes(n) == strm' = [strm EXCEPT ![t] = Stream(n, schema)]
  <2>1. itemOf[t] \in Items /\ manager = "IdMgr"
    BY <1>0, <1>8 DEF FindOrInsert
  <2>2. schema \in Seq(Fields)
    BY <2>1, SvlistSchema
  <2>3. /\ UNCHANGED <<lastId, itemVars, itemOf, keyOf, newId>>
        /\ \/ /\ key \notin DOMAIN cache /\ cache' = WithEntry(key, id, schema)
              /\ Writes(id) /\ Goes(t, "insert", "values")
           \/ /\ key \in DOMAIN cache /\ cache' = cache
              /\ Writes(cache[key].id) /\ Goes(t, "insert", "values")
           \/ /\ UNCHANGED <<cache, strm>> /\ Goes(t, "insert", "threw")
    BY <1>8 DEF FindOrInsert
  <2>4. PICK to \in {"values", "threw"} : Goes(t, "insert", to)
    BY <2>3
  <2>5. id \in Nat \ {0}
    BY <1>0, FS_CardinalityType DEF TableOK
  <2>6. strm' \in [Threads -> Texts]
    <3>1. ASSUME NEW n \in Nat, Writes(n) PROVE strm' \in [Threads -> Texts]
      BY <1>0, <2>2, <3>1, StreamIsText
    <3>2. key \in DOMAIN cache => cache[key].id \in Nat
      BY <1>0 DEF TableOK
    <3>3. QED
      BY <1>0, <2>3, <2>5, <3>1, <3>2
  <2>7. TableOK'
    <3>1. CASE cache' = cache
      BY <1>0, <2>3, <3>1, TableSame DEF tableVars, Goes
    <3>2. CASE key \notin DOMAIN cache /\ cache' = WithEntry(key, id, schema)
      <4>1. DOMAIN cache' = DOMAIN cache \cup {key}
        BY <3>2, EntryFacts
      <4>2. id <= Cardinality(DOMAIN cache')
        BY <1>0, <2>5, <3>2, <4>1, OneMore DEF TableOK
      <4>3. manager' = manager /\ lastId' = lastId
        BY <2>3, <2>4 DEF Goes
      <4>4. QED
        BY <1>0, <2>1, <2>2, <2>5, <3>2, <4>2, <4>3, TableEntry
    <3>3. QED
      BY <2>3, <3>1, <3>2
  <2>8. ThreadsOK'
    BY <1>0, <2>3, <2>4, <2>6, ThreadsGo DEF PcStates, ThreadsOK
  <2>9. QED
    BY <1>0, <2>3, <2>4, <2>7, <2>8, ItemsSame DEF TypeOK, Goes
<1>9. ASSUME NEW t \in Threads, ComposeDataValue(t)
      PROVE  TypeOK'
  <2>1. itemOf[t] \in Items
    BY <1>0, <1>9 DEF ComposeDataValue, Goes
  <2>2. svlist[itemOf[t]] \in Seq(Fields)
    BY <1>0, <2>1, EmptyIsFields, FieldsAssumption
       DEF ItemsOK, FieldsAssumption
  <2>3. strm' \in [Threads -> Texts]
    BY <1>0, <1>9, <2>2 DEF ComposeDataValue, Texts
  <2>4. ThreadsOK'
    BY <1>0, <1>9, <2>3, ThreadsGo
       DEF ComposeDataValue, PcStates, ThreadsOK, tableVars
  <2>5. UNCHANGED <<manager, tableVars, itemVars>>
    BY <1>9 DEF ComposeDataValue, Goes
  <2>6. QED
    BY <1>0, <2>4, <2>5, TableSame, ItemsSame DEF TypeOK
<1>10. ASSUME NEW t \in Threads,
              \/ SwapSvlist(t) \/ StoreSchemaAndData(t)
              \/ AssignLength(t) \/ AppendBody(t)
      PROVE  TypeOK'
  <2>1. PICK from \in {"swap", "storeItem", "head", "body"},
             to \in {"storeItem", "head", "body", "return"} : Goes(t, from, to)
    BY <1>10 DEF SwapSvlist, StoreSchemaAndData, AssignLength, AppendBody
  <2>2. UNCHANGED <<tableVars, localVars, manager>>
    BY <1>10 DEF SwapSvlist, StoreSchemaAndData, AssignLength, AppendBody, Goes
  <2>3. ThreadsOK'
    BY <1>0, <2>1, <2>2, ThreadsGo DEF PcStates, ThreadsOK, localVars, tableVars
  <2>4. itemOf[t] \in Items
    BY <1>0, <2>1 DEF Goes
  <2>5. /\ Length(schemaAndData[itemOf[t]]) \in Parts
        /\ Text(schemaAndData[itemOf[t]]) \in Parts
    BY <1>0, <2>4 DEF ItemsOK, Length, Text, Parts
  <2>6. ItemsOK'
    <3>1. CASE SwapSvlist(t)
      BY <1>0, <3>1 DEF SwapSvlist, ItemsOK
    <3>2. CASE StoreSchemaAndData(t)
      BY <1>0, <3>2 DEF StoreSchemaAndData, ItemsOK
    <3>3. CASE AssignLength(t)
      BY <1>0, <2>4, <2>5, <3>3 DEF AssignLength, ItemsOK
    <3>4. CASE AppendBody(t)
      BY <1>0, <2>4, <2>5, <3>4 DEF AppendBody, ItemsOK
    <3>5. QED
      BY <1>10, <3>1, <3>2, <3>3, <3>4
  <2>7. QED
    BY <1>0, <2>2, <2>3, <2>6, TableSame DEF TypeOK
<1>11. ASSUME NEW t \in Threads, Return(t) \/ RaiseMalformed(t)
      PROVE  TypeOK'
  <2>1. PICK from \in {"return", "threw", "values"} : Leaves(t, from)
    BY <1>11 DEF Return, RaiseMalformed
  <2>2. UNCHANGED <<manager, tableVars, itemVars>>
    BY <1>11, <2>1 DEF Return, RaiseMalformed, Leaves, Goes
  <2>3. ThreadsOK'
    BY <1>0, <2>1, <2>2, ThreadsLeave DEF PcStates, tableVars
  <2>4. QED
    BY <1>0, <2>2, <2>3, TableSame, ItemsSame DEF TypeOK
<1>12. CASE UNCHANGED vars
  <2>1. UNCHANGED <<manager, tableVars, itemVars>> /\ ThreadsOK'
    BY <1>0, <1>12 DEF vars, localVars, tableVars, ThreadsOK
  <2>2. QED
    BY <1>0, <2>1, TableSame, ItemsSame DEF TypeOK
<1>13. QED
  BY <1>1, <1>2, <1>3, <1>4, <1>5, <1>6, <1>7, <1>8, <1>9, <1>10, <1>11,
     <1>12 DEF Next, ThreadStep

(* For any threads and items the table's entries have ids that were given,  *)
(* IdMgr's without a gap and SchemaManager's up to its counter (IdMgr.cc:45,*)
(* out_mdsd.rb:208-213), and svlist is whole or freed.                      *)
THEOREM TypeCorrect == Spec => []TypeOK
  BY TypeInit, TypeStep, PTL DEF Spec

------------------------------------------------------------------------------
(* Ids. *)

Pair(text) == [id |-> text.id, schema |-> text.schema]

\* the ids in use, with their schemas: in the table, in streams, in items
InUse ==
    {Pair(Nothing)} \cup {cache[key] : key \in DOMAIN cache}
    \cup {Pair(strm[t]) : t \in Threads}
    \cup {Pair(schemaAndData[i]) : i \in Items}

\* the ids given out so far are not above this
Bound == IF manager = "IdMgr" THEN Cardinality(DOMAIN cache) ELSE lastId

\* the threads that have an id and no entry with it yet
Pending == {t \in Threads : pc[t] = "store"}

Ids ==
    /\ \A x, y \in InUse : x.id = y.id => x.schema = y.schema
    /\ \A x \in InUse : x.id \in Nat /\ x.id <= Bound
    /\ \A t \in Pending : \A x \in InUse : x.id # newId[t]
    /\ \A t, u \in Pending : newId[t] = newId[u] => t = u
    /\ Pending # {} => manager = "SchemaManager"

LEMMA BoundIsNat ==
  ASSUME TypeOK
  PROVE  Bound \in Nat
  BY FS_CardinalityType DEF Bound, TypeOK, TableOK

\* a step that gives no id and makes no entry
LEMMA NoNewId ==
  ASSUME Ids, UNCHANGED <<manager, cache, lastId>>,
         \A t \in Threads : Pair(strm'[t]) \in InUse,
         \A i \in Items : Pair(schemaAndData'[i]) \in InUse,
         \A t \in Pending' : t \in Pending /\ newId'[t] = newId[t]
  PROVE  Ids'
<1>1. InUse' \subseteq InUse
  BY DEF InUse
<1>2. Bound' = Bound
  BY DEF Bound
<1>3. QED
  BY <1>1, <1>2 DEF Ids

\* a step that makes an entry with an id nobody uses
LEMMA NewEntry ==
  ASSUME TypeOK, Ids, NEW t \in Threads, NEW key, NEW id \in Nat \ {0},
         NEW schema,
         cache' = WithEntry(key, id, schema),
         strm' = [strm EXCEPT ![t] = Stream(id, schema)],
         UNCHANGED <<manager, newId, schemaAndData>>,
         Bound' \in Nat, Bound <= Bound', id <= Bound',
         \A x \in InUse : x.id # id,
         \A u \in Pending' : u \in Pending /\ newId[u] # id
  PROVE  Ids'
<1> DEFINE new == [id |-> id, schema |-> schema]
<1>1. \A k \in DOMAIN cache' : cache'[k] \in InUse \cup {new}
  <2>1. /\ DOMAIN cache' = DOMAIN cache \cup {key}
        /\ cache'[key] = new
        /\ \A k \in DOMAIN cache : k # key => cache'[k] = cache[k]
    BY EntryFacts
  <2>2. QED
    BY <2>1 DEF InUse
<1>2. \A u \in Threads : Pair(strm'[u]) \in InUse \cup {new}
  BY DEF InUse, Stream, Pair, TypeOK, ThreadsOK
<1>3. \A i \in Items : Pair(schemaAndData'[i]) \in InUse
  BY DEF InUse
<1>4. InUse' \subseteq InUse \cup {new}
  BY <1>1, <1>2, <1>3 DEF InUse
<1>5. \A x \in InUse' : x \in InUse \/ (x = new /\ x.id = id)
  BY <1>4
<1>6. \A x, y \in InUse' : x.id = y.id => x.schema = y.schema
  BY <1>5 DEF Ids
<1>7. \A x \in InUse' : x.id \in Nat /\ x.id <= Bound'
  BY <1>5, BoundIsNat DEF Ids
<1>8. \A u \in Pending' : \A x \in InUse' : x.id # newId'[u]
  BY <1>5 DEF Ids
<1>9. /\ \A u, w \in Pending' : newId'[u] = newId'[w] => u = w
      /\ Pending' # {} => manager' = "SchemaManager"
  BY DEF Ids
<1>10. QED
  BY <1>6, <1>7, <1>8, <1>9 DEF Ids

\* threads that neither get an id nor store one
LEMMA SamePending ==
  ASSUME TypeOK, NEW t \in Threads, NEW from, NEW to, to # "store",
         Goes(t, from, to)
  PROVE  \A u \in Pending' : u \in Pending /\ u # t
  BY DEF Pending, Goes, TypeOK, ThreadsOK

LEMMA IdsInit == Init => Ids
<1> SUFFICES ASSUME Init PROVE Ids
  OBVIOUS
<1>1. InUse = {Pair(Nothing)}
  BY DEF Init, InUse
<1>2. Pending = {} /\ Bound = 0
  BY FS_EmptySet DEF Init, Pending, Bound
<1>3. QED
  BY <1>1, <1>2 DEF Ids, Pair, Nothing

\* what a thread finds in the table, has in its stream or in its item
LEMMA InUseFacts ==
  ASSUME TypeOK
  PROVE  /\ \A key \in DOMAIN cache :
              Pair(Stream(cache[key].id, cache[key].schema)) \in InUse
         /\ \A t \in Threads : Pair(strm[t]) \in InUse
         /\ \A i \in Items : Pair(schemaAndData[i]) \in InUse
         /\ Pair(Nothing) \in InUse
<1>1. ASSUME NEW key \in DOMAIN cache
      PROVE  Pair(Stream(cache[key].id, cache[key].schema)) \in InUse
  <2>1. cache[key] \in [id : Nat \ {0}, schema : Seq(Fields)]
    BY DEF TypeOK, TableOK
  <2>2. Pair(Stream(cache[key].id, cache[key].schema)) = cache[key]
    BY <2>1 DEF Pair, Stream
  <2>3. QED
    BY <2>2 DEF InUse
<1>2. QED
  BY <1>1 DEF InUse

LEMMA IdsStep == TypeOK /\ Ids /\ [Next]_vars => Ids'
<1> SUFFICES ASSUME TypeOK, Ids, [Next]_vars PROVE Ids'
  OBVIOUS
<1>0. /\ TableOK /\ ItemsOK /\ ThreadsOK /\ manager \in Managers
      /\ strm \in [Threads -> Texts] /\ schemaAndData \in [Items -> Texts]
      /\ pc \in [Threads -> PcStates]
      /\ \A t \in Threads : pc[t] # "idle" => itemOf[t] \in Items
  BY DEF TypeOK, ThreadsOK, ItemsOK
<1>1. ASSUME NEW t \in Threads, NEW i \in Items, GetSchemaInfo(t, i)
      PROVE  Ids'
  <2>1. PICK to \in {"values", "newId"} : Goes(t, "idle", to)
    BY <1>1 DEF GetSchemaInfo
  <2>2. \A u \in Threads : Pair(strm'[u]) \in InUse
    BY <1>0, <1>1, InUseFacts DEF GetSchemaInfo
  <2>3. UNCHANGED <<manager, cache, lastId, schemaAndData, newId>>
    BY <1>1, <2>1 DEF GetSchemaInfo, Goes, tableVars, itemVars
  <2>4. \A u \in Pending' : u \in Pending
    BY <2>1, SamePending
  <2>5. QED
    BY <2>2, <2>3, <2>4, InUseFacts, NoNewId
<1>2. ASSUME NEW t \in Threads, GetNewSchemaId(t)
      PROVE  Ids'
  <2>1. /\ manager = "SchemaManager" /\ lastId' = lastId + 1
        /\ newId' = [newId EXCEPT ![t] = lastId + 1]
        /\ pc' = [pc EXCEPT ![t] = "store"] /\ pc[t] = "newId"
        /\ UNCHANGED <<manager, cache, strm, schemaAndData>>
    BY <1>2 DEF GetNewSchemaId, Goes, itemVars
  <2>2. InUse' = InUse
    BY <2>1 DEF InUse
  <2>3. Bound = lastId /\ Bound' = lastId + 1 /\ lastId \in Nat
    BY <1>0, <2>1 DEF Bound, TableOK
  <2>4. Pending' = Pending \cup {t} /\ t \notin Pending
    BY <1>0, <2>1 DEF Pending
  <2>5. /\ newId'[t] = lastId + 1
        /\ \A u \in Pending : newId'[u] = newId[u] /\ newId[u] \in 1..lastId
    BY <1>0, <2>1, <2>4 DEF ThreadsOK, Pending
  <2>6. \A x \in InUse : x.id \in Nat /\ x.id <= lastId
    BY <2>3 DEF Ids
  <2>7. /\ \A u \in Pending' : \A x \in InUse' : x.id # newId'[u]
        /\ \A u, w \in Pending' : newId'[u] = newId'[w] => u = w
    BY <2>2, <2>3, <2>4, <2>5, <2>6 DEF Ids
  <2>8. /\ \A x, y \in InUse' : x.id = y.id => x.schema = y.schema
        /\ \A x \in InUse' : x.id \in Nat /\ x.id <= Bound'
    BY <2>2, <2>3, <2>6 DEF Ids
  <2>9. QED
    BY <2>1, <2>7, <2>8 DEF Ids
<1>3. ASSUME NEW t \in Threads, StoreSchema(t)
      PROVE  Ids'
  <2> DEFINE schema == SchemaArray(FieldsOf[itemOf[t]])
             id == newId[t]
  <2>1. /\ manager = "SchemaManager" /\ Goes(t, "store", "values")
        /\ cache' = WithEntry(keyOf[t], id, schema)
        /\ strm' = [strm EXCEPT ![t] = Stream(id, schema)]
        /\ UNCHANGED <<manager, lastId, newId, schemaAndData>>
    BY <1>3 DEF StoreSchema, Goes, itemVars
  <2>2. t \in Pending /\ id \in 1..lastId
    BY <1>0, <2>1 DEF Goes, Pending, ThreadsOK
  <2>3. /\ Bound = lastId /\ Bound' = lastId /\ lastId \in Nat
        /\ id \in Nat \ {0} /\ id <= Bound'
    BY <1>0, <2>1, <2>2 DEF Bound, TableOK
  <2>4. \A x \in InUse : x.id # id
    BY <2>2 DEF Ids
  <2>5. \A u \in Pending' : u \in Pending /\ newId[u] # id
    BY <2>1, <2>2, SamePending DEF Ids
  <2>6. Bound' \in Nat /\ Bound <= Bound'
    BY <2>3
  <2> HIDE DEF schema, id
  <2>7. QED
    BY <2>1, <2>3, <2>4, <2>5, <2>6, NewEntry
<1>4. ASSUME NEW t \in Threads, GetItem(t)
      PROVE  Ids'
  <2>1. PICK to \in {"threw", "values", "insert"} : Goes(t, "schema", to)
    BY <1>4 DEF GetItem
  <2>2. \A u \in Threads : Pair(strm'[u]) \in InUse
    BY <1>0, <1>4, InUseFacts DEF GetItem
  <2>3. UNCHANGED <<manager, cache, lastId, schemaAndData, newId>>
    BY <1>4, <2>1 DEF GetItem, Goes, tableVars, itemVars
  <2>4. \A u \in Pending' : u \in Pending
    BY <2>1, SamePending
  <2>5. QED
    BY <2>2, <2>3, <2>4, InUseFacts, NoNewId
<1>5. ASSUME NEW t \in Threads, FindOrInsert(t)
      PROVE  Ids'
  <2> DEFINE schema == SchemaArray(svlist[itemOf[t]])
             key == keyOf[t]
             id == Cardinality(DOMAIN cache) + 1
  <2>1. /\ UNCHANGED <<lastId, schemaAndData, newId>> /\ manager = "IdMgr"
        /\ \/ /\ key \notin DOMAIN cache /\ cache' = WithEntry(key, id, schema)
              /\ strm' = [strm EXCEPT ![t] = Stream(id, schema)]
              /\ Goes(t, "insert", "values")
           \/ /\ key \in DOMAIN cache /\ cache' = cache
              /\ cache[key].schema = schema
              /\ strm' = [strm EXCEPT ![t] = Stream(cache[key].id, schema)]
              /\ Goes(t, "insert", "values")
           \/ /\ UNCHANGED <<cache, strm>> /\ Goes(t, "insert", "threw")
    BY <1>5 DEF FindOrInsert, itemVars
  <2>2. PICK to \in {"values", "threw"} : Goes(t, "insert", to)
    BY <2>1
  <2>3. /\ manager' = manager /\ Bound = Cardinality(DOMAIN cache)
        /\ Bound' = Cardinality(DOMAIN cache')
        /\ Pending = {} /\ Pending' = {}
    BY <2>1, <2>2, SamePending DEF Goes, Bound, Ids
  <2>4. CASE cache' = cache
    <3>1. \A u \in Threads : Pair(strm'[u]) \in InUse
      BY <1>0, <2>1, <2>4, InUseFacts, EntryFacts DEF WithEntry
    <3>2. QED
      BY <2>1, <2>3, <2>4, <3>1, InUseFacts, NoNewId
  <2>5. CASE /\ key \notin DOMAIN cache /\ cache' = WithEntry(key, id, schema)
             /\ strm' = [strm EXCEPT ![t] = Stream(id, schema)]
    <3>1. DOMAIN cache' = DOMAIN cache \cup {key}
      BY <2>5, EntryFacts
    <3>2. /\ Cardinality(DOMAIN cache) \in Nat
          /\ Cardinality(DOMAIN cache') = Cardinality(DOMAIN cache) + 1
      <4>1. IsFiniteSet(DOMAIN cache)
        BY <1>0 DEF TableOK
      <4>2. key \notin DOMAIN cache
        BY <2>5
      <4> HIDE DEF key
      <4>3. QED
        BY <3>1, <4>1, <4>2, OneMore
    <3>3. \A x \in InUse : x.id # id
      BY <2>3, <3>2 DEF Ids
    <3>4. /\ Bound' \in Nat /\ Bound <= Bound' /\ id <= Bound'
          /\ id \in Nat \ {0}
      BY <2>3, <3>2
    <3>5. UNCHANGED <<manager, newId, schemaAndData>>
      BY <2>1, <2>3
    <3> HIDE DEF schema, id, key
    <3>6. QED
      BY <2>3, <2>5, <3>3, <3>4, <3>5, NewEntry
  <2>6. QED
    BY <2>1, <2>4, <2>5
<1>6. ASSUME UNCHANGED <<manager, tableVars, newId>>,
             \A t \in Threads : Pair(strm'[t]) \in InUse,
             \A i \in Items : Pair(schemaAndData'[i]) \in InUse,
             NEW t \in Threads, NEW from, NEW to, to # "store", Goes(t, from, to)
      PROVE  Ids'
  BY <1>6, NoNewId, SamePending DEF tableVars
<1>7. ASSUME NEW t \in Threads, MakeItem(t) \/ Return(t) \/ RaiseMalformed(t)
      PROVE  Ids'
  <2>1. PICK from : Leaves(t, from)
    BY <1>7 DEF MakeItem, Return, RaiseMalformed
  <2>2. UNCHANGED <<manager, tableVars>>
    BY <1>7, <2>1 DEF MakeItem, Return, RaiseMalformed, Leaves, Goes
  <2>3. \A u \in Threads : Pair(strm'[u]) \in InUse
    BY <1>0, <2>1, InUseFacts DEF Leaves
  <2>4. \A i \in Items : Pair(schemaAndData'[i]) \in InUse
    <3>1. CASE MakeItem(t)
      <4>1. Pair([strm[t] EXCEPT !.values = FieldsOf[itemOf[t]]]) = Pair(strm[t])
        BY <1>0 DEF Pair, Texts
      <4>2. QED
        BY <1>0, <3>1, <4>1, InUseFacts DEF MakeItem
    <3>2. CASE Return(t) \/ RaiseMalformed(t)
      BY <3>2, InUseFacts DEF Return, RaiseMalformed, itemVars
    <3>3. QED
      BY <1>7, <3>1, <3>2
  <2>5. \A u \in Pending' : u \in Pending /\ newId'[u] = newId[u]
    <3>1. \A u \in Pending' : u \in Pending /\ u # t
      BY <2>1, SamePending DEF Leaves
    <3>2. QED
      BY <1>0, <2>1, <3>1 DEF Leaves, Pending, ThreadsOK
  <2>6. QED
    BY <2>2, <2>3, <2>4, <2>5, NoNewId DEF tableVars
<1>8. ASSUME NEW t \in Threads, ComposeDataValue(t)
      PROVE  Ids'
  <2>1. \A u \in Threads : Pair(strm'[u]) \in InUse
    <3>1. Pair([strm[t] EXCEPT !.values = svlist[itemOf[t]]]) = Pair(strm[t])
      BY <1>0 DEF Pair, Texts
    <3>2. QED
      BY <1>0, <1>8, <3>1, InUseFacts DEF ComposeDataValue
  <2>2. /\ UNCHANGED <<manager, tableVars, newId, schemaAndData>>
        /\ Goes(t, "values", "swap")
    BY <1>8 DEF ComposeDataValue, Goes, itemVars
  <2>3. QED
    BY <1>6, <2>1, <2>2, InUseFacts
<1>9. ASSUME NEW t \in Threads, StoreSchemaAndData(t)
      PROVE  Ids'
  <2>1. \A i \in Items : Pair(schemaAndData'[i]) \in InUse
    BY <1>0, <1>9, InUseFacts DEF StoreSchemaAndData
  <2>2. /\ UNCHANGED <<manager, tableVars, newId, strm>>
        /\ Goes(t, "storeItem", "head")
    BY <1>9 DEF StoreSchemaAndData, Goes, localVars
  <2>3. QED
    BY <1>6, <2>1, <2>2, InUseFacts
<1>10. ASSUME NEW t \in Threads, NEW i \in Items,
              \/ GetData(t, i) \/ TestSchemaAndData(t) \/ SwapSvlist(t)
              \/ AssignLength(t) \/ AppendBody(t)
       PROVE  Ids'
  <2>1. PICK from, to \in PcStates \ {"store"} : Goes(t, from, to)
    BY <1>10
       DEF GetData, TestSchemaAndData, SwapSvlist, AssignLength, AppendBody,
           PcStates
  <2>2. UNCHANGED <<manager, tableVars, newId, strm, schemaAndData>>
    BY <1>10
       DEF GetData, TestSchemaAndData, SwapSvlist, AssignLength, AppendBody,
           Goes, itemVars, localVars
  <2>3. QED
    BY <1>6, <2>1, <2>2, InUseFacts
<1>11. CASE UNCHANGED vars
  BY <1>11, NoNewId, InUseFacts
     DEF vars, tableVars, itemVars, localVars, Pending
<1>12. ASSUME NEW t \in Threads, ThreadStep(t)
       PROVE  Ids'
  <2>1. CASE \E i \in Items : GetSchemaInfo(t, i) \/ GetData(t, i)
    BY <1>1, <1>10, <2>1
  <2>2. ASSUME SwapSvlist(t) \/ AssignLength(t) \/ AppendBody(t)
               \/ TestSchemaAndData(t)
        PROVE  itemOf[t] \in Items
    BY <1>0, <2>2
       DEF SwapSvlist, AssignLength, AppendBody, TestSchemaAndData, Goes
  <2>3. QED
    BY <1>2, <1>3, <1>4, <1>5, <1>7, <1>8, <1>9, <1>10, <1>12, <2>1, <2>2
       DEF ThreadStep
<1>13. QED
  BY <1>11, <1>12 DEF Next

(* For any threads, items and fields: what is sent under one id has one     *)
(* schema (IdMgr.cc:42-56, out_mdsd.rb:155-168).                            *)
THEOREM OneSchemaPerIdHolds == Spec => []OneSchemaPerId
<1>1. TypeOK /\ Ids => OneSchemaPerId
  <2> SUFFICES ASSUME TypeOK, Ids, NEW i \in Items, NEW j \in Items,
                      schemaAndData[i].id = schemaAndData[j].id
               PROVE  schemaAndData[i].schema = schemaAndData[j].schema
    BY DEF OneSchemaPerId
  <2>1. Pair(schemaAndData[i]) \in InUse /\ Pair(schemaAndData[j]) \in InUse
    BY InUseFacts
  <2>2. QED
    BY <2>1 DEF Ids, Pair
<1>2. Init => TypeOK /\ Ids
  BY TypeInit, IdsInit
<1>3. TypeOK /\ Ids /\ [Next]_vars => (TypeOK /\ Ids)'
  BY TypeStep, IdsStep
<1>4. QED
  BY <1>1, <1>2, <1>3, PTL DEF Spec

------------------------------------------------------------------------------
(* Keys. *)

\* a schema of the item, or of one with the same key
SchemaOf(schema, i) ==
    \E j \in Items : Spelling(j) = Spelling(i) /\ schema = SchemaArray(FieldsOf[j])

\* IdMgr has the id under the item's key
IdOf(id, i) ==
    manager = "IdMgr" =>
        Spelling(i) \in DOMAIN cache /\ cache[Spelling(i)].id = id

Right(id, schema, i) == SchemaOf(schema, i) /\ IdOf(id, i)

EntryKeys ==
    \A key \in DOMAIN cache :
        \E j \in Items : /\ Spelling(j) = key
                         /\ cache[key].schema = SchemaArray(FieldsOf[j])

ThreadKeys(t) ==
    /\ pc[t] \in {"insert", "newId", "store"} => keyOf[t] = Spelling(itemOf[t])
    /\ pc[t] \in {"values", "swap", "storeItem"} =>
         Right(strm[t].id, strm[t].schema, itemOf[t])

\* an item whose fields are gone has left its key in IdMgr's table
ItemKeys(i) ==
    /\ Composed(i) => Right(schemaAndData[i].id, schemaAndData[i].schema, i)
    /\ manager = "IdMgr" /\ svlist[i] # FieldsOf[i] =>
         Spelling(i) \in DOMAIN cache
    /\ manager = "SchemaManager" => svlist[i] = <<>>

Keys ==
    /\ EntryKeys
    /\ \A t \in Threads : ThreadKeys(t)
    /\ \A i \in Items : ItemKeys(i)

\* IdMgr's entries stay, and so does what was right
Grows ==
    /\ manager' = manager
    /\ manager = "IdMgr" =>
         \A key \in DOMAIN cache : key \in DOMAIN cache' /\ cache'[key] = cache[key]

LEMMA SpellingStays ==
  ASSUME manager' = manager
  PROVE  /\ \A i : Spelling(i)' = Spelling(i)
         /\ \A fields : SchemaArray(fields)' = SchemaArray(fields)
  BY DEF Spelling, SchemaArray, GetNewSchema

LEMMA RightStays ==
  ASSUME Grows, NEW id, NEW schema, NEW i, Right(id, schema, i)
  PROVE  Right(id, schema, i)'
<1>1. SchemaOf(schema, i)'
  BY SpellingStays DEF Grows, Right, SchemaOf
<1>2. IdOf(id, i)'
  BY SpellingStays DEF Grows, Right, IdOf
<1>3. QED
  BY <1>1, <1>2 DEF Right

\* what stays when the threads and items that change keep to the keys
LEMMA KeysFrame ==
  ASSUME Keys, Grows, EntryKeys', NEW t \in Threads, ThreadKeys(t)',
         \A u \in Threads \ {t} : /\ pc'[u] = pc[u] /\ itemOf'[u] = itemOf[u]
                                  /\ keyOf'[u] = keyOf[u] /\ strm'[u] = strm[u],
         \A i \in Items :
             \/ ItemKeys(i)'
             \/ svlist'[i] = svlist[i] /\ schemaAndData'[i] = schemaAndData[i]
  PROVE  Keys'
<1>1. ASSUME NEW u \in Threads, u # t PROVE ThreadKeys(u)'
  <2>1. PICK j : j = itemOf[u]
    OBVIOUS
  <2>2. PICK id : id = strm[u].id
    OBVIOUS
  <2>3. PICK schema : schema = strm[u].schema
    OBVIOUS
  <2>4. /\ pc'[u] = pc[u] /\ itemOf'[u] = j
        /\ keyOf'[u] = keyOf[u] /\ strm'[u].id = id /\ strm'[u].schema = schema
    BY <1>1, <2>1, <2>2, <2>3
  <2>5. pc[u] \in {"values", "swap", "storeItem"} => Right(id, schema, j)'
    BY <1>1, <2>1, <2>2, <2>3, RightStays DEF Keys, ThreadKeys
  <2>6. pc[u] \in {"insert", "newId", "store"} => keyOf[u] = Spelling(j)'
    BY <1>1, <2>1, SpellingStays DEF Keys, ThreadKeys, Grows
  <2>7. QED
    BY <2>4, <2>5, <2>6 DEF ThreadKeys
<1>2. ASSUME NEW i \in Items,
             svlist'[i] = svlist[i], schemaAndData'[i] = schemaAndData[i]
      PROVE  ItemKeys(i)'
  <2>1. PICK text : text = schemaAndData[i]
    OBVIOUS
  <2>2. schemaAndData'[i] = text
    BY <1>2, <2>1
  <2>3. Composed(i) => Right(text.id, text.schema, i)'
    BY <2>1, RightStays DEF Keys, ItemKeys
  <2>4. Spelling(i) \in DOMAIN cache => Spelling(i)' \in DOMAIN cache' \/ manager # "IdMgr"
    BY SpellingStays DEF Grows
  <2>5. Composed(i)' <=> Composed(i)
    BY <1>2 DEF Composed
  <2>6. Composed(i)' =>
          Right(schemaAndData[i].id, schemaAndData[i].schema, i)'
    BY <2>2, <2>3, <2>5
  <2>7. /\ manager' = "IdMgr" /\ svlist'[i] # FieldsOf[i] =>
             Spelling(i)' \in DOMAIN cache'
        /\ manager' = "SchemaManager" => svlist'[i] = <<>>
    BY <1>2, <2>4 DEF Keys, ItemKeys, Grows
  <2>8. QED
    BY <2>6, <2>7 DEF ItemKeys
<1>3. QED
  BY <1>1, <1>2 DEF Keys

\* a step that leaves the table as it is
LEMMA TableStays ==
  ASSUME Keys, manager' = manager, cache' = cache
  PROVE  Grows /\ EntryKeys'
<1>1. Grows
  BY DEF Grows
<1>2. EntryKeys'
  BY SpellingStays DEF Keys, EntryKeys
<1>3. QED
  BY <1>1, <1>2

\* a schema of an item's own, and one found under its key
LEMMA OwnIsSchemaOf ==
  ASSUME NEW i \in Items
  PROVE  SchemaOf(SchemaArray(FieldsOf[i]), i)
  BY DEF SchemaOf

LEMMA FoundIsRight ==
  ASSUME Keys, NEW i \in Items, Spelling(i) \in DOMAIN cache
  PROVE  Right(cache[Spelling(i)].id, cache[Spelling(i)].schema, i)
  BY DEF Keys, EntryKeys, Right, SchemaOf, IdOf

LEMMA KeysInit == Init => Keys
<1> SUFFICES ASSUME Init PROVE Keys
  OBVIOUS
<1>1. EntryKeys
  BY DEF Init, EntryKeys
<1>2. ASSUME NEW t \in Threads PROVE ThreadKeys(t)
  BY DEF Init, ThreadKeys
<1>3. ASSUME NEW i \in Items PROVE ItemKeys(i)
  BY DEF Init, ItemKeys, Composed
<1>4. QED
  BY <1>1, <1>2, <1>3 DEF Keys

\* a thread with a right id and schema in its stream
LEMMA RightThread ==
  ASSUME NEW t, NEW i, NEW id, NEW schema, Right(id, schema, i)',
         itemOf'[t] = i, strm'[t].id = id, strm'[t].schema = schema,
         pc'[t] \in {"values", "swap", "storeItem"}
  PROVE  ThreadKeys(t)'
  BY DEF ThreadKeys

LEMMA KeysStep == TypeOK /\ Keys /\ [Next]_vars => Keys'
<1> SUFFICES ASSUME TypeOK, Keys, [Next]_vars PROVE Keys'
  OBVIOUS
<1>0. /\ manager \in Managers /\ Managers \subseteq {"IdMgr", "SchemaManager"}
      /\ \A t \in Threads : pc[t] # "idle" => itemOf[t] \in Items
      /\ pc \in [Threads -> PcStates] /\ itemOf \in [Threads -> Items \cup {NoItem}]
      /\ DOMAIN keyOf = Threads /\ strm \in [Threads -> Texts]
      /\ DOMAIN svlist = Items /\ schemaAndData \in [Items -> Texts]
      /\ \A i \in Items : svlist[i] \in {FieldsOf[i], <<>>}
  BY ManagersAssumption DEF ManagersAssumption, TypeOK, ThreadsOK, ItemsOK
\* a step of one thread that leaves table and items as they are
<1>20. ASSUME NEW t \in Threads, NEW from, NEW to, Goes(t, from, to),
             cache' = cache, UNCHANGED itemVars, ThreadKeys(t)',
             \A u \in Threads \ {t} : /\ itemOf'[u] = itemOf[u]
                                      /\ keyOf'[u] = keyOf[u]
                                      /\ strm'[u] = strm[u]
      PROVE  Keys'
  <2>1. Grows /\ EntryKeys'
    BY <1>20, TableStays DEF Goes
  <2>2. \A u \in Threads \ {t} : pc'[u] = pc[u]
    BY <1>0, <1>20 DEF Goes
  <2>3. \A i \in Items : svlist'[i] = svlist[i] /\ schemaAndData'[i] = schemaAndData[i]
    BY <1>20 DEF itemVars
  <2>4. QED
    BY <1>20, <2>1, <2>2, <2>3, KeysFrame
<1>1. ASSUME NEW t \in Threads, NEW i \in Items, GetSchemaInfo(t, i)
      PROVE  Keys'
  <2>1. PICK to \in {"values", "newId"} : Goes(t, "idle", to)
    BY <1>1 DEF GetSchemaInfo
  <2>2. manager = "SchemaManager" /\ manager' = manager
    BY <1>1, <2>1 DEF GetSchemaInfo, Goes
  <2>3. itemOf'[t] = i /\ keyOf'[t] = Spelling(i)
    BY <1>0, <1>1, <2>2 DEF GetSchemaInfo, Spelling, GetSchemaKey
  <2>4. pc'[t] = to
    BY <1>0, <2>1 DEF Goes
  <2>7. /\ cache' = cache /\ UNCHANGED itemVars
        /\ \A u \in Threads \ {t} : /\ itemOf'[u] = itemOf[u]
                                    /\ keyOf'[u] = keyOf[u]
                                    /\ strm'[u] = strm[u]
    BY <1>0, <1>1 DEF GetSchemaInfo, tableVars
  <2>5. CASE to = "values"
    <3>1. pc'[t] = "values"
      BY <2>4, <2>5
    <3>2. /\ Spelling(i) \in DOMAIN cache
          /\ strm' = [strm EXCEPT ![t] =
               Stream(cache[Spelling(i)].id, cache[Spelling(i)].schema)]
      BY <1>0, <1>1, <2>2, <3>1
         DEF GetSchemaInfo, Spelling, GetSchemaKey, Goes
    <3>3. PICK entry : entry = cache[Spelling(i)]
      OBVIOUS
    <3>4. strm'[t].id = entry.id /\ strm'[t].schema = entry.schema
      BY <1>0, <3>2, <3>3 DEF Stream
    <3>5. Right(entry.id, entry.schema, i)
      BY <3>2, <3>3, FoundIsRight
    <3>6. Grows
      BY <1>1, <2>2, TableStays DEF GetSchemaInfo, tableVars
    <3>7. Right(entry.id, entry.schema, i)'
      BY <3>5, <3>6, RightStays
    <3>8. ThreadKeys(t)'
      BY <2>3, <3>1, <3>4, <3>7, RightThread
    <3>9. QED
      BY <1>20, <2>1, <2>7, <3>8
  <2>6. CASE to = "newId"
    <3>1. keyOf'[t] = Spelling(i)' /\ itemOf'[t] = i /\ pc'[t] = "newId"
      BY <2>2, <2>3, <2>4, <2>6, SpellingStays
    <3>2. ThreadKeys(t)'
      BY <3>1 DEF ThreadKeys
    <3>3. QED
      BY <1>20, <2>1, <2>7, <3>2
  <2>8. QED
    BY <2>5, <2>6
<1>2. ASSUME NEW t \in Threads, GetNewSchemaId(t)
      PROVE  Keys'
  <2>1. /\ Goes(t, "newId", "store") /\ pc[t] = "newId" /\ pc'[t] = "store"
        /\ UNCHANGED <<manager, cache, itemVars, itemOf, keyOf, strm>>
    BY <1>0, <1>2 DEF GetNewSchemaId, Goes
  <2>2. PICK i : i = itemOf[t]
    OBVIOUS
  <2>3. keyOf[t] = Spelling(i)
    BY <2>1, <2>2 DEF Keys, ThreadKeys
  <2>4. Spelling(i)' = Spelling(i) /\ itemOf'[t] = i
    BY <2>1, <2>2, SpellingStays
  <2>5. ThreadKeys(t)'
    BY <2>1, <2>3, <2>4 DEF ThreadKeys
  <2>6. QED
    BY <1>20, <2>1, <2>5
<1>3. ASSUME NEW t \in Threads, StoreSchema(t)
      PROVE  Keys'
  <2>1. PICK i \in Items : i = itemOf[t]
    BY <1>0, <1>3 DEF StoreSchema, Goes
  <2> DEFINE id == newId[t]
             schema == SchemaArray(FieldsOf[i])
  <2>2. /\ manager = "SchemaManager" /\ manager' = manager
        /\ pc[t] = "store" /\ pc' = [pc EXCEPT ![t] = "values"]
        /\ cache' = WithEntry(keyOf[t], id, schema)
        /\ strm' = [strm EXCEPT ![t] = Stream(id, schema)]
        /\ UNCHANGED <<itemVars, itemOf, keyOf>>
    BY <1>3, <2>1 DEF StoreSchema, Goes
  <2>3. keyOf[t] = Spelling(i)
    BY <2>1, <2>2 DEF Keys, ThreadKeys
  <2>4. /\ DOMAIN cache' = DOMAIN cache \cup {Spelling(i)}
        /\ cache'[Spelling(i)] = [id |-> id, schema |-> schema]
        /\ \A k \in DOMAIN cache : k # Spelling(i) => cache'[k] = cache[k]
    BY <2>2, <2>3, EntryFacts
  <2>5. EntryKeys'
    BY <2>2, <2>4, SpellingStays DEF Keys, EntryKeys
  <2>6. Grows
    BY <2>2 DEF Grows
  <2>7. ThreadKeys(t)'
    <3>1. PICK n : n = id
      OBVIOUS
    <3>2. PICK array : array = schema
      OBVIOUS
    <3>3. SchemaOf(array, i)'
      BY <2>2, <3>2, SpellingStays DEF SchemaOf
    <3>4. IdOf(n, i)'
      BY <2>2 DEF IdOf
    <3>5. Right(n, array, i)'
      BY <3>3, <3>4 DEF Right
    <3>6. /\ strm'[t].id = n /\ strm'[t].schema = array
          /\ itemOf'[t] = i /\ pc'[t] = "values"
      BY <1>0, <2>1, <2>2, <3>1, <3>2 DEF Stream
    <3>7. QED
      BY <3>5, <3>6, RightThread
  <2>8. \A u \in Threads \ {t} : /\ pc'[u] = pc[u] /\ itemOf'[u] = itemOf[u]
                                 /\ keyOf'[u] = keyOf[u] /\ strm'[u] = strm[u]
    BY <1>0, <2>2
  <2>9. \A j \in Items : svlist'[j] = svlist[j] /\ schemaAndData'[j] = schemaAndData[j]
    BY <2>2 DEF itemVars
  <2>10. QED
    BY <2>5, <2>6, <2>7, <2>8, <2>9, KeysFrame
<1>4. ASSUME NEW t \in Threads, MakeItem(t)
      PROVE  Keys'
  <2>1. PICK i \in Items : i = itemOf[t]
    BY <1>0, <1>4 DEF MakeItem, Leaves, Goes
  <2>2. /\ manager' = manager /\ pc[t] = "values"
        /\ pc' = [pc EXCEPT ![t] = "idle"]
        /\ UNCHANGED <<cache, svlist>>
        /\ schemaAndData' = [schemaAndData EXCEPT
               ![i] = [strm[t] EXCEPT !.values = FieldsOf[i]]]
    BY <1>4, <2>1 DEF MakeItem, Leaves, Goes, tableVars
  <2>3. Grows /\ EntryKeys'
    BY <2>2, TableStays
  <2>4. ThreadKeys(t)'
    BY <1>0, <2>2 DEF ThreadKeys
  <2>5. \A u \in Threads \ {t} : /\ pc'[u] = pc[u] /\ itemOf'[u] = itemOf[u]
                                 /\ keyOf'[u] = keyOf[u] /\ strm'[u] = strm[u]
    BY <1>0, <1>4, <2>2 DEF MakeItem, Leaves
  <2>6. ItemKeys(i)'
    <3>1. PICK text : text = strm[t]
      OBVIOUS
    <3>2. Right(text.id, text.schema, i)'
      BY <2>1, <2>2, <2>3, <3>1, RightStays DEF Keys, ThreadKeys
    <3>3. schemaAndData'[i].id = text.id /\ schemaAndData'[i].schema = text.schema
      BY <1>0, <2>2, <3>1 DEF Texts
    <3>4. /\ manager' = "SchemaManager" /\ svlist' = svlist
          /\ svlist[i] = <<>>
      BY <1>4, <2>2 DEF MakeItem, Keys, ItemKeys
    <3>5. QED
      BY <3>2, <3>3, <3>4 DEF ItemKeys
  <2>7. \A j \in Items \ {i} :
          svlist'[j] = svlist[j] /\ schemaAndData'[j] = schemaAndData[j]
    BY <1>0, <2>2
  <2>8. QED
    BY <2>3, <2>4, <2>5, <2>6, <2>7, KeysFrame
<1>5. ASSUME NEW t \in Threads, GetItem(t)
      PROVE  Keys'
  <2>1. PICK to \in {"threw", "values", "insert"} :
          Goes(t, "schema", to) /\ pc'[t] = to
    BY <1>0, <1>5 DEF GetItem, Goes
  <2>2. PICK i \in Items : i = itemOf[t]
    BY <1>0, <1>5 DEF GetItem
  <2>3. /\ manager' = manager /\ itemOf'[t] = i /\ cache' = cache
        /\ UNCHANGED itemVars
        /\ \A u \in Threads \ {t} : /\ itemOf'[u] = itemOf[u]
                                    /\ keyOf'[u] = keyOf[u]
                                    /\ strm'[u] = strm[u]
    BY <1>0, <1>5, <2>1, <2>2 DEF GetItem, Goes, tableVars
  <2>4. ASSUME to # "threw"
        PROVE  keyOf'[t] = Spelling(i)
    <3>1. GetSchemaCacheKey(svlist[i]) # <<>>
      BY <1>5, <2>1, <2>2, <2>4 DEF GetItem, Goes
    <3>2. svlist[i] # <<>>
      BY <3>1, NoFieldsNoKey DEF GetSchemaCacheKey
    <3>3. svlist[i] = FieldsOf[i] /\ manager = "IdMgr"
      BY <1>0, <3>2 DEF Keys, ItemKeys
    <3>4. keyOf'[t] = GetSchemaCacheKey(svlist[i])
      BY <1>0, <1>5, <2>2 DEF GetItem
    <3>5. QED
      BY <3>3, <3>4 DEF GetSchemaCacheKey, Spelling
  <2>5. ThreadKeys(t)'
    <3>1. CASE to = "values"
      <4>1. /\ Spelling(i) \in DOMAIN cache
            /\ strm' = [strm EXCEPT ![t] =
                 Stream(cache[Spelling(i)].id, cache[Spelling(i)].schema)]
        BY <1>0, <1>5, <2>1, <2>2, <2>4, <3>1 DEF GetItem, Goes
      <4>2. PICK entry : entry = cache[Spelling(i)]
        OBVIOUS
      <4>3. strm'[t].id = entry.id /\ strm'[t].schema = entry.schema
        BY <1>0, <4>1, <4>2 DEF Stream
      <4>4. Right(entry.id, entry.schema, i)
        BY <4>1, <4>2, FoundIsRight
      <4>5. Right(entry.id, entry.schema, i)'
        BY <2>3, <4>4, TableStays, RightStays
      <4>6. QED
        BY <2>1, <2>3, <3>1, <4>3, <4>5, RightThread
    <3>2. CASE to = "insert"
      <4>1. keyOf'[t] = Spelling(i)' /\ itemOf'[t] = i /\ pc'[t] = "insert"
        BY <2>1, <2>3, <2>4, <3>2, SpellingStays
      <4>2. QED
        BY <4>1 DEF ThreadKeys
    <3>3. CASE to = "threw"
      BY <2>1, <3>3 DEF ThreadKeys
    <3>4. QED
      BY <2>1, <3>1, <3>2, <3>3
  <2>6. QED
    BY <1>20, <2>1, <2>3, <2>5
<1>6. ASSUME NEW t \in Threads, FindOrInsert(t)
      PROVE  Keys'
  <2>1. PICK i \in Items : i = itemOf[t]
    BY <1>0, <1>6 DEF FindOrInsert
  <2> DEFINE schema == SchemaArray(svlist[i])
             id == Cardinality(DOMAIN cache) + 1
  <2>2. /\ manager = "IdMgr" /\ manager' = manager /\ pc[t] = "insert"
        /\ UNCHANGED <<itemVars, itemOf, keyOf>> /\ itemOf'[t] = i
        /\ pc'[t] \in {"values", "threw"}
    BY <1>0, <1>6, <2>1 DEF FindOrInsert, Goes
  <2>3. keyOf[t] = Spelling(i)
    BY <2>1, <2>2 DEF Keys, ThreadKeys
  <2>4. \A u \in Threads \ {t} : /\ pc'[u] = pc[u] /\ itemOf'[u] = itemOf[u]
                                 /\ keyOf'[u] = keyOf[u] /\ strm'[u] = strm[u]
    BY <1>0, <1>6, <2>2 DEF FindOrInsert, Goes
  <2>5. \A j \in Items : svlist'[j] = svlist[j] /\ schemaAndData'[j] = schemaAndData[j]
    BY <2>2 DEF itemVars
  <2>6. CASE /\ Spelling(i) \notin DOMAIN cache
             /\ cache' = WithEntry(Spelling(i), id, schema)
             /\ strm' = [strm EXCEPT ![t] = Stream(id, schema)]
             /\ pc'[t] = "values"
    <3>1. svlist[i] = FieldsOf[i]
      BY <2>2, <2>6 DEF Keys, ItemKeys
    <3>2. PICK n : n = id
      OBVIOUS
    <3>3. PICK array : array = SchemaArray(FieldsOf[i])
      OBVIOUS
    <3>4. schema = array
      BY <3>1, <3>3
    <3> HIDE DEF id, schema
    <3>5. cache' = WithEntry(Spelling(i), n, array)
      BY <2>6, <3>2, <3>4
    <3>6. /\ DOMAIN cache' = DOMAIN cache \cup {Spelling(i)}
          /\ cache'[Spelling(i)] = [id |-> n, schema |-> array]
          /\ \A k \in DOMAIN cache : k # Spelling(i) => cache'[k] = cache[k]
      BY <3>5, EntryFacts
    <3>7. EntryKeys'
      BY <2>2, <3>6, <3>3, SpellingStays DEF Keys, EntryKeys
    <3>8. Grows
      BY <2>2, <2>6, <3>6 DEF Grows
    <3>9. Right(n, array, i)'
      <4>1. SchemaOf(array, i)'
        BY <2>2, <3>3, SpellingStays DEF SchemaOf
      <4>2. IdOf(n, i)'
        BY <2>2, <3>6, SpellingStays DEF IdOf
      <4>3. QED
        BY <4>1, <4>2 DEF Right
    <3>10. strm'[t].id = n /\ strm'[t].schema = array
      BY <1>0, <2>6, <3>2, <3>4 DEF Stream
    <3>11. ThreadKeys(t)'
      BY <2>2, <2>6, <3>9, <3>10, RightThread
    <3>12. QED
      BY <2>4, <2>5, <3>7, <3>8, <3>11, KeysFrame
  <2>7. CASE /\ Spelling(i) \in DOMAIN cache /\ cache' = cache
             /\ cache[Spelling(i)].schema = schema
             /\ strm' = [strm EXCEPT ![t] = Stream(cache[Spelling(i)].id, schema)]
             /\ pc'[t] = "values"
    <3>1. PICK entry : entry = cache[Spelling(i)]
      OBVIOUS
    <3>2. Right(entry.id, entry.schema, i)
      BY <2>7, <3>1, FoundIsRight
    <3>3. strm'[t].id = entry.id /\ strm'[t].schema = entry.schema
      BY <1>0, <2>7, <3>1 DEF Stream
    <3>4. Grows /\ EntryKeys'
      BY <2>2, <2>7, TableStays
    <3>5. Right(entry.id, entry.schema, i)'
      BY <3>2, <3>4, RightStays
    <3>6. ThreadKeys(t)'
      BY <2>2, <2>7, <3>3, <3>5, RightThread
    <3>7. QED
      BY <2>4, <2>5, <3>4, <3>6, KeysFrame
  <2>8. CASE cache' = cache /\ pc'[t] = "threw"
    <3>1. ThreadKeys(t)'
      BY <2>8 DEF ThreadKeys
    <3>2. Grows /\ EntryKeys'
      BY <2>2, <2>8, TableStays
    <3>3. QED
      BY <2>4, <2>5, <3>1, <3>2, KeysFrame
  <2>9. QED
    BY <1>0, <1>6, <2>1, <2>3, <2>6, <2>7, <2>8 DEF FindOrInsert, Goes
<1>7. ASSUME NEW t \in Threads, ComposeDataValue(t) \/ SwapSvlist(t)
      PROVE  Keys'
  <2>1. PICK i \in Items : i = itemOf[t]
    BY <1>0, <1>7 DEF ComposeDataValue, SwapSvlist, Goes
  <2>2. PICK text : text = strm[t]
    OBVIOUS
  <2>3. /\ cache' = cache /\ manager' = manager /\ itemOf' = itemOf
        /\ keyOf' = keyOf /\ schemaAndData' = schemaAndData
        /\ pc[t] \in {"values", "swap"} /\ pc'[t] \in {"swap", "storeItem"}
        /\ \A u \in Threads \ {t} : pc'[u] = pc[u] /\ strm'[u] = strm[u]
    BY <1>0, <1>7
       DEF ComposeDataValue, SwapSvlist, Goes, tableVars, itemVars, localVars
  <2>4. strm'[t].id = text.id /\ strm'[t].schema = text.schema
    BY <1>0, <1>7, <2>2 DEF ComposeDataValue, SwapSvlist, localVars, Texts
  <2>5. Grows /\ EntryKeys'
    BY <2>3, TableStays
  <2>6. Right(text.id, text.schema, i)
    BY <2>1, <2>2, <2>3 DEF Keys, ThreadKeys
  <2>7. Right(text.id, text.schema, i)'
    BY <2>5, <2>6, RightStays
  <2>8. ThreadKeys(t)'
    BY <2>1, <2>3, <2>4, <2>7, RightThread
  <2>9. ASSUME NEW j \in Items
        PROVE  \/ ItemKeys(j)'
               \/ svlist'[j] = svlist[j] /\ schemaAndData'[j] = schemaAndData[j]
    <3>1. CASE j # i \/ ComposeDataValue(t)
      BY <1>0, <1>7, <2>1, <2>3, <3>1 DEF ComposeDataValue, SwapSvlist, itemVars
    <3>2. CASE j = i /\ SwapSvlist(t)
      <4>1. svlist'[j] = <<>>
        BY <1>0, <2>1, <3>2 DEF SwapSvlist
      <4>2. Spelling(j)' \in DOMAIN cache' \/ manager' # "IdMgr"
        BY <2>3, <2>6, <3>2, SpellingStays DEF Right, IdOf
      <4>3. PICK old : old = schemaAndData[j]
        OBVIOUS
      <4>4. Composed(j) => Right(old.id, old.schema, j)'
        BY <2>5, <4>3, RightStays DEF Keys, ItemKeys
      <4>5. schemaAndData'[j] = old /\ (Composed(j)' <=> Composed(j))
        BY <2>3, <4>3 DEF Composed
      <4>6. QED
        BY <4>1, <4>2, <4>4, <4>5 DEF ItemKeys
    <3>3. QED
      BY <1>7, <3>1, <3>2
  <2>10. QED
    BY <2>3, <2>5, <2>8, <2>9, KeysFrame
<1>8. ASSUME NEW t \in Threads, StoreSchemaAndData(t)
      PROVE  Keys'
  <2>1. PICK i \in Items : i = itemOf[t]
    BY <1>0, <1>8 DEF StoreSchemaAndData, Goes
  <2>2. PICK text : text = strm[t]
    OBVIOUS
  <2>3. /\ cache' = cache /\ manager' = manager /\ pc[t] = "storeItem"
        /\ pc' = [pc EXCEPT ![t] = "head"] /\ svlist' = svlist
        /\ schemaAndData' = [schemaAndData EXCEPT ![i] = text]
        /\ UNCHANGED localVars
    BY <1>8, <2>1, <2>2 DEF StoreSchemaAndData, Goes, tableVars
  <2>4. Grows /\ EntryKeys'
    BY <2>3, TableStays
  <2>5. ThreadKeys(t)'
    BY <1>0, <2>3 DEF ThreadKeys
  <2>6. Right(text.id, text.schema, i)'
    BY <2>1, <2>2, <2>3, <2>4, RightStays DEF Keys, ThreadKeys
  <2>7. ItemKeys(i)'
    <3>1. schemaAndData'[i] = text
      BY <1>0, <2>3
    <3>2. manager = "IdMgr" => Spelling(i)' \in DOMAIN cache'
      BY <2>3, <2>6 DEF Right, IdOf
    <3>3. manager = "SchemaManager" => svlist'[i] = <<>>
      BY <2>3 DEF Keys, ItemKeys
    <3>4. QED
      BY <2>3, <2>6, <3>1, <3>2, <3>3 DEF ItemKeys
  <2>8. \A j \in Items \ {i} :
          svlist'[j] = svlist[j] /\ schemaAndData'[j] = schemaAndData[j]
    BY <1>0, <2>3
  <2>9. \A u \in Threads \ {t} : /\ pc'[u] = pc[u] /\ itemOf'[u] = itemOf[u]
                                 /\ keyOf'[u] = keyOf[u] /\ strm'[u] = strm[u]
    BY <1>0, <2>3 DEF localVars
  <2>10. QED
    BY <2>4, <2>5, <2>7, <2>8, <2>9, KeysFrame
<1>9. ASSUME NEW t \in Threads, NEW i \in Items,
             \/ GetData(t, i) \/ TestSchemaAndData(t) \/ AssignLength(t)
             \/ AppendBody(t) \/ Return(t) \/ RaiseMalformed(t)
      PROVE  Keys'
  <2>1. /\ cache' = cache /\ manager' = manager
        /\ UNCHANGED <<svlist, schemaAndData>>
        /\ pc'[t] \in {"idle", "return", "schemaAndData", "schema", "head", "body"}
        /\ \A u \in Threads \ {t} : /\ pc'[u] = pc[u] /\ itemOf'[u] = itemOf[u]
                                    /\ keyOf'[u] = keyOf[u] /\ strm'[u] = strm[u]
    BY <1>0, <1>9
       DEF GetData, TestSchemaAndData, AssignLength, AppendBody, Return,
           RaiseMalformed, Leaves, Goes, tableVars, itemVars, localVars
  <2>2. Grows /\ EntryKeys'
    BY <2>1, TableStays
  <2>3. ThreadKeys(t)'
    BY <2>1 DEF ThreadKeys
  <2>4. QED
    BY <2>1, <2>2, <2>3, KeysFrame
<1>10. ASSUME UNCHANGED vars
       PROVE  Keys'
  <2>1. Grows /\ EntryKeys'
    BY <1>10, TableStays DEF vars, tableVars
  <2>2. ASSUME NEW t \in Threads PROVE ThreadKeys(t)'
    BY <1>10, SpellingStays
       DEF vars, tableVars, localVars, Keys, ThreadKeys, Right, SchemaOf, IdOf
  <2>3. ASSUME NEW i \in Items PROVE ItemKeys(i)'
    BY <1>10, SpellingStays
       DEF vars, tableVars, itemVars, Keys, ItemKeys, Right, SchemaOf, IdOf, Composed
  <2>4. QED
    BY <2>1, <2>2, <2>3 DEF Keys
<1>11. ASSUME NEW t \in Threads, ThreadStep(t)
       PROVE  Keys'
  <2>1. CASE \E i \in Items : GetSchemaInfo(t, i) \/ GetData(t, i)
    BY <1>1, <1>9, <2>1
  <2>2. CASE \/ TestSchemaAndData(t) \/ AssignLength(t) \/ AppendBody(t)
             \/ Return(t) \/ RaiseMalformed(t)
    <3>1. itemOf[t] \in Items
      BY <1>0, <2>2
         DEF TestSchemaAndData, AssignLength, AppendBody, Return, RaiseMalformed,
             Leaves, Goes
    <3>2. QED
      BY <1>9, <2>2, <3>1
  <2>3. QED
    BY <1>2, <1>3, <1>4, <1>5, <1>6, <1>7, <1>8, <1>11, <2>1, <2>2
       DEF ThreadStep
<1>12. QED
  BY <1>10, <1>11 DEF Next

\* the invariant of the two theorems
LEMMA KeysHold == Spec => [](TypeOK /\ Keys)
<1>1. Init => TypeOK /\ Keys
  BY TypeInit, KeysInit
<1>2. TypeOK /\ Keys /\ [Next]_vars => (TypeOK /\ Keys)'
  BY TypeStep, KeysStep
<1>3. QED
  BY <1>1, <1>2, PTL DEF Spec

(* For any threads and items IdMgr gives the same fields the same id        *)
(* (IdMgr.h:102-106), also when the threads race for it.                    *)
THEOREM SameFieldsSameIdHolds == Spec => []SameFieldsSameId
<1>1. TypeOK /\ Keys => SameFieldsSameId
  <2> SUFFICES ASSUME Keys, NEW i \in Items, NEW j \in Items,
                      manager = "IdMgr", FieldsOf[i] = FieldsOf[j],
                      Composed(i), Composed(j)
               PROVE  schemaAndData[i].id = schemaAndData[j].id
    BY DEF SameFieldsSameId
  <2>1. Spelling(i) = Spelling(j)
    BY DEF Spelling
  <2>2. QED
    BY <2>1 DEF Keys, ItemKeys, Right, IdOf
<1>2. QED
  BY <1>1, KeysHold, PTL

(* For any threads and items what is sent has the schema of its own fields, *)
(* or of other ones that spell the same key (DjsonLogItem.cc:48-71).        *)
THEOREM OwnSchemaHolds == Spec => []OwnSchema
<1>1. TypeOK /\ Keys => OwnSchema
  BY DEF Keys, ItemKeys, Right, SchemaOf, OwnSchema, Collides
<1>2. QED
  BY <1>1, KeysHold, PTL

------------------------------------------------------------------------------
(* The life of an item, when one thread at a time has it. *)

\* neither composed nor sent
Fresh(i) ==
    /\ ~Composed(i) /\ djsonData[i] = <<>>
    /\ manager = "IdMgr" => svlist[i] = FieldsOf[i]

\* its values are composed, and so much of its message
Has(i, message) ==
    /\ Composed(i) /\ schemaAndData[i].values = FieldsOf[i]
    /\ djsonData[i] = message

Ready(i) == Has(i, <<>>)
Half(i) == Has(i, <<Length(schemaAndData[i])>>)
Whole(i) == Has(i, <<Length(schemaAndData[i]), Text(schemaAndData[i])>>)

\* the item when no thread has it
Rests(i) == Fresh(i) \/ Ready(i) \/ Whole(i)

\* the item when a thread has it
At(t, i) ==
    /\ pc[t] = "schemaAndData" => Ready(i) \/ (Fresh(i) /\ manager = "IdMgr")
    /\ pc[t] \in {"schema", "insert"} => Fresh(i) /\ manager = "IdMgr"
    /\ pc[t] \in {"newId", "store"} => Fresh(i) /\ manager = "SchemaManager"
    /\ pc[t] \in {"values", "swap"} => Fresh(i)
    /\ pc[t] = "storeItem" => ~Composed(i) /\ djsonData[i] = <<>>
    /\ pc[t] \in {"values", "swap", "storeItem"} => strm[t].id # 0
    /\ pc[t] \in {"swap", "storeItem"} =>
         strm[t].values = FieldsOf[i] /\ manager = "IdMgr"
    /\ pc[t] = "head" => Ready(i)
    /\ pc[t] = "body" => Half(i)
    /\ pc[t] = "return" => Whole(i)
    /\ pc[t] = "threw" => Fresh(i) /\ (Spelling(i) = <<>> \/ Collides(i))

Lives ==
    /\ \A t, u \in Threads : itemOf[t] = itemOf[u] /\ itemOf[t] # NoItem => t = u
    /\ \A t \in Threads : \A i \in Items : itemOf[t] = i => At(t, i)
    /\ \A i \in Items : Busy(i) \/ Rests(i)

\* an item, and a thread that has it, that a step leaves alone
LEMMA RestsStays ==
  ASSUME NEW i, manager' = manager, svlist'[i] = svlist[i],
         schemaAndData'[i] = schemaAndData[i], djsonData'[i] = djsonData[i]
  PROVE  /\ Fresh(i)' <=> Fresh(i)
         /\ Ready(i)' <=> Ready(i)
         /\ Half(i)' <=> Half(i)
         /\ Whole(i)' <=> Whole(i)
         /\ Rests(i)' <=> Rests(i)
         /\ Composed(i)' <=> Composed(i)
<1>1. Composed(i)' <=> Composed(i)
  BY DEF Composed, Nothing
<1>2. Fresh(i)' <=> Fresh(i)
  BY <1>1 DEF Fresh
<1>3. ASSUME NEW text, text = schemaAndData[i]
      PROVE  /\ Ready(i)' <=> Ready(i)
             /\ Half(i)' <=> Half(i)
             /\ Whole(i)' <=> Whole(i)
  BY <1>1, <1>3 DEF Ready, Half, Whole, Has, Length, Text
<1>4. QED
  BY <1>1, <1>2, <1>3 DEF Rests

LEMMA AtStays ==
  ASSUME NEW t, NEW i, manager' = manager, svlist'[i] = svlist[i],
         schemaAndData'[i] = schemaAndData[i], djsonData'[i] = djsonData[i],
         pc'[t] = pc[t], strm'[t] = strm[t], At(t, i)
  PROVE  At(t, i)'
<1>1. /\ Fresh(i)' <=> Fresh(i)
      /\ Ready(i)' <=> Ready(i)
      /\ Half(i)' <=> Half(i)
      /\ Whole(i)' <=> Whole(i)
      /\ Composed(i)' <=> Composed(i)
  BY RestsStays
<1>2. (Spelling(i) = <<>> \/ Collides(i))' <=> (Spelling(i) = <<>> \/ Collides(i))
  BY SpellingStays DEF Collides
<1>3. QED
  BY <1>1, <1>2 DEF At

\* one thread, with one item, that it has, takes or lets go
LEMMA LivesFrame ==
  ASSUME TypeOK, Lives, manager' = manager, NEW t \in Threads, NEW i \in Items,
         itemOf[t] \in {i, NoItem}, \A u \in Threads \ {t} : itemOf[u] # i,
         \/ itemOf'[t] = i /\ At(t, i)'
         \/ itemOf'[t] = NoItem /\ Rests(i)',
         \A u \in Threads \ {t} : /\ itemOf'[u] = itemOf[u] /\ pc'[u] = pc[u]
                                  /\ strm'[u] = strm[u],
         \A j \in Items \ {i} : /\ svlist'[j] = svlist[j]
                                /\ schemaAndData'[j] = schemaAndData[j]
                                /\ djsonData'[j] = djsonData[j]
  PROVE  Lives'
<1>0. /\ itemOf \in [Threads -> Items \cup {NoItem}] /\ NoItem \notin Items
      /\ itemOf'[t] \in {i, NoItem}
      /\ \A u \in Threads \ {t} : itemOf'[u] = itemOf[u] /\ itemOf[u] # i
  BY ItemsAssumption DEF TypeOK, ThreadsOK, ItemsAssumption, Lives, Busy
<1>1. \A u, w \in Threads :
        itemOf'[u] = itemOf'[w] /\ itemOf'[u] # NoItem => u = w
  BY <1>0 DEF Lives
<1>2. ASSUME NEW u \in Threads, NEW j \in Items, itemOf'[u] = j
      PROVE  At(u, j)'
  <2>1. CASE u = t
    BY <1>0, <1>2, <2>1
  <2>2. CASE u # t
    <3>1. j # i /\ At(u, j)
      BY <1>0, <1>2, <2>2 DEF Lives
    <3>2. QED
      BY <2>2, <3>1, AtStays
  <2>3. QED
    BY <2>1, <2>2
<1>3. ASSUME NEW j \in Items
      PROVE  Busy(j)' \/ Rests(j)'
  <2>1. CASE j = i
    BY <1>0, <2>1 DEF Busy
  <2>2. CASE j # i
    <3>1. Busy(j)' <=> Busy(j)
      BY <1>0, <2>2 DEF Busy
    <3>2. Rests(j)' <=> Rests(j)
      BY <2>2, RestsStays
    <3>3. QED
      BY <3>1, <3>2 DEF Lives
  <2>3. QED
    BY <2>1, <2>2
<1>4. QED
  BY <1>1, <1>2, <1>3 DEF Lives

\* the thread that has an item has it alone
LEMMA Alone ==
  ASSUME TypeOK, Lives, NEW t \in Threads, NEW i \in Items, itemOf[t] = i
  PROVE  itemOf[t] \in {i, NoItem} /\ \A u \in Threads \ {t} : itemOf[u] # i
  BY ItemsAssumption DEF ItemsAssumption, Lives

LEMMA LivesInit == Init => Lives
<1> SUFFICES ASSUME Init PROVE Lives
  OBVIOUS
<1>1. \A i \in Items : Fresh(i)
  BY DEF Init, Fresh, Composed
<1>2. QED
  BY <1>1, ItemsAssumption DEF Init, Lives, Rests, ItemsAssumption

LEMMA AppendToOne ==
  ASSUME NEW S, NEW x \in S, NEW y \in S
  PROVE  Append(<<x>>, y) = <<x, y>>
<1> DEFINE one == <<x>>
           two == <<x, y>>
<1>1. one \in Seq(S) /\ Len(one) = 1 /\ one[1] = x
  OBVIOUS
<1>2. two \in Seq(S) /\ Len(two) = 2 /\ two[1] = x /\ two[2] = y
  OBVIOUS
<1> HIDE DEF one, two
<1>3. /\ Append(one, y) \in Seq(S) /\ Len(Append(one, y)) = 2
      /\ Append(one, y)[1] = x /\ Append(one, y)[2] = y
  <2>1. ASSUME NEW s \in Seq(S), NEW e \in S
        PROVE  /\ Append(s, e) \in Seq(S)
               /\ Len(Append(s, e)) = Len(s) + 1
               /\ \A n \in 1..Len(s) : Append(s, e)[n] = s[n]
               /\ Append(s, e)[Len(s) + 1] = e
    OBVIOUS
  <2>2. one \in Seq(S) /\ y \in S
    BY <1>1
  <2>3. /\ Append(one, y) \in Seq(S)
        /\ Len(Append(one, y)) = Len(one) + 1
        /\ \A n \in 1..Len(one) : Append(one, y)[n] = one[n]
        /\ Append(one, y)[Len(one) + 1] = y
    BY <2>1, <2>2
  <2>4. Len(one) = 1 /\ 1 \in 1..Len(one) /\ one[1] = x
    BY <1>1
  <2>5. Append(one, y)[1] = x
    BY <2>3, <2>4
  <2>6. Append(one, y)[2] = y
    BY <2>3, <2>4
  <2>7. QED
    BY <2>3, <2>4, <2>5, <2>6
<1>4. Append(one, y) = two
  <2>1. \A n \in 1..2 : Append(one, y)[n] = two[n]
    BY <1>2, <1>3
  <2>2. QED
    BY <1>2, <1>3, <2>1, SeqEqual
<1>5. QED
  BY <1>4 DEF one, two

LEMMA LivesStep ==
  ASSUME ~ResendOverlaps, TypeOK, Keys, Lives, [Next]_vars
  PROVE  Lives'
<1>0. /\ manager \in Managers /\ Managers \subseteq {"IdMgr", "SchemaManager"}
      /\ \A t \in Threads : /\ pc[t] # "idle" => itemOf[t] \in Items
                            /\ pc[t] = "idle" => itemOf[t] = NoItem
      /\ pc \in [Threads -> PcStates] /\ itemOf \in [Threads -> Items \cup {NoItem}]
      /\ strm \in [Threads -> Texts] /\ DOMAIN svlist = Items
      /\ schemaAndData \in [Items -> Texts] /\ djsonData \in [Items -> Seq(Parts)]
  BY ManagersAssumption DEF ManagersAssumption, TypeOK, ThreadsOK, ItemsOK
<1>1. ASSUME NEW key \in DOMAIN cache
      PROVE  Stream(cache[key].id, cache[key].schema).id # 0
  BY DEF TypeOK, TableOK, Stream
\* a step that leaves the items as they are
<1>2. ASSUME NEW t \in Threads, NEW i \in Items, UNCHANGED <<manager, itemVars>>,
             itemOf[t] \in {i, NoItem}, \A u \in Threads \ {t} : itemOf[u] # i,
             itemOf'[t] = i, At(t, i)',
             NEW from, NEW to, Goes(t, from, to),
             \A u \in Threads \ {t} : itemOf'[u] = itemOf[u] /\ strm'[u] = strm[u]
      PROVE  Lives'
  <2>1. \A u \in Threads \ {t} : /\ itemOf'[u] = itemOf[u] /\ pc'[u] = pc[u]
                                 /\ strm'[u] = strm[u]
    BY <1>0, <1>2 DEF Goes
  <2>2. \A j \in Items \ {i} : /\ svlist'[j] = svlist[j]
                               /\ schemaAndData'[j] = schemaAndData[j]
                               /\ djsonData'[j] = djsonData[j]
    BY <1>2 DEF itemVars
  <2>3. QED
    BY <1>2, <2>1, <2>2, LivesFrame
<1>3. ASSUME NEW t \in Threads, NEW i \in Items, GetSchemaInfo(t, i)
      PROVE  Lives'
  <2>1. PICK to \in {"values", "newId"} : Goes(t, "idle", to)
    BY <1>3 DEF GetSchemaInfo
  <2>2. /\ manager = "SchemaManager" /\ manager' = manager /\ UNCHANGED itemVars
        /\ ~Busy(i) /\ itemOf[t] = NoItem /\ itemOf'[t] = i
        /\ ~Composed(i) /\ pc'[t] = to
    BY <1>0, <1>3, <2>1 DEF GetSchemaInfo, Goes, Composed
  <2>3. Fresh(i)
    BY <2>2 DEF Lives, Rests, Ready, Whole, Has
  <2>4. Fresh(i)'
    BY <2>2, <2>3, RestsStays DEF itemVars
  <2>5. to = "values" => strm'[t].id # 0
    <3>1. ASSUME to = "values"
          PROVE  \E key \in DOMAIN cache : strm' = [strm EXCEPT ![t] =
                     Stream(cache[key].id, cache[key].schema)]
      BY <1>0, <1>3, <2>2, <3>1 DEF GetSchemaInfo, Goes
    <3>2. QED
      BY <1>0, <1>1, <3>1
  <2>6. At(t, i)'
    BY <2>2, <2>4, <2>5 DEF At
  <2>7. \A u \in Threads \ {t} : itemOf'[u] = itemOf[u] /\ strm'[u] = strm[u]
    BY <1>0, <1>3 DEF GetSchemaInfo
  <2>8. itemOf[t] \in {i, NoItem} /\ \A u \in Threads \ {t} : itemOf[u] # i
    BY <2>2 DEF Busy
  <2>9. QED
    BY <1>2, <2>1, <2>2, <2>6, <2>7, <2>8
<1>4. ASSUME NEW t \in Threads, GetNewSchemaId(t) \/ StoreSchema(t)
      PROVE  Lives'
  <2>1. PICK i \in Items : itemOf[t] = i
    BY <1>0, <1>4 DEF GetNewSchemaId, StoreSchema, Goes
  <2>2. PICK from \in {"newId", "store"}, to \in {"store", "values"} :
          Goes(t, from, to)
    BY <1>4 DEF GetNewSchemaId, StoreSchema
  <2>3. /\ UNCHANGED <<manager, itemVars, itemOf>> /\ manager = "SchemaManager"
        /\ \A u \in Threads \ {t} : strm'[u] = strm[u]
        /\ pc'[t] = to /\ pc[t] = from
    BY <1>0, <1>4, <2>2 DEF GetNewSchemaId, StoreSchema, Goes
  <2>4. Fresh(i)'
    BY <2>1, <2>2, <2>3, RestsStays DEF itemVars, Lives, At
  <2>5. to = "values" => strm'[t].id # 0
    <3>1. CASE GetNewSchemaId(t)
      BY <2>3, <3>1 DEF GetNewSchemaId, Goes
    <3>2. CASE StoreSchema(t)
      <4>1. newId[t] \in 1..lastId /\ lastId \in Nat
        BY <3>2 DEF StoreSchema, Goes, TypeOK, ThreadsOK, TableOK
      <4>2. strm'[t].id = newId[t]
        BY <1>0, <3>2 DEF StoreSchema, Stream
      <4>3. QED
        BY <4>1, <4>2
    <3>3. QED
      BY <1>4, <3>1, <3>2
  <2>6. At(t, i)'
    BY <2>2, <2>3, <2>4, <2>5 DEF At
  <2>7. itemOf'[t] = i /\ \A u \in Threads \ {t} : itemOf'[u] = itemOf[u]
    BY <2>1, <2>3
  <2>8. itemOf[t] \in {i, NoItem} /\ \A u \in Threads \ {t} : itemOf[u] # i
    BY <2>1, <2>2, <2>3, Alone
  <2>9. QED
    BY <1>2, <2>1, <2>2, <2>3, <2>6, <2>7, <2>8
<1>5. ASSUME NEW t \in Threads, MakeItem(t)
      PROVE  Lives'
  <2>1. PICK i \in Items : itemOf[t] = i
    BY <1>0, <1>5 DEF MakeItem, Leaves, Goes
  <2>2. /\ manager' = manager /\ pc[t] = "values"
        /\ itemOf'[t] = NoItem
        /\ UNCHANGED <<svlist, djsonData>>
        /\ schemaAndData' = [schemaAndData EXCEPT
               ![i] = [strm[t] EXCEPT !.values = FieldsOf[i]]]
    BY <1>0, <1>5, <2>1 DEF MakeItem, Leaves, Goes
  <2>3. Fresh(i) /\ strm[t].id # 0
    BY <2>1, <2>2 DEF Lives, At
  <2>4. /\ schemaAndData'[i].id # 0
        /\ schemaAndData'[i].values = FieldsOf[i]
    BY <1>0, <2>2, <2>3 DEF Texts
  <2>5. Rests(i)'
    BY <2>2, <2>3, <2>4 DEF Rests, Ready, Has, Composed, Nothing, Fresh
  <2>6. /\ \A u \in Threads \ {t} : /\ itemOf'[u] = itemOf[u] /\ pc'[u] = pc[u]
                                    /\ strm'[u] = strm[u]
        /\ \A j \in Items \ {i} : /\ svlist'[j] = svlist[j]
                                  /\ schemaAndData'[j] = schemaAndData[j]
                                  /\ djsonData'[j] = djsonData[j]
    BY <1>0, <1>5, <2>2 DEF MakeItem, Leaves, Goes
  <2>7. itemOf[t] \in {i, NoItem} /\ \A u \in Threads \ {t} : itemOf[u] # i
    BY <2>1, <2>2, Alone
  <2>8. QED
    BY <2>1, <2>2, <2>5, <2>6, <2>7, LivesFrame
<1>6. ASSUME NEW t \in Threads, NEW i \in Items, GetData(t, i)
      PROVE  Lives'
  <2>1. PICK to \in {"return", "schemaAndData"} : Goes(t, "idle", to)
    BY <1>6 DEF GetData
  <2>2. /\ UNCHANGED <<manager, itemVars, strm>> /\ pc'[t] = to
        /\ ~Busy(i) /\ itemOf[t] = NoItem /\ itemOf'[t] = i
        /\ \A u \in Threads \ {t} : itemOf'[u] = itemOf[u]
        /\ manager = "SchemaManager" => Composed(i)
        /\ to = "return" <=> djsonData[i] # <<>>
    BY <1>0, <1>6, <2>1 DEF GetData, Goes, Composed
  <2>3. IF to = "return" THEN Whole(i)
        ELSE Ready(i) \/ (Fresh(i) /\ manager = "IdMgr")
    <3>1. djsonData[i] = <<>> => ~Whole(i)
      BY DEF Whole, Has
    <3>2. djsonData[i] # <<>> => ~Fresh(i) /\ ~Ready(i)
      BY DEF Fresh, Ready, Has
    <3>3. Rests(i)
      BY <2>2 DEF Lives
    <3>4. Fresh(i) => manager = "IdMgr"
      BY <1>0, <2>2 DEF Fresh
    <3>5. QED
      BY <2>2, <3>1, <3>2, <3>3, <3>4 DEF Rests
  <2>4. IF to = "return" THEN Whole(i)'
        ELSE Ready(i)' \/ (Fresh(i)' /\ manager' = "IdMgr")
    BY <2>2, <2>3, RestsStays DEF itemVars
  <2>5. At(t, i)'
    BY <2>1, <2>2, <2>4 DEF At
  <2>6. itemOf[t] \in {i, NoItem} /\ \A u \in Threads \ {t} : itemOf[u] # i
    BY <2>2 DEF Busy
  <2>7. QED
    BY <1>2, <2>1, <2>2, <2>5, <2>6
<1>7. ASSUME NEW t \in Threads, TestSchemaAndData(t)
      PROVE  Lives'
  <2>1. PICK i \in Items : itemOf[t] = i
    BY <1>0, <1>7 DEF TestSchemaAndData, Goes
  <2>2. PICK to \in {"schema", "head"} : Goes(t, "schemaAndData", to)
    BY <1>7 DEF TestSchemaAndData
  <2>3. /\ UNCHANGED <<manager, itemVars, itemOf, strm>> /\ pc'[t] = to
        /\ pc[t] = "schemaAndData"
        /\ to = "head" <=> Composed(i)
    BY <1>0, <1>7, <2>1, <2>2 DEF TestSchemaAndData, Goes, localVars, Composed
  <2>4. IF to = "head" THEN Ready(i) ELSE Fresh(i) /\ manager = "IdMgr"
    BY <2>1, <2>2, <2>3 DEF Lives, At, Fresh, Ready, Has
  <2>5. At(t, i)'
    <3>1. IF to = "head" THEN Ready(i)' ELSE Fresh(i)' /\ manager' = "IdMgr"
      BY <2>3, <2>4, RestsStays DEF itemVars
    <3>2. QED
      BY <2>2, <2>3, <3>1 DEF At
  <2>6. itemOf'[t] = i /\ \A u \in Threads \ {t} : itemOf'[u] = itemOf[u]
    BY <2>1, <2>3
  <2>7. itemOf[t] \in {i, NoItem} /\ \A u \in Threads \ {t} : itemOf[u] # i
    BY <2>1, <2>2, <2>3, Alone
  <2>8. QED
    BY <1>2, <2>1, <2>2, <2>3, <2>5, <2>6, <2>7
<1>8. ASSUME NEW t \in Threads, GetItem(t)
      PROVE  Lives'
  <2>1. PICK i \in Items : itemOf[t] = i
    BY <1>0, <1>8 DEF GetItem
  <2>2. PICK to \in {"threw", "values", "insert"} : Goes(t, "schema", to)
    BY <1>8 DEF GetItem
  <2>3. /\ UNCHANGED <<manager, itemVars, itemOf>>
        /\ pc'[t] = to /\ pc[t] = "schema"
        /\ \A u \in Threads \ {t} : strm'[u] = strm[u]
    BY <1>0, <1>8, <2>2 DEF GetItem, Goes
  <2>4. Fresh(i) /\ manager = "IdMgr"
    BY <2>1, <2>3 DEF Lives, At
  <2>5. Fresh(i)'
    BY <2>3, <2>4, RestsStays DEF itemVars
  <2>6. to = "threw" => Spelling(i) = <<>>
    BY <1>0, <1>8, <2>1, <2>3, <2>4
       DEF GetItem, Goes, Fresh, Spelling, GetSchemaCacheKey
  <2>7. to = "values" => strm'[t].id # 0
    <3>1. ASSUME to = "values"
          PROVE  \E key \in DOMAIN cache : strm' = [strm EXCEPT ![t] =
                     Stream(cache[key].id, cache[key].schema)]
      BY <1>0, <1>8, <2>3, <3>1 DEF GetItem, Goes
    <3>2. QED
      BY <1>0, <1>1, <3>1
  <2>8. At(t, i)'
    <3>1. to = "threw" => (Spelling(i) = <<>>)'
      BY <2>3, <2>6, SpellingStays
    <3>2. manager' = "IdMgr"
      BY <2>3, <2>4
    <3>3. QED
      BY <2>2, <2>3, <2>5, <2>7, <3>1, <3>2 DEF At
  <2>9. itemOf'[t] = i /\ \A u \in Threads \ {t} : itemOf'[u] = itemOf[u]
    BY <2>1, <2>3
  <2>10. itemOf[t] \in {i, NoItem} /\ \A u \in Threads \ {t} : itemOf[u] # i
    BY <2>1, <2>2, <2>3, Alone
  <2>11. QED
    BY <1>2, <2>1, <2>2, <2>3, <2>8, <2>9, <2>10
<1>9. ASSUME NEW t \in Threads, FindOrInsert(t)
      PROVE  Lives'
  <2>1. PICK i \in Items : itemOf[t] = i
    BY <1>0, <1>9 DEF FindOrInsert
  <2>2. PICK to \in {"threw", "values"} : Goes(t, "insert", to)
    BY <1>9 DEF FindOrInsert
  <2>3. /\ UNCHANGED <<manager, itemVars, itemOf>> /\ manager = "IdMgr"
        /\ pc'[t] = to /\ pc[t] = "insert"
        /\ \A u \in Threads \ {t} : strm'[u] = strm[u]
    BY <1>0, <1>9, <2>2 DEF FindOrInsert, Goes
  <2>4. Fresh(i) /\ keyOf[t] = Spelling(i)
    BY <2>1, <2>3 DEF Lives, At, Keys, ThreadKeys
  <2>5. Fresh(i)'
    BY <2>3, <2>4, RestsStays DEF itemVars
  <2>6. to = "threw" => Collides(i)
    <3>1. SUFFICES ASSUME to = "threw" PROVE Collides(i)
      OBVIOUS
    <3>2. /\ Spelling(i) \in DOMAIN cache
          /\ cache[Spelling(i)].schema # SchemaArray(FieldsOf[i])
      BY <1>0, <1>9, <2>1, <2>3, <2>4, <3>1 DEF FindOrInsert, Goes, Fresh
    <3>3. PICK j \in Items : /\ Spelling(j) = Spelling(i)
                             /\ cache[Spelling(i)].schema = SchemaArray(FieldsOf[j])
      BY <3>2 DEF Keys, EntryKeys
    <3>4. QED
      BY <3>2, <3>3 DEF Collides
  <2>7. to = "values" => strm'[t].id # 0
    <3>1. SUFFICES ASSUME to = "values" PROVE strm'[t].id # 0
      OBVIOUS
    <3> DEFINE schema == SchemaArray(svlist[itemOf[t]])
    <3>2. \/ strm' = [strm EXCEPT ![t] = Stream(Cardinality(DOMAIN cache) + 1, schema)]
          \/ /\ keyOf[t] \in DOMAIN cache
             /\ strm' = [strm EXCEPT ![t] = Stream(cache[keyOf[t]].id, schema)]
      BY <1>0, <1>9, <2>3, <3>1 DEF FindOrInsert, Goes
    <3>3. Cardinality(DOMAIN cache) + 1 # 0
      BY FS_CardinalityType DEF TypeOK, TableOK
    <3>4. keyOf[t] \in DOMAIN cache => cache[keyOf[t]].id # 0
      BY DEF TypeOK, TableOK
    <3> HIDE DEF schema
    <3>5. QED
      BY <1>0, <3>2, <3>3, <3>4 DEF Stream
  <2>8. At(t, i)'
    <3>1. to = "threw" => Collides(i)'
      BY <2>3, <2>6, SpellingStays DEF Collides
    <3>2. QED
      BY <2>2, <2>3, <2>5, <2>7, <3>1 DEF At
  <2>9. itemOf'[t] = i /\ \A u \in Threads \ {t} : itemOf'[u] = itemOf[u]
    BY <2>1, <2>3
  <2>10. itemOf[t] \in {i, NoItem} /\ \A u \in Threads \ {t} : itemOf[u] # i
    BY <2>1, <2>2, <2>3, Alone
  <2>11. QED
    BY <1>2, <2>1, <2>2, <2>3, <2>8, <2>9, <2>10
<1>10. ASSUME NEW t \in Threads, ComposeDataValue(t)
       PROVE  Lives'
  <2>1. PICK i \in Items : itemOf[t] = i
    BY <1>0, <1>10 DEF ComposeDataValue, Goes
  <2>2. /\ UNCHANGED <<manager, itemVars, itemOf>> /\ manager = "IdMgr"
        /\ pc'[t] = "swap" /\ pc[t] = "values" /\ Goes(t, "values", "swap")
        /\ strm' = [strm EXCEPT ![t].values = svlist[i]]
    BY <1>0, <1>10, <2>1 DEF ComposeDataValue, Goes
  <2>3. Fresh(i) /\ strm[t].id # 0
    BY <2>1, <2>2 DEF Lives, At
  <2>4. Fresh(i)'
    BY <2>2, <2>3, RestsStays DEF itemVars
  <2>5. /\ strm'[t].id # 0 /\ strm'[t].values = FieldsOf[i]
        /\ \A u \in Threads \ {t} : strm'[u] = strm[u]
    BY <1>0, <2>2, <2>3 DEF Fresh, Texts
  <2>6. At(t, i)'
    BY <2>2, <2>4, <2>5 DEF At
  <2>7. itemOf'[t] = i /\ \A u \in Threads \ {t} : itemOf'[u] = itemOf[u]
    BY <2>1, <2>2
  <2>8. itemOf[t] \in {i, NoItem} /\ \A u \in Threads \ {t} : itemOf[u] # i
    BY <2>1, <2>2, Alone
  <2>9. QED
    BY <1>2, <2>1, <2>2, <2>5, <2>6, <2>7, <2>8
<1>11. ASSUME NEW t \in Threads,
              \/ SwapSvlist(t) \/ StoreSchemaAndData(t)
              \/ AssignLength(t) \/ AppendBody(t)
       PROVE  Lives'
  <2>1. PICK i \in Items : itemOf[t] = i
    BY <1>0, <1>11
       DEF SwapSvlist, StoreSchemaAndData, AssignLength, AppendBody, Goes
  <2>2. /\ UNCHANGED <<manager, itemOf, strm>>
        /\ \A u \in Threads \ {t} : pc'[u] = pc[u]
        /\ \A j \in Items \ {i} : /\ svlist'[j] = svlist[j]
                                  /\ schemaAndData'[j] = schemaAndData[j]
                                  /\ djsonData'[j] = djsonData[j]
    BY <1>0, <1>11, <2>1
       DEF SwapSvlist, StoreSchemaAndData, AssignLength, AppendBody, Goes,
           localVars
  <2>3. At(t, i)'
    <3>1. CASE SwapSvlist(t)
      <4>1. /\ pc[t] = "swap" /\ pc'[t] = "storeItem"
            /\ UNCHANGED <<schemaAndData, djsonData>>
        BY <1>0, <3>1 DEF SwapSvlist, Goes
      <4>2. /\ Fresh(i) /\ strm[t].id # 0 /\ manager = "IdMgr"
            /\ strm[t].values = FieldsOf[i]
        BY <2>1, <4>1 DEF Lives, At
      <4>3. ~Composed(i)' /\ djsonData'[i] = <<>>
        BY <4>1, <4>2 DEF Fresh, Composed, Nothing
      <4>4. QED
        BY <2>2, <4>1, <4>2, <4>3 DEF At
    <3>2. CASE StoreSchemaAndData(t)
      <4>1. /\ pc[t] = "storeItem" /\ pc'[t] = "head"
            /\ djsonData' = djsonData /\ schemaAndData'[i] = strm[t]
        BY <1>0, <2>1, <3>2 DEF StoreSchemaAndData, Goes
      <4>2. /\ djsonData[i] = <<>> /\ strm[t].id # 0
            /\ strm[t].values = FieldsOf[i]
        BY <2>1, <4>1 DEF Lives, At
      <4>3. Ready(i)'
        BY <4>1, <4>2 DEF Ready, Has, Composed, Nothing
      <4>4. QED
        BY <4>1, <4>3 DEF At
    <3>3. CASE AssignLength(t)
      <4>1. /\ pc[t] = "head" /\ pc'[t] = "body"
            /\ schemaAndData' = schemaAndData
            /\ djsonData'[i] = <<Length(schemaAndData[i])>>
        BY <1>0, <2>1, <3>3 DEF AssignLength, Goes
      <4>2. Ready(i)
        BY <2>1, <4>1 DEF Lives, At
      <4>3. Half(i)'
        BY <4>1, <4>2 DEF Ready, Half, Has, Composed, Nothing, Length
      <4>4. QED
        BY <4>1, <4>3 DEF At
    <3>4. CASE AppendBody(t)
      <4>1. /\ pc[t] = "body" /\ pc'[t] = "return"
            /\ schemaAndData' = schemaAndData
            /\ djsonData'[i] = Append(djsonData[i], Text(schemaAndData[i]))
        BY <1>0, <2>1, <3>4 DEF AppendBody, Goes
      <4>2. Half(i)
        BY <2>1, <4>1 DEF Lives, At
      <4>3. djsonData'[i] = <<Length(schemaAndData[i]), Text(schemaAndData[i])>>
        <5>1. djsonData[i] = <<Length(schemaAndData[i])>>
          BY <4>2 DEF Half, Has
        <5>2. /\ Length(schemaAndData[i]) \in Parts
              /\ Text(schemaAndData[i]) \in Parts
          BY <1>0 DEF Length, Text, Parts
        <5>3. QED
          BY <4>1, <5>1, <5>2, AppendToOne
      <4>4. Whole(i)'
        BY <4>1, <4>2, <4>3 DEF Half, Whole, Has, Composed, Nothing, Length, Text
      <4>5. QED
        BY <4>1, <4>4 DEF At
    <3>5. QED
      BY <1>11, <3>1, <3>2, <3>3, <3>4
  <2>4. itemOf'[t] = i /\ \A u \in Threads \ {t} :
                           itemOf'[u] = itemOf[u] /\ strm'[u] = strm[u]
    BY <2>1, <2>2
  <2>5. itemOf[t] \in {i, NoItem} /\ \A u \in Threads \ {t} : itemOf[u] # i
    BY <2>1, <2>2, <2>3, Alone
  <2>6. QED
    BY <2>1, <2>2, <2>3, <2>4, <2>5, LivesFrame
<1>12. ASSUME NEW t \in Threads, Return(t) \/ RaiseMalformed(t)
       PROVE  Lives'
  <2>1. PICK from \in {"return", "threw", "values"} :
           /\ Leaves(t, from)
           /\ from = "values" => manager = "SchemaManager"
    BY <1>12 DEF Return, RaiseMalformed
  <2>2. PICK i \in Items : itemOf[t] = i
    BY <1>0, <2>1 DEF Leaves, Goes
  <2>3. /\ UNCHANGED <<manager, itemVars>> /\ pc[t] = from
        /\ itemOf'[t] = NoItem
        /\ \A u \in Threads \ {t} : /\ itemOf'[u] = itemOf[u] /\ pc'[u] = pc[u]
                                    /\ strm'[u] = strm[u]
    BY <1>0, <1>12, <2>1 DEF Return, RaiseMalformed, Leaves, Goes
  <2>4. Rests(i)
    BY <2>1, <2>2, <2>3 DEF Lives, At, Rests
  <2>5. Rests(i)'
    BY <2>3, <2>4, RestsStays DEF itemVars
  <2>6. \A j \in Items \ {i} : /\ svlist'[j] = svlist[j]
                               /\ schemaAndData'[j] = schemaAndData[j]
                               /\ djsonData'[j] = djsonData[j]
    BY <2>3 DEF itemVars
  <2>7. itemOf[t] \in {i, NoItem} /\ \A u \in Threads \ {t} : itemOf[u] # i
    BY <2>2, <2>3, Alone
  <2>8. QED
    BY <2>2, <2>3, <2>5, <2>6, <2>7, LivesFrame
<1>13. ASSUME UNCHANGED vars
       PROVE  Lives'
  <2>1. UNCHANGED <<manager, svlist, schemaAndData, djsonData, pc, itemOf, strm>>
    BY <1>13 DEF vars, itemVars, localVars
  <2>2. ASSUME NEW t \in Threads, NEW i \in Items, itemOf'[t] = i
        PROVE  At(t, i)'
    BY <2>1, <2>2, AtStays DEF Lives
  <2>3. ASSUME NEW i \in Items PROVE Busy(i)' \/ Rests(i)'
    <3>1. Rests(i)' <=> Rests(i)
      BY <2>1, RestsStays
    <3>2. QED
      BY <2>1, <3>1 DEF Lives, Busy
  <2>4. \A t, u \in Threads : itemOf'[t] = itemOf'[u] /\ itemOf'[t] # NoItem => t = u
    BY <2>1 DEF Lives
  <2>5. QED
    BY <2>2, <2>3, <2>4 DEF Lives
<1>14. QED
  BY <1>3, <1>4, <1>5, <1>6, <1>7, <1>8, <1>9, <1>10, <1>11, <1>12, <1>13
     DEF Next, ThreadStep

\* the invariant of the two theorems
LEMMA LivesHold ==
  ASSUME ~ResendOverlaps
  PROVE  Spec => [](TypeOK /\ Lives)
<1>1. Init => TypeOK /\ Keys /\ Lives
  BY TypeInit, KeysInit, LivesInit
<1>2. TypeOK /\ Keys /\ Lives /\ [Next]_vars => (TypeOK /\ Keys /\ Lives)'
  BY TypeStep, KeysStep, LivesStep
<1>3. QED
  BY <1>1, <1>2, PTL DEF Spec

(* For any threads, items and fields, as long as no resend round falls in   *)
(* the sender's GetData: what GetData returns is a whole message, with the  *)
(* values of all of the item's fields (DjsonLogItem.h:77).                  *)
THEOREM WholeMessageHolds ==
  ASSUME ~ResendOverlaps
  PROVE  Spec => []WholeMessage
<1>1. TypeOK /\ Lives => WholeMessage
  <2> SUFFICES ASSUME TypeOK, Lives, NEW t \in Threads, pc[t] = "return"
               PROVE  \E text \in {schemaAndData[itemOf[t]]} :
                        /\ djsonData[itemOf[t]] = <<Length(text), Text(text)>>
                        /\ text.values = FieldsOf[itemOf[t]]
    BY DEF WholeMessage
  <2>1. itemOf[t] \in Items
    BY DEF TypeOK, ThreadsOK
  <2>2. Whole(itemOf[t])
    BY <2>1 DEF Lives, At
  <2>3. QED
    BY <2>2 DEF Whole, Has
<1>2. QED
  BY <1>1, LivesHold, PTL

(* For any threads, items and fields, as long as no resend round falls in   *)
(* the sender's GetData, it throws only for an item without fields, or with *)
(* a key that is another's too (IdMgr.cc:13, 50).                           *)
THEOREM OnlyCollisionsThrowHolds ==
  ASSUME ~ResendOverlaps
  PROVE  Spec => []OnlyCollisionsThrow
<1>1. TypeOK /\ Lives => OnlyCollisionsThrow
  BY DEF Lives, At, TypeOK, ThreadsOK, OnlyCollisionsThrow
<1>2. QED
  BY <1>1, LivesHold, PTL
------------------------------------------------------------------------------
(* What an item keeps once it has a schema, and once it has a message. *)

Making == {"newId", "store", "values"}

\* a thread in SchemaManager has its record alone, and there is no item of it
\* yet; and GetData never has to ask SchemaManager
ThreadMakes(t) ==
    /\ pc[t] \in Making =>
         /\ ~Composed(itemOf[t])
         /\ \A u \in Threads \ {t} : itemOf[u] # itemOf[t]
    /\ pc[t] \in {"idle", "schemaAndData", "head", "body", "return"} \cup Making
    /\ pc[t] \notin Making \cup {"idle"} => Composed(itemOf[t])

MakesAlone == manager = "SchemaManager" => \A t \in Threads : ThreadMakes(t)

LEMMA MakesFrame ==
  ASSUME TypeOK, NEW t \in Threads, \A u \in Threads : ThreadMakes(u),
         ThreadMakes(t)',
         \A u \in Threads \ {t} : /\ pc'[u] = pc[u] /\ itemOf'[u] = itemOf[u]
                                  /\ pc[u] \in Making => itemOf'[t] # itemOf[u],
         \A i \in Items \ {itemOf[t]} : schemaAndData'[i] = schemaAndData[i],
         Composed(itemOf[t]) => schemaAndData'[itemOf[t]] # Nothing
  PROVE  \A u \in Threads : ThreadMakes(u)'
<1> SUFFICES ASSUME NEW u \in Threads, u # t PROVE ThreadMakes(u)'
  OBVIOUS
<1>1. /\ pc'[u] = pc[u] /\ itemOf'[u] = itemOf[u]
      /\ pc[u] # "idle" => itemOf[u] \in Items
  BY DEF TypeOK, ThreadsOK
<1>2. ASSUME pc[u] \in Making
      PROVE  /\ schemaAndData'[itemOf'[u]] = Nothing
             /\ \A v \in Threads \ {u} : itemOf'[v] # itemOf'[u]
  <2>1. /\ schemaAndData[itemOf[u]] = Nothing
        /\ \A v \in Threads \ {u} : itemOf[v] # itemOf[u]
    BY <1>2 DEF ThreadMakes, Composed
  <2>2. itemOf[u] \in Items \ {itemOf[t]}
    BY <1>1, <1>2, <2>1 DEF Making
  <2>3. QED
    BY <1>1, <1>2, <2>1, <2>2
<1>3. ASSUME pc[u] \notin Making \cup {"idle"}
      PROVE  schemaAndData'[itemOf'[u]] # Nothing
  <2>1. Composed(itemOf[u])
    BY <1>3 DEF ThreadMakes
  <2>2. CASE itemOf[u] = itemOf[t]
    BY <1>1, <2>1, <2>2
  <2>3. CASE itemOf[u] # itemOf[t]
    BY <1>1, <1>3, <2>1, <2>3 DEF Composed
  <2>4. QED
    BY <2>2, <2>3
<1>4. pc[u] \in {"idle", "schemaAndData", "head", "body", "return"} \cup Making
  BY DEF ThreadMakes
<1>5. QED
  BY <1>1, <1>2, <1>3, <1>4 DEF ThreadMakes, Composed, Nothing

LEMMA MakesAloneStep == TypeOK /\ MakesAlone /\ [Next]_vars => MakesAlone'
<1> SUFFICES ASSUME TypeOK, MakesAlone, [Next]_vars, manager' = "SchemaManager"
             PROVE  \A u \in Threads : ThreadMakes(u)'
  BY DEF MakesAlone
<1>0. /\ \A t \in Threads : pc[t] = "idle" <=> itemOf[t] = NoItem
      /\ pc \in [Threads -> PcStates] /\ itemOf \in [Threads -> Items \cup {NoItem}]
      /\ schemaAndData \in [Items -> Texts] /\ NoItem \notin Items
  BY ItemsAssumption DEF ItemsAssumption, TypeOK, ThreadsOK, ItemsOK
<1>1. manager = "SchemaManager"
  <2>1. ASSUME NEW t \in Threads, ThreadStep(t) PROVE manager' = manager
    <3>1. CASE \E i \in Items : GetSchemaInfo(t, i) \/ GetData(t, i)
      BY <3>1 DEF GetSchemaInfo, GetData, Goes
    <3>2. CASE \/ GetNewSchemaId(t) \/ StoreSchema(t) \/ MakeItem(t)
               \/ TestSchemaAndData(t) \/ GetItem(t)
      BY <3>2
         DEF GetNewSchemaId, StoreSchema, MakeItem, TestSchemaAndData, GetItem,
             Leaves, Goes
    <3>3. CASE \/ FindOrInsert(t) \/ ComposeDataValue(t) \/ SwapSvlist(t)
               \/ StoreSchemaAndData(t)
      BY <3>3
         DEF FindOrInsert, ComposeDataValue, SwapSvlist, StoreSchemaAndData,
             Leaves, Goes
    <3>4. CASE AssignLength(t) \/ AppendBody(t) \/ Return(t) \/ RaiseMalformed(t)
      BY <3>4 DEF AssignLength, AppendBody, Return, RaiseMalformed, Leaves, Goes
    <3>5. QED
      BY <2>1, <3>1, <3>2, <3>3, <3>4 DEF ThreadStep
  <2>2. manager' = manager
    BY <2>1 DEF Next, vars
  <2>3. QED
    BY <2>2
<1>2. \A u \in Threads : ThreadMakes(u)
  BY <1>1 DEF MakesAlone
\* a thread takes an item
<1>3. ASSUME NEW t \in Threads, NEW i \in Items, GetSchemaInfo(t, i) \/ GetData(t, i)
      PROVE  \A u \in Threads : ThreadMakes(u)'
  <2>1. /\ pc[t] = "idle" /\ itemOf[t] = NoItem /\ itemOf'[t] = i
        /\ schemaAndData' = schemaAndData
        /\ \A u \in Threads \ {t} : pc'[u] = pc[u] /\ itemOf'[u] = itemOf[u]
    BY <1>0, <1>3 DEF GetSchemaInfo, GetData, Goes, itemVars
  <2>2. CASE GetSchemaInfo(t, i)
    <3>1. /\ pc'[t] \in {"values", "newId"} /\ schemaAndData[i] = Nothing
          /\ \A u \in Threads : itemOf[u] # i
      BY <1>0, <2>2 DEF GetSchemaInfo, Goes, Busy
    <3>2. ThreadMakes(t)'
      BY <2>1, <3>1 DEF ThreadMakes, Making, Composed, Nothing
    <3>3. QED
      BY <1>2, <2>1, <3>1, <3>2, MakesFrame DEF Composed
  <2>3. CASE GetData(t, i)
    <3>1. pc'[t] \in {"schemaAndData", "return"} /\ schemaAndData[i] # Nothing
      BY <1>0, <1>1, <2>3 DEF GetData, Goes
    <3>2. ThreadMakes(t)'
      BY <2>1, <3>1 DEF ThreadMakes, Making, Composed, Nothing
    <3>3. \A u \in Threads : pc[u] \in Making => itemOf[u] # i
      BY <1>2, <3>1 DEF ThreadMakes, Composed
    <3>4. QED
      BY <1>2, <2>1, <3>2, <3>3, MakesFrame DEF Composed
  <2>4. QED
    BY <1>3, <2>2, <2>3
\* a thread goes on with its item
<1>4. ASSUME NEW t \in Threads,
             \/ GetNewSchemaId(t) \/ StoreSchema(t) \/ TestSchemaAndData(t)
             \/ AssignLength(t) \/ AppendBody(t)
      PROVE  \A u \in Threads : ThreadMakes(u)'
  <2>1. /\ schemaAndData' = schemaAndData /\ itemOf' = itemOf
        /\ \A u \in Threads \ {t} : pc'[u] = pc[u]
    BY <1>0, <1>4
       DEF GetNewSchemaId, StoreSchema, TestSchemaAndData, AssignLength,
           AppendBody, Goes, itemVars, localVars
  <2>2. \/ pc[t] \in Making /\ pc'[t] \in Making
        \/ /\ pc[t] \notin Making \cup {"idle"} /\ pc'[t] \notin Making \cup {"idle"}
           /\ pc'[t] \in {"head", "body", "return"}
    <3>1. CASE GetNewSchemaId(t) \/ StoreSchema(t)
      BY <1>0, <3>1 DEF GetNewSchemaId, StoreSchema, Goes, Making
    <3>2. CASE AssignLength(t) \/ AppendBody(t)
      BY <1>0, <3>2 DEF AssignLength, AppendBody, Goes, Making
    <3>3. CASE TestSchemaAndData(t)
      <4>1. pc[t] = "schemaAndData"
        BY <3>3 DEF TestSchemaAndData, Goes
      <4>2. Composed(itemOf[t])
        BY <1>2, <4>1 DEF ThreadMakes, Making
      <4>3. QED
        BY <1>0, <3>3, <4>1, <4>2 DEF TestSchemaAndData, Goes, Making, Composed
    <3>4. QED
      BY <1>4, <3>1, <3>2, <3>3
  <2>3. ThreadMakes(t)'
    BY <1>2, <2>1, <2>2 DEF ThreadMakes, Composed, Nothing
  <2>4. \A u \in Threads \ {t} : pc[u] \in Making => itemOf'[t] # itemOf[u]
    BY <1>2, <2>1 DEF ThreadMakes
  <2>5. QED
    BY <1>2, <2>1, <2>3, <2>4, MakesFrame DEF Composed
\* a thread lets its item go
<1>5. ASSUME NEW t \in Threads, MakeItem(t) \/ Return(t) \/ RaiseMalformed(t)
      PROVE  \A u \in Threads : ThreadMakes(u)'
  <2>1. /\ pc[t] # "idle" /\ itemOf[t] \in Items
        /\ pc'[t] = "idle" /\ itemOf'[t] = NoItem
        /\ \A u \in Threads \ {t} : pc'[u] = pc[u] /\ itemOf'[u] = itemOf[u]
    BY <1>0, <1>5 DEF MakeItem, Return, RaiseMalformed, Leaves, Goes
  <2>2. \A u \in Threads : pc[u] \in Making => itemOf[u] # NoItem
    BY <1>0 DEF Making
  <2>3. ThreadMakes(t)'
    BY <2>1 DEF ThreadMakes, Making
  <2>4. \/ schemaAndData' = schemaAndData
        \/ /\ ~Composed(itemOf[t])
           /\ \A i \in Items \ {itemOf[t]} : schemaAndData'[i] = schemaAndData[i]
    <3>1. CASE MakeItem(t)
      <4>1. pc[t] \in Making
        BY <3>1 DEF MakeItem, Leaves, Goes, Making
      <4>2. ~Composed(itemOf[t])
        BY <1>2, <4>1 DEF ThreadMakes
      <4>3. QED
        BY <1>0, <3>1, <4>2 DEF MakeItem
    <3>2. CASE Return(t) \/ RaiseMalformed(t)
      BY <3>2 DEF Return, RaiseMalformed, itemVars
    <3>3. QED
      BY <1>5, <3>1, <3>2
  <2>5. QED
    BY <1>0, <1>2, <2>1, <2>2, <2>3, <2>4, MakesFrame DEF Composed
\* and GetData has no business with a schema
<1>6. ASSUME NEW t \in Threads,
             \/ GetItem(t) \/ FindOrInsert(t) \/ ComposeDataValue(t)
             \/ SwapSvlist(t) \/ StoreSchemaAndData(t)
      PROVE  FALSE
  BY <1>1, <1>2, <1>6
     DEF GetItem, FindOrInsert, ComposeDataValue, SwapSvlist, StoreSchemaAndData,
         Goes, ThreadMakes, Making
<1>7. CASE UNCHANGED vars
  BY <1>2, <1>7 DEF vars, itemVars, localVars, ThreadMakes, Composed, Nothing
<1>8. QED
  BY <1>3, <1>4, <1>5, <1>6, <1>7 DEF Next, ThreadStep

(* An item keeps the id and the schema that it was first composed with:     *)
(* mdsd, which looks an id up among the schemas it has seen                 *)
(* (DjsonLogItem.cc:50-51, out_mdsd.rb:132), is never told of another for   *)
(* an item that is sent again, even when a resend round composes the item   *)
(* while the sender does.                                                   *)
SchemaStays ==
    [][\A i \in Items :
           Composed(i) => Pair(schemaAndData'[i]) = Pair(schemaAndData[i])]_vars

THEOREM SchemaStaysHolds == Spec => SchemaStays
<1> DEFINE Invariant == TypeOK /\ Ids /\ Keys /\ MakesAlone
           Same == \A i \in Items :
                     Composed(i) => Pair(schemaAndData'[i]) = Pair(schemaAndData[i])
<1>1. Init => Invariant
  BY TypeInit, IdsInit, KeysInit DEF Init, MakesAlone, ThreadMakes, Making
<1>2. Invariant /\ [Next]_vars => Invariant'
  BY TypeStep, IdsStep, KeysStep, MakesAloneStep
<1>3. Invariant /\ [Next]_vars => Same
  <2> SUFFICES ASSUME Invariant, [Next]_vars, NEW i \in Items, Composed(i)
               PROVE  Pair(schemaAndData'[i]) = Pair(schemaAndData[i])
    OBVIOUS
  <2>0. /\ manager \in Managers /\ Managers \subseteq {"IdMgr", "SchemaManager"}
        /\ schemaAndData \in [Items -> Texts]
    BY ManagersAssumption DEF ManagersAssumption, TypeOK, ItemsOK
  <2>1. ASSUME NEW t \in Threads, MakeItem(t)
        PROVE  schemaAndData'[i] = schemaAndData[i]
    <3>1. manager = "SchemaManager" /\ pc[t] \in Making
      BY <2>1 DEF MakeItem, Leaves, Goes, Making
    <3>2. ~Composed(itemOf[t])
      BY <3>1 DEF MakesAlone, ThreadMakes
    <3>3. QED
      BY <2>0, <2>1, <3>2 DEF MakeItem
  <2>2. ASSUME NEW t \in Threads, StoreSchemaAndData(t)
        PROVE  Pair(schemaAndData'[i]) = Pair(schemaAndData[i])
    <3>1. pc[t] = "storeItem"
      BY <2>2 DEF StoreSchemaAndData, Goes
    <3>2. manager = "IdMgr"
      BY <2>0, <3>1 DEF MakesAlone, ThreadMakes, Making
    <3>3. CASE itemOf[t] = i
      <4>1. Right(strm[t].id, strm[t].schema, i)
        BY <3>1, <3>3 DEF Keys, ThreadKeys
      <4>2. Right(schemaAndData[i].id, schemaAndData[i].schema, i)
        BY DEF Keys, ItemKeys
      <4>3. strm[t].id = schemaAndData[i].id
        BY <3>2, <4>1, <4>2 DEF Right, IdOf
      <4>4. Pair(strm[t]) \in InUse /\ Pair(schemaAndData[i]) \in InUse
        BY InUseFacts
      <4>5. Pair(strm[t]) = Pair(schemaAndData[i])
        BY <4>3, <4>4 DEF Ids, Pair
      <4>6. schemaAndData'[i] = strm[t]
        BY <2>0, <2>2, <3>3 DEF StoreSchemaAndData
      <4>7. QED
        BY <4>5, <4>6
    <3>4. CASE itemOf[t] # i
      BY <2>0, <2>2, <3>4 DEF StoreSchemaAndData
    <3>5. QED
      BY <3>3, <3>4
  <2>3. CASE /\ \A t \in Threads : ~MakeItem(t) /\ ~StoreSchemaAndData(t)
             /\ [Next]_vars
    <3>1. schemaAndData' = schemaAndData
      BY <2>3
         DEF Next, ThreadStep, GetSchemaInfo, GetData, GetNewSchemaId, StoreSchema,
             TestSchemaAndData, GetItem, FindOrInsert, ComposeDataValue,
             SwapSvlist, AssignLength, AppendBody, Return, RaiseMalformed, vars,
             itemVars
    <3>2. QED
      BY <3>1
  <2>4. QED
    BY <2>1, <2>2, <2>3
<1> HIDE DEF Invariant, Same
<1>4. Invariant /\ [Next]_vars => [Same]_vars
  BY <1>3
<1>5. Spec => [][Same]_vars
  BY <1>1, <1>2, <1>4, PTL DEF Spec
<1>6. QED
  BY <1>5 DEF SchemaStays, Same

(* A message once composed is what every later send of the item sends, so   *)
(* that mdsd gets one message under one tag (DjsonLogItem.h:77), as long as *)
(* no resend round falls in the sender's GetData.                           *)
SameMessageAgain ==
    [][\A i \in Items : Len(djsonData[i]) = 2 => djsonData'[i] = djsonData[i]]_vars

THEOREM SameMessageAgainHolds ==
  ASSUME ~ResendOverlaps
  PROVE  Spec => SameMessageAgain
<1> DEFINE Same == \A i \in Items :
                     Len(djsonData[i]) = 2 => djsonData'[i] = djsonData[i]
<1>1. TypeOK /\ Lives /\ [Next]_vars => Same
  <2> SUFFICES ASSUME TypeOK, Lives, [Next]_vars, NEW i \in Items,
                      Len(djsonData[i]) = 2
               PROVE  djsonData'[i] = djsonData[i]
    OBVIOUS
  <2>0. /\ djsonData \in [Items -> Seq(Parts)]
        /\ \A t \in Threads : pc[t] # "idle" => itemOf[t] \in Items
    BY DEF TypeOK, ItemsOK, ThreadsOK
  <2>1. ASSUME NEW t \in Threads, AssignLength(t) \/ AppendBody(t)
        PROVE  djsonData'[i] = djsonData[i]
    <3>1. pc[t] \in {"head", "body"} /\ itemOf[t] \in Items
      BY <2>0, <2>1 DEF AssignLength, AppendBody, Goes
    <3>2. PICK j \in Items : j = itemOf[t]
      BY <3>1
    <3>3. Ready(j) \/ Half(j)
      BY <3>1, <3>2 DEF Lives, At
    <3>4. PICK text : text = Length(schemaAndData[j])
      OBVIOUS
    <3>5. djsonData[j] = <<>> \/ djsonData[j] = <<text>>
      BY <3>3, <3>4 DEF Ready, Half, Has
    <3>6. Len(djsonData[j]) # 2
      BY <3>5
    <3>7. j # i
      BY <3>6
    <3>8. QED
      BY <2>0, <2>1, <3>2, <3>7 DEF AssignLength, AppendBody
  <2>2. CASE /\ \A t \in Threads : ~AssignLength(t) /\ ~AppendBody(t)
             /\ [Next]_vars
    <3>1. djsonData' = djsonData
      BY <2>2
         DEF Next, ThreadStep, GetSchemaInfo, GetData, GetNewSchemaId, StoreSchema,
             MakeItem, TestSchemaAndData, GetItem, FindOrInsert, ComposeDataValue,
             SwapSvlist, StoreSchemaAndData, Return, RaiseMalformed, vars,
             itemVars
    <3>2. QED
      BY <3>1
  <2>3. QED
    BY <2>1, <2>2
<1> HIDE DEF Same
<1>2. TypeOK /\ Lives /\ [Next]_vars => [Same]_vars
  BY <1>1
<1>3. Spec => [][Same]_vars
  BY <1>2, LivesHold, PTL DEF Spec
<1>4. QED
  BY <1>3 DEF SameMessageAgain, Same
==============================================================================
