---------------------------- MODULE MCDjsonLogItem ----------------------------
(* Two threads.  Two items have the same fields, one has a field of another   *)
(* type in the place of one of theirs (as a plugin record it has no text),    *)
(* one has no fields; and for each of the two managers one has a single field *)
(* whose name and type, run together, make the same key: i4 for IdMgr, i5 for *)
(* SchemaManager.                                                             *)
EXTENDS DjsonLogItem

CONSTANTS t1, t2, i1, i2, i3, i4, i5, i6

MCThreads == {t1, t2}
MCItems == {i1, i2, i3, i4, i5, i6}

Field(name, type) == [name |-> name, type |-> type]

MCFieldsOf == [i \in MCItems |->
    CASE i \in {i1, i2} -> <<Field(<<"a">>, <<"S">>), Field(<<"b">>, <<"S">>)>>
      [] i = i3 -> <<Field(<<"a">>, <<"S">>), Field(<<"b">>, <<"H">>)>>
      [] i = i4 -> <<Field(<<"a", "S", "b">>, <<"S">>)>>
      [] i = i5 -> <<Field(<<"a", ",", "S", ",", "b">>, <<"S">>)>>
      [] i = i6 -> <<>>]

MCChars == {"a", "b", "S", "H", ","}
MCRb2MdsdType == [class \in {<<"S">>, <<"H">>} |-> <<"S">>]

(* Threads do alike, and so do the two items with the same fields.            *)
Alike == Permutations(MCThreads) \cup Permutations({i1, i2})
==============================================================================
