----------------------------- MODULE MCEntitySql -----------------------------
(* Instances of EntitySql for TLC.                                         *)
EXTENDS EntitySql

MCFields == <<"id", "code", "kind">>
AnyOrder == {<<>>, <<"code">>, <<"id", "code">>, <<"code", "id">>}
Lists == {<<>>, <<"kind">>, <<"kind", "code", "id">>}
ListsInOrder == {<<>>, <<"kind">>}
=============================================================================
