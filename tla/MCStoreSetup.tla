---------------------------- MODULE MCStoreSetup ----------------------------
(***************************************************************************)
(* Instances of StoreSetup for TLC: a configuration, and the ones a later  *)
(* release could start with.                                               *)
(***************************************************************************)
EXTENDS StoreSetup

Column_(name, def) == [name |-> name, def |-> def]
Index_(name, columns) == [name |-> name, columns |-> columns, unique |-> FALSE]
Config(columns, indexes, create, verify) ==
  [columns |-> columns, indexes |-> indexes, create |-> create, verify |-> verify]

Id == Column_("id", "$.id")
UserId == Column_("user_id", "$.user_id")

Current == Config(<<Id, UserId>>, <<Index_("ix", <<"id">>)>>, TRUE, TRUE)
Fewer == Config(<<UserId>>, <<>>, FALSE, TRUE)
More == Config(<<Id, UserId, Column_("at", "$.at")>>,
               <<Index_("ix", <<"id">>), Index_("ix_at", <<"at", "entity_key">>)>>, TRUE, FALSE)
ColumnMoved == Config(<<Column_("id", "$.user_id"), UserId>>, <<>>, TRUE, TRUE)
IndexMoved == Config(<<Id, UserId>>, <<Index_("ix", <<"user_id">>)>>, TRUE, TRUE)
Twice == Config(<<UserId, UserId>>, <<>>, TRUE, FALSE)
Renamed == Config(<<Column_("ID", "$.id"), Column_("PAYLOAD", "$.id")>>, <<>>, FALSE, FALSE)
Unknown == Config(<<UserId>>, <<Index_("ix_id", <<"id">>)>>, TRUE, TRUE)

Releases == {Current, Fewer, More, ColumnMoved, IndexMoved, Twice, Renamed, Unknown}
OneColumnMoved == {Current, ColumnMoved}

System == {"message_id", "entity_key", "payload"}
Lower(name) == IF name = "ID" THEN "id" ELSE IF name = "PAYLOAD" THEN "payload" ELSE name
None == {}
IdEndsUserId == {<<"id", "user_id">>}

OnePartition == {"tp"}
OneChangelog == [tp \in OnePartition |-> "changelog"]
=============================================================================
