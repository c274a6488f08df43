-------------------------- MODULE Materialization --------------------------
(***************************************************************************)
(* The materialization statements of _schema.py, each as its effect on the *)
(* table it writes.  _records is a set of rows keyed by message id;        *)
(* partition_checkpoint holds one offset for a partition (NoOffset: no     *)
(* row).  The column values that no property tells apart, entity_key and   *)
(* payload, are left out: they travel with the message id.                 *)
(***************************************************************************)
EXTENDS PartitionStates, Sequences

Row(tp, id, off) == [tp |-> tp, id |-> id, off |-> off]

StoredIds(rs) == {r.id : r \in rs}

(* Mutant of InsertRecord: no conflict is looked for. *)
InsertRecordOverwriting(rs, tp, id, off) == rs \cup {Row(tp, id, off)}

(* INSERT ... ON CONFLICT (message_id) DO NOTHING. *)
InsertRecord(rs, tp, id, off) ==
  IF id \in StoredIds(rs) THEN rs ELSE rs \cup {Row(tp, id, off)}

(* The positions of a fetched batch whose INSERT finds no conflicting row: *)
(* KSQLite's own records, stored neither before this transaction nor by an *)
(* earlier record of the same batch.                                       *)
NewRecords(rs, batch) ==
  {i \in DOMAIN batch :
     /\ batch[i].kind = "record"
     /\ batch[i].id \notin StoredIds(rs)
     /\ \A j \in 1..(i - 1) : batch[j].kind = "record" => batch[j].id # batch[i].id}

(* Mutant of InsertBatch: offsets counted from one. *)
InsertBatchFromOne(rs, tp, lo, batch) ==
  rs \cup {Row(tp, batch[i].id, lo + i) : i \in NewRecords(rs, batch)}

(* The loop of INSERTs one replayed batch runs; lo is its first offset.    *)
InsertBatch(rs, tp, lo, batch) ==
  rs \cup {Row(tp, batch[i].id, lo + i - 1) : i \in NewRecords(rs, batch)}

(* Mutant of UpsertCheckpoint: plain overwrite, no MAX(). *)
UpsertCheckpointLast(old, off) == off

(* INSERT ... ON CONFLICT DO UPDATE SET changelog_offset = MAX(...). *)
UpsertCheckpoint(old, off) == IF off > old THEN off ELSE old
=============================================================================
