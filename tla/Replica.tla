------------------------------ MODULE Replica ------------------------------
(***************************************************************************)
(* The state an append and a rebalance hook share: the changelogs on the   *)
(* broker, the SQLite tables of one instance, and its in-memory entries.   *)
(*                                                                         *)
(* A changelog is single-partition: log[tp] is its records in order, the   *)
(* record at offset o being log[tp][o + 1], and logStart[tp] the first     *)
(* offset retention has kept.                                              *)
(***************************************************************************)
EXTENDS Materialization, FiniteSets

CONSTANTS TPs,     \* the source topic-partitions
          NoTP     \* stands for "no partition"

ASSUME NoTPAssumption == NoTP \notin TPs

VARIABLES
  log,        \* log[tp]      : the changelog of tp, offset o at position o + 1
  logStart,   \* logStart[tp] : its log start offset
  rows,       \* _records
  ckpt,       \* partition_checkpoint: ckpt[tp], or NoOffset for no row
  owned,      \* _owned: the partitions the records view shows
  entry       \* PartitionStateMachine._entries

brokerVars == <<log, logStart>>
tableVars == <<rows, ckpt, owned>>

(* What _wire.classify tells apart: a KSQLite record of this format, one   *)
(* of a format_version this reader does not know, and anything else.       *)
Kinds == {"record", "unknown", "foreign"}

LogRecord(kind, id) == [kind |-> kind, id |-> id]
LogRecords == [kind : Kinds, id : Nat]

LogEnd(tp) == Len(log[tp])

(* The offsets the changelog of tp has held. *)
LogOffsets(tp) == 0..(LogEnd(tp) - 1)

(* The broker answers a fetch at this offset, with OffsetOutOfRange else. *)
InRange(tp, off) == logStart[tp] <= off /\ off <= LogEnd(tp)

(* The record at offset o of tp's changelog needs nothing more of this     *)
(* store: retention has dropped it, it is not KSQLite's, or it has a row.  *)
Applied(tp, o) ==
  \/ o < logStart[tp]
  \/ log[tp][o + 1].kind = "foreign"
  \/ \E r \in rows : r.tp = tp /\ r.id = log[tp][o + 1].id
=============================================================================
