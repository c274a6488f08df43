-------------------------- MODULE PartitionStates --------------------------
(***************************************************************************)
(* The in-memory partition bookkeeping of _state.py: one entry per         *)
(* topic-partition met in this process lifetime, and the operations of     *)
(* PartitionStateMachine on it.  The class stores what it is told; which   *)
(* transition is legal is up to the callers (PartitionLifecycle, Appender).*)
(*                                                                         *)
(* Python's None, for a checkpoint or a log end, is NoOffset.  It is below *)
(* every offset a checkpoint can hold: -1 is one of them, the clamp to     *)
(* log_start - 1 of an emptied log writes it.                              *)
(***************************************************************************)
EXTENDS Integers

NoOffset == -2

Statuses == {"UNSEEN", "RESTORING", "READY", "READY_PARTIAL", "STANDBY"}

Offsets == {n \in Int : n >= NoOffset}

Entries == [status : Statuses, ckpt : Offsets, leo : Offsets]

(* No entry at all: status_of() is None. *)
Unseen == [status |-> "UNSEEN", ckpt |-> NoOffset, leo |-> NoOffset]

(* _entry(): the first operation on a partition creates it as STANDBY. *)
Touched(e) == IF e.status = "UNSEEN" THEN [e EXCEPT !.status = "STANDBY"] ELSE e

(* mark_restoring, mark_ready, mark_ready_partial, mark_revoked. *)
Marked(e, status) == [e EXCEPT !.status = status]

(* record_applied: the monotonic write-back, None counting as lowest. *)
RecordApplied(e, off) ==
  [Touched(e) EXCEPT !.ckpt = IF off > e.ckpt THEN off ELSE e.ckpt]

(* record_clamped: the only write-back that may lower the checkpoint. *)
RecordClamped(e, off) == [Touched(e) EXCEPT !.ckpt = off]

RecordLogEnd(e, leo) == [Touched(e) EXCEPT !.leo = leo]

NextOffset(ckpt) == IF ckpt = NoOffset THEN 0 ELSE ckpt + 1

(* lag = LEO - (checkpoint + 1); None until a log end is cached. *)
Lag(e) == e.leo - NextOffset(e.ckpt)
=============================================================================
