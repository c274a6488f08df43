----------------------- MODULE ChangelogReplicaProofs -----------------------
(***************************************************************************)
(* Type correctness of ChangelogReplica, for every set of partitions and   *)
(* tasks, all bounds, and whatever rules the host keeps.  One lemma for     *)
(* each action: AppendTyped and HookTyped say what the steps of an append   *)
(* and of a hook keep typed, and the last lemmas put the two together.      *)
(***************************************************************************)
EXTENDS ChangelogReplica, TLAPS

USE NoTPAssumption, BatchSizeAssumption

(* mark_restoring, mark_ready, mark_ready_partial and mark_revoked         *)
(* (_state.py) leave an entry an entry.                                    *)
LEMMA EntryMarked ==
  ASSUME NEW e \in Entries, NEW s \in Statuses
  PROVE  Marked(e, s) \in Entries
  BY DEF Marked, Entries

(* So do the write-backs record_applied, record_clamped and                *)
(* record_log_end, and the seeding of a stored checkpoint.                 *)
LEMMA EntryRecorded ==
  ASSUME NEW e \in Entries, NEW off \in Offsets
  PROVE  /\ RecordApplied(e, off) \in Entries
         /\ RecordClamped(e, off) \in Entries
         /\ RecordLogEnd(e, off) \in Entries
         /\ SeedEntry(e, off) \in Entries
  BY DEF Touched, RecordApplied, RecordClamped, RecordLogEnd, SeedEntry,
         Entries, Statuses, Offsets, NoOffset

(* A log offset is one a checkpoint or a cached log end can hold.          *)
LEMMA NatIsOffset == \A n \in Nat : n \in Offsets
  BY DEF Offsets, NoOffset

(* A log end offset is a natural number.                                   *)
LEMMA LogEndNat == TypeOK => \A tp \in TPs : LogEnd(tp) \in Nat
  BY DEF TypeOK, LogEnd

(* The state before the first start() has its type.                        *)
LEMMA InitTypeOK == Init => TypeOK
<1> SUFFICES ASSUME Init PROVE TypeOK
  OBVIOUS
<1> USE DEF Init
<1>1. log \in [TPs -> Seq(LogRecords)] /\ logStart \in [TPs -> Nat]
  OBVIOUS
<1>2. ckpt \in [TPs -> Offsets] /\ entry \in [TPs -> Entries]
  BY DEF Unseen, Entries, Statuses, Offsets, NoOffset
<1>3. app \in [Tasks -> AppType] /\ AppShape
  BY DEF AppType, AppShape, AppPcs, IdleApp, Offsets, NoOffset
<1>4. cb \in CbType
  BY DEF CbType, IdleCb, Offsets, NoOffset
<1>5. CbShape
  BY DEF CbShape, IdleCb, ReplayPcs
<1> QED
  BY <1>1, <1>2, <1>3, <1>4, <1>5 DEF TypeOK

-----------------------------------------------------------------------------
(* The steps of an append. *)

(* What they may change keeps its type. *)
AppendTyped ==
  /\ log' \in [TPs -> Seq(LogRecords)]
  /\ logStart' = logStart
  /\ owned' = owned
  /\ \A r \in rows' : r \in [tp : TPs, id : Nat, off : Nat]
  /\ ckpt' \in [TPs -> Offsets]
  /\ entry' \in [TPs -> Entries]
  /\ app' \in [Tasks -> AppType]
  /\ AppShape'
  /\ minted' \in Nat

(* append() up to its produce keeps the types.                             *)
LEMMA TypeStartAppend ==
  ASSUME TypeOK, NEW t \in Tasks, NEW tp \in TPs, StartAppend(t, tp)
  PROVE  AppendTyped
<1>1. app' \in [Tasks -> AppType]
  BY DEF TypeOK, StartAppend, AppType, AppPcs, Offsets, NoOffset
<1>2. AppShape'
  BY DEF TypeOK, AppShape, StartAppend, AppType
<1> QED
  BY <1>1, <1>2 DEF TypeOK, StartAppend, AppendTyped, brokerVars, tableVars

(* A record on the broker, and the offset it is acknowledged with, have    *)
(* their types.                                                            *)
LEMMA TypeProduce ==
  ASSUME TypeOK, NEW t \in Tasks, Produce(t)
  PROVE  AppendTyped
<1>1. app[t].tp \in TPs /\ app[t].id \in Nat
  BY DEF TypeOK, AppShape, Produce, AppType
<1>2. log' \in [TPs -> Seq(LogRecords)]
  BY <1>1 DEF TypeOK, Produce, LogRecord, LogRecords, Kinds
<1>3. app' \in [Tasks -> AppType]
  BY <1>1, LogEndNat, NatIsOffset, ZenonT(120) DEF TypeOK, Produce, AppType, AppPcs
<1>4. AppShape'
  BY <1>1, LogEndNat DEF TypeOK, AppShape, Produce, AppType
<1> QED
  BY <1>2, <1>3, <1>4 DEF TypeOK, Produce, AppendTyped, tableVars

(* ChangelogProduceError and StorageError leave the tables alone and       *)
(* forget the call.                                                        *)
LEMMA TypeAppendFails ==
  ASSUME TypeOK, NEW t \in Tasks, ProduceFails(t) \/ MaterializeFails(t)
  PROVE  AppendTyped
<1>1. app' = [app EXCEPT ![t] = IdleApp]
  BY DEF ProduceFails, MaterializeFails
<1>2. app' \in [Tasks -> AppType]
  BY <1>1 DEF TypeOK, IdleApp, AppType, AppPcs, Offsets, NoOffset
<1>3. AppShape'
  BY <1>1 DEF TypeOK, AppShape, IdleApp, AppType
<1> QED
  BY <1>2, <1>3 DEF TypeOK, ProduceFails, MaterializeFails, AppendTyped, brokerVars, tableVars

(* The transaction of apply_materialization writes a row and a checkpoint  *)
(* of their types.                                                         *)
LEMMA TypeCommitAppend ==
  ASSUME TypeOK, NEW t \in Tasks, CommitAppend(t)
  PROVE  AppendTyped
<1>1. app[t].tp \in TPs /\ app[t].id \in Nat /\ app[t].off \in Nat
  BY DEF TypeOK, AppShape, CommitAppend, AppType
<1>2. app' \in [Tasks -> AppType]
  BY ZenonT(120) DEF TypeOK, CommitAppend, AppType, AppPcs
<1>3. AppShape'
  BY <1>1 DEF TypeOK, AppShape, CommitAppend, AppType
<1>4. \A r \in rows' : r \in [tp : TPs, id : Nat, off : Nat]
  BY <1>1 DEF TypeOK, CommitAppend, InsertRecord, Row
<1>5. ckpt' \in [TPs -> Offsets]
  BY <1>1, NatIsOffset DEF TypeOK, CommitAppend, UpsertCheckpoint
<1> QED
  BY <1>2, <1>3, <1>4, <1>5 DEF TypeOK, CommitAppend, AppendTyped, brokerVars

(* The write-back of append() leaves its entry an entry.                   *)
LEMMA TypeAppendReturns ==
  ASSUME TypeOK, NEW t \in Tasks, AppendReturns(t)
  PROVE  AppendTyped
<1>1. app[t].tp \in TPs /\ app[t].off \in Offsets
  BY DEF TypeOK, AppShape, AppendReturns, AppType
<1>2. app' \in [Tasks -> AppType]
  BY DEF TypeOK, AppendReturns, IdleApp, AppType, AppPcs, Offsets, NoOffset
<1>3. AppShape'
  BY DEF TypeOK, AppShape, AppendReturns, IdleApp, AppType
<1>4. RecordApplied(entry[app[t].tp], app[t].off) \in Entries
  BY <1>1, EntryRecorded DEF TypeOK
<1>5. entry' \in [TPs -> Entries]
  BY <1>1, <1>4 DEF TypeOK, AppendReturns
<1> QED
  BY <1>2, <1>3, <1>5 DEF TypeOK, AppendReturns, AppendTyped, brokerVars, tableVars

-----------------------------------------------------------------------------
(* The steps of a hook. *)

(* What they may change keeps its type. *)
HookTyped ==
  /\ cb' \in CbType
  /\ CbShape'
  /\ entry' \in [TPs -> Entries]
  /\ \A r \in rows' : r \in [tp : TPs, id : Nat, off : Nat]
  /\ ckpt' \in [TPs -> Offsets]
  /\ owned' \subseteq TPs
  /\ UNCHANGED <<log, logStart>>

(* Between its awaits a hook works on one of the partitions it was given.  *)
LEMMA WorkingTp ==
  ASSUME TypeOK, cb.pc \notin {"idle", "ensure", "revoke"}
  PROVE  cb.tp \in TPs /\ cb.tp \in cb.todo
  BY DEF TypeOK, CbType, CbShape

(* Replacing the entry of the partition in hand keeps all entries typed.   *)
LEMMA TypeSetEntry ==
  ASSUME TypeOK, cb.tp \in TPs, NEW e \in Entries, SetEntry(e)
  PROVE  entry' \in [TPs -> Entries]
  BY DEF TypeOK, SetEntry

(* The loop condition, mark_ready and _force_stop lead to a typed call,    *)
(* whatever the locals they were reached with.                             *)
LEMMA TypeLoopHead ==
  ASSUME TypeOK, cb.tp \in TPs, NEW c \in CbType, NEW e \in Entries,
         c.tp \in c.todo, c.batch = <<>>, LoopHead(c, e) => c.leo \in Nat,
         LoopHead(c, e) \/ Finish(c, e) \/ ForceStop(c, e)
  PROVE  cb' \in CbType /\ CbShape' /\ entry' \in [TPs -> Entries]
<1>1. \/ LoopHead(c, e) /\ \E s \in {"poll", "clampRead"} : cb' = [c EXCEPT !.pc = s]
      \/ cb' = [c EXCEPT !.pc = "reveal"]
  BY DEF LoopHead, Finish, ForceStop
<1>2. cb' \in CbType /\ CbShape'
  BY <1>1 DEF CbType, CbShape, AssignPcs, ReplayPcs
<1>3. \/ SetEntry(e) \/ SetEntry(Marked(e, "READY")) \/ SetEntry(Marked(e, "READY_PARTIAL"))
  BY DEF LoopHead, Finish, ForceStop
<1>4. Marked(e, "READY") \in Entries /\ Marked(e, "READY_PARTIAL") \in Entries
  BY EntryMarked DEF Statuses
<1>5. entry' \in [TPs -> Entries]
  BY <1>3, <1>4, TypeSetEntry
<1> QED
  BY <1>2, <1>5

(* No call under way is a typed call with no batch.                        *)
LEMMA TypeIdleCb == IdleCb \in CbType /\ IdleCb.batch = <<>>
  BY DEF IdleCb, CbType, Offsets, NoOffset

(* The loop over `assigned` begins a partition with fresh locals.          *)
LEMMA TypeBegin ==
  ASSUME TypeOK, NEW tp \in TPs, EnterPartition(tp) \/ PassOver(tp)
  PROVE  HookTyped
<1>1. PICK s \in {"checkpoint", "lateEnd"} : cb' = Begin(tp, s)
  BY DEF EnterPartition, PassOver
<1>2. tp \in cb.todo
  BY DEF EnterPartition, PassOver
<1>3. cb' \in CbType
  BY <1>1, TypeIdleCb DEF TypeOK, Begin, CbType, AssignPcs
<1>4. CbShape'
  BY <1>1, <1>2 DEF Begin, IdleCb, CbShape, ReplayPcs
<1> QED
  BY <1>3, <1>4 DEF TypeOK, HookTyped, EnterPartition, PassOver, brokerVars, tableVars

(* A checkpoint read from SQLite, absent or not, is an offset.             *)
LEMMA TypeReadCheckpoint ==
  ASSUME TypeOK, ReadCheckpoint
  PROVE  HookTyped
<1>1. cb.tp \in TPs /\ cb.tp \in cb.todo
  BY WorkingTp DEF ReadCheckpoint
<1>2. ckpt[cb.tp] \in Offsets /\ entry[cb.tp] \in Entries
  BY <1>1 DEF TypeOK
<1>3. entry' \in [TPs -> Entries]
  BY <1>1, <1>2, EntryRecorded, TypeSetEntry DEF ReadCheckpoint
<1>4. cb' \in CbType /\ CbShape'
  BY <1>1, <1>2 DEF TypeOK, ReadCheckpoint, CbType, CbShape, AssignPcs, ReplayPcs
<1> QED
  BY <1>3, <1>4 DEF TypeOK, HookTyped, ReadCheckpoint, brokerVars, tableVars

(* end_offsets and the seek past a checkpoint: with one stored, checkpoint *)
(* + 1 is an offset a consumer can be sought to, -1 included.              *)
LEMMA TypeCaptureLogEnd ==
  ASSUME TypeOK, CaptureLogEnd
  PROVE  HookTyped
<1> DEFINE e == Marked(RecordLogEnd(entry[cb.tp], LogEnd(cb.tp)), "RESTORING")
           c == [cb EXCEPT !.leo = LogEnd(cb.tp)]
           d == [c EXCEPT !.position = cb.stored + 1, !.fetch = cb.stored + 1]
<1>1. cb.tp \in TPs /\ cb.tp \in cb.todo
  BY WorkingTp DEF CaptureLogEnd
<1>2. LogEnd(cb.tp) \in Nat /\ LogEnd(cb.tp) \in Offsets
  BY <1>1, LogEndNat, NatIsOffset
<1>3. RecordLogEnd(entry[cb.tp], LogEnd(cb.tp)) \in Entries
  BY <1>1, <1>2, EntryRecorded DEF TypeOK
<1>4. e \in Entries
  BY <1>3, EntryMarked DEF Statuses
<1>5. c \in CbType /\ c.tp \in c.todo /\ c.batch = <<>>
  BY <1>1, <1>2 DEF TypeOK, CaptureLogEnd, CbType, CbShape
<1>6. CASE cb.stored = NoOffset
  <2>1. cb' = [c EXCEPT !.pc = "seek"] /\ SetEntry(e)
    BY <1>6 DEF CaptureLogEnd
  <2>2. cb' \in CbType /\ CbShape'
    BY <2>1, <1>2, <1>5 DEF TypeOK, CbType, CbShape, AssignPcs, ReplayPcs
  <2>3. entry' \in [TPs -> Entries]
    BY <2>1, <1>1, <1>4, TypeSetEntry
  <2> QED
    BY <2>2, <2>3 DEF TypeOK, HookTyped, CaptureLogEnd, brokerVars, tableVars
<1>7. CASE cb.stored # NoOffset
  <2>1. cb.stored + 1 \in Nat
    BY <1>7 DEF TypeOK, CbType, Offsets, NoOffset
  <2>2. d \in CbType /\ d.tp \in d.todo /\ d.batch = <<>> /\ d.leo \in Nat
    BY <1>2, <1>5, <2>1 DEF TypeOK, CbType
  <2>3. LoopHead(d, e)
    BY <1>7 DEF CaptureLogEnd
  <2>4. cb' \in CbType /\ CbShape' /\ entry' \in [TPs -> Entries]
    BY <2>2, <2>3, <1>1, <1>4, TypeLoopHead
  <2> QED
    BY <2>4 DEF TypeOK, HookTyped, CaptureLogEnd, brokerVars, tableVars
<1> QED
  BY <1>6, <1>7

(* seek_to_beginning, at a cold start or after a reset.                    *)
LEMMA TypeSeek ==
  ASSUME TypeOK, SeekToBeginning \/ ResetToBeginning
  PROVE  HookTyped
<1>1. cb.tp \in TPs /\ cb.tp \in cb.todo
  BY WorkingTp DEF SeekToBeginning, ResetToBeginning
<1>2. cb.batch = <<>> /\ cb.leo \in Nat
  BY DEF TypeOK, CbShape, ReplayPcs, SeekToBeginning, ResetToBeginning
<1>3. logStart[cb.tp] \in Nat /\ entry[cb.tp] \in Entries
  BY <1>1 DEF TypeOK
<1>4. cb' \in CbType /\ CbShape' /\ entry' \in [TPs -> Entries]
  <2>1. CASE SeekToBeginning
    <3> DEFINE c == [cb EXCEPT !.position = 0, !.fetch = logStart[cb.tp]]
    <3>1. c \in CbType /\ c.tp \in c.todo /\ c.batch = <<>> /\ c.leo \in Nat
      BY <1>1, <1>2, <1>3 DEF TypeOK, CbType
    <3>2. LoopHead(c, entry[cb.tp])
      BY <2>1 DEF SeekToBeginning
    <3> QED
      BY <1>1, <1>3, <3>1, <3>2, TypeLoopHead
  <2>2. CASE ResetToBeginning
    <3> DEFINE c == [cb EXCEPT !.fetch = logStart[cb.tp], !.position = cb.log_start,
                               !.reset = TRUE, !.replayed = FALSE]
    <3>1. c \in CbType /\ c.tp \in c.todo /\ c.batch = <<>> /\ c.leo \in Nat
      BY <1>1, <1>2, <1>3 DEF TypeOK, CbType
    <3>2. LoopHead(c, entry[cb.tp]) \/ ForceStop(c, entry[cb.tp])
      BY <2>2 DEF ResetToBeginning
    <3> QED
      BY <1>1, <1>3, <3>1, <3>2, TypeLoopHead
  <2> QED
    BY <2>1, <2>2
<1> QED
  BY <1>4 DEF TypeOK, HookTyped, SeekToBeginning, ResetToBeginning, brokerVars, tableVars

(* A poll returns records of the changelog, at least one.                  *)
LEMMA TypePollBatch ==
  ASSUME TypeOK, NEW n \in 1..BatchSize, PollBatch(n)
  PROVE  HookTyped
<1>1. cb.tp \in TPs /\ cb.tp \in cb.todo
  BY WorkingTp DEF PollBatch
<1>2. log[cb.tp] \in Seq(LogRecords) /\ cb.fetch \in Nat /\ n \in Nat \ {0}
  BY <1>1 DEF TypeOK, CbType
<1>3. cb.fetch + n <= Len(log[cb.tp])
  BY DEF PollBatch, LogEnd
<1> DEFINE batch == SubSeq(log[cb.tp], cb.fetch + 1, cb.fetch + n)
<1>4. batch \in Seq(LogRecords) /\ Len(batch) = n
  BY <1>2, <1>3, SMTT(60)
<1>5. batch # <<>>
  BY <1>2, <1>4
<1>6. cb.fetch + n \in Nat /\ cb.leo \in Nat
  BY <1>2 DEF TypeOK, CbShape, ReplayPcs, PollBatch
<1>7. cb' = [cb EXCEPT !.pc = "commit", !.lo = cb.fetch, !.fetch = cb.fetch + n, !.batch = batch]
  BY DEF PollBatch
<1> HIDE DEF batch
<1>8. cb' \in CbType
  BY <1>2, <1>4, <1>6, <1>7 DEF TypeOK, CbType, AssignPcs, ReplayPcs
<1>9. CbShape'
  BY <1>1, <1>5, <1>6, <1>7 DEF TypeOK, CbType, CbShape
<1> QED
  BY <1>8, <1>9 DEF TypeOK, HookTyped, PollBatch, brokerVars, tableVars

(* A poll that returns nothing or raises OffsetOutOfRangeError.            *)
LEMMA TypePollNothing ==
  ASSUME TypeOK, PollEmpty \/ PollOutOfRange
  PROVE  HookTyped
<1>1. cb.tp \in TPs /\ cb.tp \in cb.todo
  BY WorkingTp DEF PollEmpty, PollOutOfRange
<1>2. cb \in CbType /\ cb.batch = <<>> /\ entry[cb.tp] \in Entries /\ cb.leo \in Nat
  BY <1>1 DEF TypeOK, CbShape, ReplayPcs, PollEmpty, PollOutOfRange
<1>3. cb' \in CbType /\ CbShape' /\ entry' \in [TPs -> Entries]
  <2>1. CASE PollEmpty /\ cb.expired
    BY <1>1, <1>2, <2>1, TypeLoopHead DEF PollEmpty
  <2>2. CASE PollEmpty /\ ~cb.expired
    BY <2>2 DEF PollEmpty, TypeOK, CbShape
  <2>3. CASE PollOutOfRange
    BY <1>1, <1>2, <2>3 DEF PollOutOfRange, TypeOK, CbType, CbShape, AssignPcs, ReplayPcs
  <2> QED
    BY <2>1, <2>2, <2>3
<1> QED
  BY <1>3 DEF TypeOK, HookTyped, PollEmpty, PollOutOfRange, brokerVars, tableVars

(* beginning_offsets returns an offset.                                    *)
LEMMA TypeReadLogStart ==
  ASSUME TypeOK, ReadLogStart
  PROVE  HookTyped
<1>1. cb.tp \in TPs /\ cb.tp \in cb.todo
  BY WorkingTp DEF ReadLogStart
<1>2. logStart[cb.tp] \in Nat
  BY <1>1 DEF TypeOK
<1>3. cb' \in CbType /\ CbShape'
  BY <1>1, <1>2 DEF ReadLogStart, TypeOK, CbType, CbShape, AssignPcs, ReplayPcs
<1> QED
  BY <1>3 DEF TypeOK, HookTyped, ReadLogStart, brokerVars, tableVars

(* The last offset of a batch exists: materialization never sees an empty  *)
(* one.                                                                    *)
LEMMA BatchMaxNat ==
  ASSUME TypeOK, cb.pc \in {"commit", "writeBack"}
  PROVE  BatchMax(cb) \in Nat
<1>1. cb.batch \in Seq(LogRecords) /\ cb.batch # <<>> /\ cb.lo \in Nat
  BY DEF TypeOK, CbType, CbShape
<1>2. Len(cb.batch) \in Nat \ {0}
  BY <1>1
<1> QED
  BY <1>1, <1>2 DEF BatchMax

(* The transaction of _materialize_batch writes rows and a checkpoint of   *)
(* their types.                                                            *)
LEMMA TypeCommitBatch ==
  ASSUME TypeOK, CommitBatch
  PROVE  HookTyped
<1>1. cb.tp \in TPs /\ cb.tp \in cb.todo
  BY WorkingTp DEF CommitBatch
<1>2. BatchMax(cb) \in Nat
  BY BatchMaxNat DEF CommitBatch
<1>3. cb.batch \in Seq(LogRecords) /\ cb.lo \in Nat
  BY DEF TypeOK, CbType
<1>4. \A i \in NewRecords(rows, cb.batch) :
        Row(cb.tp, cb.batch[i].id, cb.lo + i - 1) \in [tp : TPs, id : Nat, off : Nat]
  <2> SUFFICES ASSUME NEW i \in NewRecords(rows, cb.batch)
               PROVE  Row(cb.tp, cb.batch[i].id, cb.lo + i - 1) \in [tp : TPs, id : Nat, off : Nat]
    OBVIOUS
  <2>1. i \in DOMAIN cb.batch
    BY DEF NewRecords
  <2>2. i \in Nat \ {0} /\ cb.batch[i] \in LogRecords
    BY <1>3, <2>1
  <2> QED
    BY <1>1, <1>3, <2>2 DEF LogRecords, Row
<1>5. \A r \in rows' : r \in [tp : TPs, id : Nat, off : Nat]
  BY <1>4 DEF TypeOK, CommitBatch, InsertBatch
<1>6. ckpt' \in [TPs -> Offsets]
  BY <1>1, <1>2, NatIsOffset DEF TypeOK, CommitBatch, UpsertCheckpoint
<1>7. cb' \in CbType /\ CbShape'
  BY <1>1 DEF CommitBatch, TypeOK, CbType, CbShape, AssignPcs, ReplayPcs
<1> QED
  BY <1>5, <1>6, <1>7 DEF TypeOK, HookTyped, CommitBatch, brokerVars

(* After a batch the position is one past its last record.                 *)
LEMMA TypeWriteBack ==
  ASSUME TypeOK, WriteBack
  PROVE  HookTyped
<1> DEFINE e == RecordApplied(entry[cb.tp], BatchMax(cb))
           c == [cb EXCEPT !.position = BatchMax(cb) + 1, !.replayed = TRUE,
                           !.lo = 0, !.batch = <<>>]
<1>1. cb.tp \in TPs /\ cb.tp \in cb.todo
  BY WorkingTp DEF WriteBack
<1>2. BatchMax(cb) \in Nat /\ BatchMax(cb) \in Offsets
  BY BatchMaxNat, NatIsOffset DEF WriteBack
<1>3. e \in Entries
  BY <1>1, <1>2, EntryRecorded DEF TypeOK
<1>4. BatchMax(cb) + 1 \in Nat /\ cb.leo \in Nat
  BY <1>2 DEF TypeOK, CbShape, ReplayPcs, WriteBack
<1> HIDE DEF e
<1>5. c \in CbType /\ c.tp \in c.todo /\ c.batch = <<>> /\ c.leo \in Nat
  <2>1. cb \in CbType /\ <<>> \in Seq(LogRecords)
    BY DEF TypeOK
  <2>2. c \in CbType
    BY <1>4, <2>1 DEF CbType
  <2>3. c.tp \in c.todo /\ c.batch = <<>> /\ c.leo \in Nat
    BY <1>1, <1>4, <2>1 DEF CbType
  <2> QED
    BY <2>2, <2>3
<1>6. LoopHead(c, e) \/ ForceStop(c, e)
  BY DEF WriteBack, e
<1>7. cb' \in CbType /\ CbShape' /\ entry' \in [TPs -> Entries]
  BY <1>1, <1>3, <1>5, <1>6, TypeLoopHead
<1> QED
  BY <1>7 DEF TypeOK, HookTyped, WriteBack, brokerVars, tableVars

(* _apply_post_reset_clamps writes an offset, -1 included.                 *)
LEMMA TypeClamps ==
  ASSUME TypeOK, ClampRead \/ ClampCommit \/ ClampWriteBack
  PROVE  HookTyped
<1>1. cb.tp \in TPs /\ cb.tp \in cb.todo
  BY WorkingTp DEF ClampRead, ClampCommit, ClampWriteBack
<1>2. /\ cb \in CbType /\ cb.batch = <<>> /\ entry[cb.tp] \in Entries
      /\ cb.target \in Offsets /\ cb.leo \in Nat
  BY <1>1 DEF TypeOK, CbType, CbShape, ReplayPcs, ClampRead, ClampCommit, ClampWriteBack
<1>3. CASE ClampRead
  <2>1. ClampTarget(cb, ckpt[cb.tp]) \in Offsets
    BY <1>2 DEF CbType, ClampTarget, Offsets, NoOffset
  <2>2. CASE ClampTarget(cb, ckpt[cb.tp]) = NoOffset
    <3>1. Finish(cb, entry[cb.tp])
      BY <1>3, <2>2 DEF ClampRead
    <3>2. cb' \in CbType /\ CbShape' /\ entry' \in [TPs -> Entries]
      BY <3>1, <1>1, <1>2, TypeLoopHead
    <3> QED
      BY <3>2, <1>3 DEF TypeOK, HookTyped, ClampRead, brokerVars, tableVars
  <2>3. CASE ClampTarget(cb, ckpt[cb.tp]) # NoOffset
    <3>1. cb' = [cb EXCEPT !.pc = "clampCommit", !.target = ClampTarget(cb, ckpt[cb.tp])]
          /\ entry' = entry
      BY <1>3, <2>3 DEF ClampRead
    <3>2. cb' \in CbType /\ CbShape'
      BY <3>1, <1>1, <1>2, <2>1 DEF CbType, CbShape, AssignPcs, ReplayPcs
    <3> QED
      BY <3>1, <3>2, <1>3 DEF TypeOK, HookTyped, ClampRead, brokerVars, tableVars
  <2> QED
    BY <2>2, <2>3
<1>4. CASE ClampCommit
  <2>1. cb' \in CbType /\ CbShape'
    BY <1>4, <1>1, <1>2 DEF ClampCommit, CbType, CbShape, AssignPcs, ReplayPcs
  <2> QED
    BY <1>4, <1>2, <2>1 DEF TypeOK, HookTyped, ClampCommit, brokerVars
<1>5. CASE ClampWriteBack
  <2>1. RecordClamped(entry[cb.tp], cb.target) \in Entries
    BY <1>2, EntryRecorded
  <2>2. cb' \in CbType /\ CbShape' /\ entry' \in [TPs -> Entries]
    BY <1>5, <1>1, <1>2, <2>1, TypeLoopHead DEF ClampWriteBack
  <2> QED
    BY <1>5, <2>2 DEF TypeOK, HookTyped, ClampWriteBack, brokerVars, tableVars
<1> QED
  BY <1>3, <1>4, <1>5

(* After the last partition the hook returns; before it, the next one      *)
(* begins.                                                                 *)
LEMMA DoneShape ==
  ASSUME NEW next \in {"ensure", "revoke"}, NEW c \in CbType, c.tp \in c.todo
  PROVE  /\ Done(c, next) \in CbType
         /\ Done(c, next).pc = "idle" <=> Done(c, next).todo = {}
         /\ Done(c, next).pc \in {"idle", next}
         /\ Done(c, next).batch = <<>>
         /\ Done(c, next).todo = c.todo \ {c.tp}
<1>1. CASE c.todo = {c.tp}
  BY <1>1, TypeIdleCb DEF Done, IdleCb
<1>2. CASE c.todo # {c.tp}
  <2>1. Done(c, next) = [IdleCb EXCEPT !.pc = next, !.todo = c.todo \ {c.tp},
                                       !.first = c.first, !.expired = c.expired]
    BY <1>2 DEF Done
  <2>2. Done(c, next) \in CbType
    BY <2>1, TypeIdleCb, ZenonT(120) DEF CbType, AssignPcs, RevokePcs
  <2>3. c.todo \ {c.tp} # {}
    BY <1>2
  <2> QED
    BY <2>1, <2>2, <2>3 DEF IdleCb
<1> QED
  BY <1>1, <1>2

(* Either way the call is typed and in shape.                              *)
LEMMA TypeDone ==
  ASSUME TypeOK, NEW next \in {"ensure", "revoke"}, NEW c \in CbType, c.tp \in c.todo,
         cb' = Done(c, next)
  PROVE  cb' \in CbType /\ CbShape'
  BY DoneShape DEF CbShape, ReplayPcs

(* The reveal of a partition of the call.                                  *)
LEMMA TypeReveal ==
  ASSUME TypeOK, Reveal
  PROVE  HookTyped
<1>1. cb.tp \in TPs /\ cb.tp \in cb.todo
  BY WorkingTp DEF Reveal
<1>2. cb' \in CbType /\ CbShape'
  BY <1>1, TypeDone DEF TypeOK, Reveal
<1> QED
  BY <1>1, <1>2 DEF TypeOK, HookTyped, Reveal, brokerVars

(* _reveal_partial_unreached keeps the types.                              *)
LEMMA TypeLate ==
  ASSUME TypeOK, LateLogEnd \/ LateReadCheckpoint
  PROVE  HookTyped
<1>1. cb.tp \in TPs /\ cb.tp \in cb.todo
  BY WorkingTp DEF LateLogEnd, LateReadCheckpoint
<1>2. cb \in CbType /\ cb.batch = <<>> /\ entry[cb.tp] \in Entries /\ ckpt[cb.tp] \in Offsets
  BY <1>1 DEF TypeOK, CbShape, LateLogEnd, LateReadCheckpoint
<1>3. CASE LateLogEnd
  <2>1. LogEnd(cb.tp) \in Nat /\ LogEnd(cb.tp) \in Offsets
    BY <1>1, LogEndNat, NatIsOffset
  <2>2. cb' \in CbType /\ CbShape'
    BY <1>1, <1>2, <1>3, <2>1 DEF LateLogEnd, CbType, CbShape, AssignPcs, ReplayPcs
  <2>3. entry' \in [TPs -> Entries]
    BY <1>1, <1>2, <1>3, <2>1, EntryRecorded, TypeSetEntry DEF LateLogEnd
  <2> QED
    BY <1>3, <2>2, <2>3 DEF TypeOK, HookTyped, LateLogEnd, brokerVars, tableVars
<1>4. CASE LateReadCheckpoint
  <2>1. SeedEntry(entry[cb.tp], ckpt[cb.tp]) \in Entries
    BY <1>2, EntryRecorded
  <2>2. ~LoopHead(cb, SeedEntry(entry[cb.tp], ckpt[cb.tp])) \/ cb.leo \in Nat
    BY <1>4 DEF LateReadCheckpoint, LoopHead, ForceStop, Finish, TypeOK, CbType
  <2>3. cb' \in CbType /\ CbShape' /\ entry' \in [TPs -> Entries]
    BY <1>1, <1>2, <1>4, <2>1, <2>2, TypeLoopHead DEF LateReadCheckpoint
  <2> QED
    BY <1>4, <2>3 DEF TypeOK, HookTyped, LateReadCheckpoint, brokerVars, tableVars
<1> QED
  BY <1>3, <1>4

(* on_partitions_revoked keeps the types, for a partition it skips too.    *)
LEMMA TypeRevoke ==
  ASSUME TypeOK,
         (\E tp \in TPs : SkipRevoke(tp) \/ RevokeCommit(tp)) \/ RevokeMark
  PROVE  HookTyped
<1>1. ASSUME NEW tp \in TPs, SkipRevoke(tp)
      PROVE  HookTyped
  <2>1. [cb EXCEPT !.tp = tp] \in CbType /\ tp \in cb.todo
    BY <1>1 DEF TypeOK, CbType, SkipRevoke
  <2>2. [cb EXCEPT !.tp = tp].tp \in [cb EXCEPT !.tp = tp].todo
    BY <2>1 DEF TypeOK, CbType
  <2>3. cb' \in CbType /\ CbShape'
    BY <1>1, <2>1, <2>2, TypeDone DEF SkipRevoke
  <2> QED
    BY <1>1, <2>3 DEF TypeOK, HookTyped, SkipRevoke, brokerVars, tableVars
<1>2. ASSUME NEW tp \in TPs, RevokeCommit(tp)
      PROVE  HookTyped
  <2>1. cb' \in CbType /\ CbShape'
    BY <1>2 DEF TypeOK, CbType, CbShape, RevokeCommit, RevokePcs, ReplayPcs
  <2> QED
    BY <1>2, <2>1 DEF TypeOK, HookTyped, RevokeCommit, brokerVars
<1>3. CASE RevokeMark
  <2>1. cb.tp \in TPs /\ cb.tp \in cb.todo
    BY <1>3, WorkingTp DEF RevokeMark
  <2>2. Marked(entry[cb.tp], "STANDBY") \in Entries
    BY <2>1, EntryMarked DEF TypeOK, Statuses
  <2>3. entry' \in [TPs -> Entries]
    BY <1>3, <2>1, <2>2, TypeSetEntry DEF RevokeMark
  <2>4. cb' \in CbType /\ CbShape'
    BY <1>3, <2>1, TypeDone DEF TypeOK, RevokeMark
  <2> QED
    BY <1>3, <2>3, <2>4 DEF TypeOK, HookTyped, RevokeMark, brokerVars, tableVars
<1> QED
  BY <1>1, <1>2, <1>3

(* Every step of a hook keeps the types.                                   *)
LEMMA TypeHookStep ==
  ASSUME TypeOK, HookStep
  PROVE  HookTyped
  BY TypeBegin, TypeReadCheckpoint, TypeCaptureLogEnd, TypeSeek, TypePollBatch,
     TypePollNothing, TypeReadLogStart, TypeCommitBatch, TypeWriteBack, TypeClamps,
     TypeReveal, TypeLate, TypeRevoke
     DEF HookStep, Replay

-----------------------------------------------------------------------------
(* Type correctness of the whole. *)

(* What an append keeps typed, together with what it leaves alone, is      *)
(* everything.                                                             *)
LEMMA TypeHostAndHook ==
  ASSUME TypeOK, AppendTyped, UNCHANGED <<cb, up>>, claimed' \subseteq TPs, dirty' \subseteq TPs
  PROVE  TypeOK'
<1>1. CbShape'
  BY DEF TypeOK, CbShape
<1> QED
  BY <1>1 DEF TypeOK, AppendTyped

(* And so for a hook.                                                      *)
LEMMA TypeHookAndHost ==
  ASSUME TypeOK, HookTyped, UNCHANGED <<app, minted, up>>, claimed' \subseteq TPs, dirty' \subseteq TPs
  PROVE  TypeOK'
<1>1. AppShape'
  BY DEF TypeOK, AppShape
<1> QED
  BY <1>1 DEF TypeOK, HookTyped

(* Every call of the host, and every failure, keeps the types.             *)
LEMMA TypeHostStep ==
  ASSUME TypeOK, Host
  PROVE  TypeOK'
<1>1. ASSUME NEW t \in Tasks, NEW tp \in TPs, HostAppends(t, tp)
      PROVE  TypeOK'
  BY <1>1, TypeStartAppend, TypeHostAndHook DEF HostAppends, hostVars, TypeOK
<1>2. ASSUME NEW t \in Tasks, AppendProduceFails(t) \/ AppendStorageFails(t)
      PROVE  TypeOK'
  <2>1. app[t].tp \in TPs
    BY <1>2 DEF TypeOK, AppShape, AppendProduceFails, AppendStorageFails, ProduceFails,
                MaterializeFails, AppType
  <2>2. claimed' \subseteq TPs /\ dirty' \subseteq TPs /\ UNCHANGED <<cb, up>>
    BY <1>2, <2>1 DEF TypeOK, AppendProduceFails, AppendStorageFails
  <2>3. AppendTyped
    BY <1>2, TypeAppendFails DEF AppendProduceFails, AppendStorageFails
  <2> QED
    BY <2>2, <2>3, TypeHostAndHook
<1>3. ASSUME NEW S \in SUBSET TPs, HostAssigns(S) \/ HostRevokes(S)
      PROVE  TypeOK'
  <2>1. S # {}
    BY <1>3 DEF HostAssigns, HostRevokes, StartAssign, StartRevoke
  <2>2. \/ cb' = [IdleCb EXCEPT !.pc = "ensure", !.todo = S, !.first = TRUE]
        \/ cb' = [IdleCb EXCEPT !.pc = "revoke", !.todo = S]
    BY <1>3 DEF HostAssigns, HostRevokes, StartAssign, StartRevoke
  <2>3. cb' \in CbType /\ CbShape'
    <3>1. cb' \in CbType
      <4>1. [IdleCb EXCEPT !.pc = "ensure", !.todo = S, !.first = TRUE] \in CbType
        BY TypeIdleCb DEF CbType, AssignPcs
      <4>2. [IdleCb EXCEPT !.pc = "revoke", !.todo = S] \in CbType
        BY TypeIdleCb DEF CbType, RevokePcs
      <4> QED
        BY <2>2, <4>1, <4>2
    <3>2. CbShape'
      BY <2>1, <2>2, ZenonT(120) DEF IdleCb, CbShape, ReplayPcs
    <3> QED
      BY <3>1, <3>2
  <2>4. HookTyped
    BY <1>3, <2>3 DEF TypeOK, HookTyped, HostAssigns, HostRevokes, StartAssign,
                            StartRevoke, brokerVars, tableVars
  <2>5. UNCHANGED <<app, minted, up>> /\ claimed' \subseteq TPs /\ dirty' \subseteq TPs
    BY <1>3 DEF TypeOK, HostAssigns, HostRevokes, appVars
  <2> QED
    BY <2>4, <2>5, TypeHookAndHost
<1>4. CASE HookFails
  <2>1. cb' = IdleCb
    BY <1>4 DEF HookFails, AbortHook
  <2>2. cb' \in CbType /\ CbShape'
    BY <2>1, TypeIdleCb DEF IdleCb, CbShape, ReplayPcs
  <2>3. HookTyped
    BY <1>4, <2>2 DEF TypeOK, HookTyped, HookFails, AbortHook, brokerVars, tableVars
  <2>4. UNCHANGED <<app, minted, up>> /\ claimed' \subseteq TPs /\ dirty' \subseteq TPs
    BY <1>4 DEF TypeOK, HookFails, appVars
  <2> QED
    BY <2>3, <2>4, TypeHookAndHost
<1> QED
  BY <1>1, <1>2, <1>3, <1>4 DEF Host

(* Records of other writers, retention and a lost tail keep the changelogs *)
(* typed.                                                                  *)
LEMMA TypeWorldStep ==
  ASSUME TypeOK, World
  PROVE  TypeOK'
<1>1. log' \in [TPs -> Seq(LogRecords)] /\ logStart' \in [TPs -> Nat] /\ minted' \in Nat
  <2>1. ASSUME NEW tp \in TPs, ForeignWrites(tp)
        PROVE  log' \in [TPs -> Seq(LogRecords)] /\ logStart' = logStart /\ minted' = minted
    BY <2>1 DEF TypeOK, ForeignWrites, LogRecord, LogRecords, Kinds
  <2>2. ASSUME NEW tp \in TPs, Trim(tp)
        PROVE  log' = log /\ logStart' \in [TPs -> Nat] /\ minted' = minted
    <3>1. PICK start \in (logStart[tp] + 1)..LogEnd(tp) :
            logStart' = [logStart EXCEPT ![tp] = start]
      BY <2>2 DEF Trim
    <3>2. start \in Nat
      BY <3>1, LogEndNat DEF TypeOK
    <3> QED
      BY <2>2, <3>1, <3>2 DEF TypeOK, Trim
  <2>3. ASSUME NEW tp \in TPs, Regress(tp)
        PROVE  log' \in [TPs -> Seq(LogRecords)] /\ logStart' = logStart /\ minted' = minted
    <3>1. PICK n \in logStart[tp]..(LogEnd(tp) - 1) :
            log' = [log EXCEPT ![tp] = SubSeq(log[tp], 1, n)]
      BY <2>3 DEF Regress
    <3>2. log[tp] \in Seq(LogRecords) /\ n \in Nat /\ n <= Len(log[tp])
      BY <3>1 DEF TypeOK, LogEnd
    <3>3. SubSeq(log[tp], 1, n) \in Seq(LogRecords)
      BY <3>2
    <3> QED
      BY <2>3, <3>1, <3>3 DEF TypeOK, Regress
  <2>4. ASSUME NEW tp \in TPs, NEW kind \in {"record", "unknown"}, OtherOwnerWrites(tp, kind)
        PROVE  log' \in [TPs -> Seq(LogRecords)] /\ logStart' = logStart /\ minted' \in Nat
    BY <2>4 DEF TypeOK, OtherOwnerWrites, LogRecord, LogRecords, Kinds
  <2> QED
    BY <2>1, <2>2, <2>3, <2>4 DEF World, TypeOK
<1>2. UNCHANGED <<rows, ckpt, owned, entry, app, cb, up, claimed, dirty>>
  BY DEF World, ForeignWrites, OtherOwnerWrites, Trim, Regress, WorldKeeps, tableVars, hostVars
<1>3. AppShape' /\ CbShape'
  BY <1>2 DEF TypeOK, AppShape, CbShape
<1> QED
  BY <1>1, <1>2, <1>3 DEF TypeOK

(* Every step keeps the types.                                             *)
LEMMA TypeStep == TypeOK /\ [Next]_vars => TypeOK'
<1> SUFFICES ASSUME TypeOK, [Next]_vars PROVE TypeOK'
  OBVIOUS
<1>1. CASE StartStore
  <2>1. AppShape' /\ CbShape'
    BY <1>1 DEF StartStore, TypeOK, AppShape, CbShape, appVars
  <2> QED
    BY <1>1, <2>1 DEF StartStore, OwnedAtStart, TypeOK, brokerVars, appVars
<1>2. CASE Crash
  <2>1. cb' \in CbType /\ CbShape'
    BY <1>2, TypeIdleCb DEF Crash, CbShape, IdleCb, ReplayPcs
  <2>2. app' \in [Tasks -> AppType] /\ AppShape'
    BY <1>2 DEF Crash, AppType, AppShape, AppPcs, IdleApp, Offsets, NoOffset
  <2>3. entry' \in [TPs -> Entries]
    BY <1>2 DEF Crash, Unseen, Entries, Statuses, Offsets, NoOffset
  <2> QED
    BY <1>2, <2>1, <2>2, <2>3 DEF Crash, TypeOK, brokerVars, tableVars
<1>3. CASE Host
  BY <1>3, TypeHostStep
<1>4. ASSUME NEW t \in Tasks, AppendStep(t)
      PROVE  TypeOK'
  <2>1. AppendTyped
    BY <1>4, TypeProduce, TypeCommitAppend, TypeAppendReturns DEF AppendStep
  <2> QED
    BY <1>4, <2>1, TypeHostAndHook DEF AppendStep, hostVars, TypeOK
<1>5. CASE HookRuns
  <2>1. dirty' \subseteq TPs
    BY <1>5 DEF HookRuns, TypeOK
  <2> QED
    BY <1>5, <2>1, TypeHookStep, TypeHookAndHost DEF HookRuns, appVars, TypeOK
<1>6. CASE ClockTicks
  <2>1. cb' \in CbType /\ CbShape'
    BY <1>6 DEF ClockTicks, ClockExpires, TypeOK, CbType, CbShape
  <2>2. HookTyped
    BY <1>6, <2>1 DEF ClockTicks, ClockExpires, TypeOK, HookTyped, brokerVars, tableVars
  <2> QED
    BY <1>6, <2>2, TypeHookAndHost DEF ClockTicks, appVars, hostVars, TypeOK
<1>7. CASE World
  BY <1>7, TypeWorldStep
<1>8. CASE UNCHANGED vars
  <2>1. AppShape' /\ CbShape'
    BY <1>8 DEF vars, TypeOK, AppShape, CbShape
  <2> QED
    BY <1>8, <2>1 DEF vars, TypeOK
<1> QED
  BY <1>1, <1>2, <1>3, <1>4, <1>5, <1>6, <1>7, <1>8 DEF Next

(* Type correctness of the replica: every variable has its type, a call    *)
(* under way has a partition and, once acknowledged, an offset, and a      *)
(* hook's locals are set when its code reads them (_lifecycle.py and       *)
(* _write.py use `leo`, `batch_max` and `offset` unchecked).               *)
THEOREM TypeCorrect == Spec => []TypeOK
  BY InitTypeOK, TypeStep, PTL DEF Spec
=============================================================================
