----------------------- MODULE ReplicaCheckpointProofs -----------------------
(***************************************************************************)
(* The three copies of a checkpoint: the row of partition_checkpoint, the  *)
(* in-memory entry, and the locals a hook carries across its awaits.  How  *)
(* far they may drift apart, and what the host must not do for them to     *)
(* agree again.                                                            *)
(***************************************************************************)
EXTENDS ReplicaViewProofs

-----------------------------------------------------------------------------
(* Who writes the tables. *)

(* _records is written by the two materializations, partition_checkpoint    *)
(* by these and the clamp.                                                 *)
LEMMA TableWriters ==
  ASSUME [Next]_vars
  PROVE  \/ UNCHANGED <<rows, ckpt>>
         \/ HookRuns /\ (CommitBatch \/ ClampCommit)
         \/ \E t \in Tasks : AppendStep(t) /\ CommitAppend(t)
<1> USE DEF tableVars
<1>1. CASE StartStore \/ Crash \/ World \/ HookFails \/ ClockTicks \/ UNCHANGED vars
  BY <1>1 DEF StartStore, Crash, World, ForeignWrites, OtherOwnerWrites, Trim, Regress, WorldKeeps,
     HookFails, AbortHook, ClockTicks, ClockExpires, vars
<1>2. ASSUME NEW S \in SUBSET TPs, HostAssigns(S) \/ HostRevokes(S)
      PROVE  UNCHANGED <<rows, ckpt>>
  BY <1>2 DEF HostAssigns, HostRevokes, StartAssign, StartRevoke
<1>3. ASSUME NEW t \in Tasks, \/ AppendProduceFails(t) \/ AppendStorageFails(t)
                              \/ \E tp \in TPs : HostAppends(t, tp)
      PROVE  UNCHANGED <<rows, ckpt>>
  BY <1>3 DEF AppendProduceFails, AppendStorageFails, HostAppends, ProduceFails,
     MaterializeFails, StartAppend
<1>4. ASSUME NEW t \in Tasks, AppendStep(t)
      PROVE  UNCHANGED <<rows, ckpt>> \/ CommitAppend(t)
  BY <1>4 DEF AppendStep, Produce, AppendReturns
<1>5. CASE HookRuns
  <2>1. HookStep
    BY <1>5 DEF HookRuns
  <2> QED
    BY <1>5, <2>1 DEF HookStep, Replay, EnterPartition, PassOver, SkipRevoke, RevokeCommit,
       ReadCheckpoint, CaptureLogEnd, SeekToBeginning, PollBatch,
       PollEmpty, PollOutOfRange, ReadLogStart, ResetToBeginning, WriteBack,
       ClampRead, ClampWriteBack, LateLogEnd, LateReadCheckpoint, Reveal, RevokeMark
<1> QED
  BY <1>1, <1>2, <1>3, <1>4, <1>5 DEF Next, Host

OneEach(rs) == \A r1, r2 \in rs : r1.id = r2.id => r1 = r2

(* ON CONFLICT (message_id) DO NOTHING, for one row and for a batch that    *)
(* may repeat a message within itself.                                     *)
LEMMA InsertKeepsOne ==
  ASSUME NEW rs, OneEach(rs), NEW tp, NEW id, NEW off, NEW batch \in Seq(LogRecords)
  PROVE  /\ OneEach(InsertRecord(rs, tp, id, off))
         /\ OneEach(InsertBatch(rs, tp, off, batch))
<1> USE DEF OneEach
<1>1. OneEach(InsertRecord(rs, tp, id, off))
  BY DEF InsertRecord, StoredIds, Row
<1> DEFINE R(i) == Row(tp, batch[i].id, off + i - 1)
<1>2. ASSUME NEW i \in NewRecords(rs, batch), NEW j \in NewRecords(rs, batch), R(i).id = R(j).id
      PROVE  R(i) = R(j)
  <2>1. i \in 1..Len(batch) /\ j \in 1..Len(batch) /\ batch[i].id = batch[j].id
    BY <1>2 DEF NewRecords, Row
  <2>2. /\ \A k \in 1..(i - 1) : batch[k].kind = "record" => batch[k].id # batch[i].id
        /\ \A k \in 1..(j - 1) : batch[k].kind = "record" => batch[k].id # batch[j].id
        /\ batch[i].kind = "record" /\ batch[j].kind = "record"
    BY DEF NewRecords
  <2>3. ~(i < j) /\ ~(j < i)
    BY <2>1, <2>2
  <2>4. i = j
    BY <2>1, <2>3
  <2> QED
    BY <2>4
<1>3. ASSUME NEW r \in rs, NEW i \in NewRecords(rs, batch)
      PROVE  r.id # R(i).id
  BY DEF NewRecords, StoredIds, Row
<1>4. \A r \in InsertBatch(rs, tp, off, batch) : r \in rs \/ \E i \in NewRecords(rs, batch) : r = R(i)
  BY DEF InsertBatch
<1>5. OneEach(InsertBatch(rs, tp, off, batch))
  <2> HIDE DEF R
  <2> QED
    BY <1>2, <1>3, <1>4 DEF OneEach
<1> QED
  BY <1>1, <1>5

(* However often and in whatever order appends and replays meet a message,  *)
(* _records has one row for it (invariants I2/I4 of _schema.py).           *)
THEOREM OneRowEach == Spec => []OneRowPerMessage
<1>1. Init => OneRowPerMessage
  BY DEF Init, OneRowPerMessage
<1>2. TypeOK /\ OneRowPerMessage /\ [Next]_vars => OneRowPerMessage'
  <2> SUFFICES ASSUME TypeOK, OneRowPerMessage, [Next]_vars
               PROVE  OneRowPerMessage'
    OBVIOUS
  <2>1. cb.batch \in Seq(LogRecords) /\ OneEach(rows)
    BY DEF TypeOK, CbType, OneRowPerMessage, OneEach
  <2>2. CASE rows' = rows
    BY <2>2 DEF OneRowPerMessage
  <2>3. CASE CommitBatch
    <3>1. rows' = InsertBatch(rows, cb.tp, cb.lo, cb.batch)
      BY <2>3 DEF CommitBatch
    <3>2. OneEach(InsertBatch(rows, cb.tp, cb.lo, cb.batch))
      BY <2>1, InsertKeepsOne, Zenon
    <3> QED
      BY <3>1, <3>2 DEF OneRowPerMessage, OneEach
  <2>4. ASSUME NEW t \in Tasks, CommitAppend(t)
        PROVE  OneRowPerMessage'
    <3>1. rows' = InsertRecord(rows, app[t].tp, app[t].id, app[t].off)
      BY <2>4 DEF CommitAppend
    <3>2. OneEach(InsertRecord(rows, app[t].tp, app[t].id, app[t].off))
      BY <2>1, InsertKeepsOne, Zenon
    <3> QED
      BY <3>1, <3>2 DEF OneRowPerMessage, OneEach
  <2> QED
    BY <2>2, <2>3, <2>4, TableWriters DEF ClampCommit
<1> QED
  BY <1>1, <1>2, TypeCorrect, PTL DEF Spec

-----------------------------------------------------------------------------
(* What the steps of a replay make of its locals. *)

(* The locals with which CaptureLogEnd, SeekToBeginning, ResetToBeginning    *)
(* and WriteBack come to the loop condition.                               *)
AfterCapture == [cb EXCEPT !.leo = LogEnd(cb.tp), !.position = cb.stored + 1,
                           !.fetch = cb.stored + 1]
AfterSeek == [cb EXCEPT !.position = 0, !.fetch = logStart[cb.tp]]
AfterReset == [cb EXCEPT !.fetch = logStart[cb.tp], !.position = cb.log_start,
                         !.reset = TRUE, !.replayed = FALSE]
AfterBatch == [cb EXCEPT !.position = BatchMax(cb) + 1, !.replayed = TRUE,
                         !.lo = 0, !.batch = <<>>]

(* Where a replay with locals d goes from there, its entry left with        *)
(* checkpoint c and log end l.                                             *)
Looped(d, c, l) ==
  /\ cb' = [d EXCEPT !.pc = cb'.pc]
  /\ entry'[cb.tp].ckpt = c /\ entry'[cb.tp].leo = l
  /\ \/ cb'.pc = "poll" /\ d.position # d.leo
     \/ cb'.pc = "clampRead" /\ d.position = d.leo /\ d.reset
     \/ cb'.pc = "reveal" /\ d.position = d.leo /\ ~d.reset
     \/ cb'.pc = "reveal" /\ entry'[cb.tp].status = "READY_PARTIAL"

(* The loop condition, mark_ready and _force_stop write nothing to the      *)
(* entry but its status.                                                   *)
LEMMA LoopedHead ==
  ASSUME TypeOK, cb.tp \in TPs, NEW d \in CbType, NEW e \in Entries,
         LoopHead(d, e) \/ ForceStop(d, e)
  PROVE  Looped(d, e.ckpt, e.leo)
<1>1. /\ Marked(e, "READY").ckpt = e.ckpt /\ Marked(e, "READY").leo = e.leo
      /\ Marked(e, "READY_PARTIAL").ckpt = e.ckpt /\ Marked(e, "READY_PARTIAL").leo = e.leo
      /\ Marked(e, "READY_PARTIAL").status = "READY_PARTIAL"
  BY DEF Marked, Entries
<1>2. \A f : SetEntry(f) => entry'[cb.tp] = f
  BY DEF SetEntry, TypeOK
<1>3. \A s \in {"poll", "clampRead", "reveal"} : cb' = [d EXCEPT !.pc = s] => cb'.pc = s
  BY DEF CbType
<1>4. CASE ForceStop(d, e)
  BY <1>1, <1>2, <1>3, <1>4 DEF ForceStop, Looped
<1>5. CASE LoopHead(d, e)
  <2>1. CASE d.position # d.leo
    BY <1>2, <1>3, <1>5, <2>1 DEF LoopHead, Looped
  <2>2. CASE d.position = d.leo /\ d.reset
    BY <1>2, <1>3, <1>5, <2>2 DEF LoopHead, Looped
  <2>3. CASE d.position = d.leo /\ ~d.reset
    BY <1>1, <1>2, <1>3, <1>5, <2>3 DEF LoopHead, Finish, Looped
  <2> QED
    BY <2>1, <2>2, <2>3
<1> QED
  BY <1>4, <1>5

(* RecordApplied is monotonic, and the other write-backs keep what is not   *)
(* theirs (_state.py).                                                     *)
LEMMA RecordedFields ==
  ASSUME NEW e \in Entries, NEW off \in Offsets
  PROVE  /\ \A s : Marked(e, s).ckpt = e.ckpt /\ Marked(e, s).leo = e.leo
         /\ RecordApplied(e, off).ckpt = UpsertCheckpoint(e.ckpt, off)
         /\ RecordApplied(e, off).leo = e.leo
         /\ RecordClamped(e, off).ckpt = off /\ RecordClamped(e, off).leo = e.leo
         /\ RecordLogEnd(e, off).ckpt = e.ckpt /\ RecordLogEnd(e, off).leo = off
         /\ SeedEntry(e, off).ckpt = UpsertCheckpoint(e.ckpt, off)
  BY DEF Entries, Statuses, Offsets, NoOffset, Marked, RecordApplied, RecordClamped, RecordLogEnd,
         SeedEntry, Touched, UpsertCheckpoint

(* The four steps that reach the loop condition. *)
LEMMA ReplayLoops ==
  ASSUME TypeOK
  PROVE  /\ CaptureLogEnd => LET tp == cb.tp IN
              \/ /\ cb.stored = NoOffset
                 /\ cb' = [cb EXCEPT !.leo = LogEnd(tp), !.pc = "seek"]
                 /\ entry'[tp].ckpt = entry[tp].ckpt /\ entry'[tp].leo = LogEnd(tp)
              \/ /\ cb.stored # NoOffset /\ AfterCapture \in CbType
                 /\ Looped(AfterCapture, entry[tp].ckpt, LogEnd(tp))
         /\ SeekToBeginning =>
              AfterSeek \in CbType /\ Looped(AfterSeek, entry[cb.tp].ckpt, entry[cb.tp].leo)
         /\ ResetToBeginning =>
              AfterReset \in CbType /\ Looped(AfterReset, entry[cb.tp].ckpt, entry[cb.tp].leo)
         /\ WriteBack =>
              /\ AfterBatch \in CbType
              /\ Looped(AfterBatch, UpsertCheckpoint(entry[cb.tp].ckpt, BatchMax(cb)), entry[cb.tp].leo)
<1>0. cb \in CbType
  BY DEF TypeOK
<1>1. ASSUME cb.tp \in TPs
      PROVE  /\ entry[cb.tp] \in Entries /\ logStart[cb.tp] \in Nat
             /\ LogEnd(cb.tp) \in Offsets /\ LogEnd(cb.tp) \in Nat
  BY <1>1, LogEndNat, NatIsOffset DEF TypeOK
<1>2. ASSUME CaptureLogEnd
      PROVE  LET tp == cb.tp IN
              \/ /\ cb.stored = NoOffset
                 /\ cb' = [cb EXCEPT !.leo = LogEnd(tp), !.pc = "seek"]
                 /\ entry'[tp].ckpt = entry[tp].ckpt /\ entry'[tp].leo = LogEnd(tp)
              \/ /\ cb.stored # NoOffset /\ AfterCapture \in CbType
                 /\ Looped(AfterCapture, entry[tp].ckpt, LogEnd(tp))
  <2> DEFINE r == RecordLogEnd(entry[cb.tp], LogEnd(cb.tp))
             e == Marked(r, "RESTORING")
  <2>1. cb.tp \in TPs
    BY <1>2, WorkingTp DEF CaptureLogEnd
  <2>2. r \in Entries /\ r.ckpt = entry[cb.tp].ckpt /\ r.leo = LogEnd(cb.tp)
    BY <1>1, <2>1, EntryRecorded, RecordedFields
  <2>3. e \in Entries /\ e.ckpt = entry[cb.tp].ckpt /\ e.leo = LogEnd(cb.tp)
    BY <2>2, EntryMarked, RecordedFields, NatIsOffset DEF Statuses, Offsets, NoOffset
  <2>4. CASE cb.stored = NoOffset
    <3>1. SetEntry(e) /\ cb' = [cb EXCEPT !.leo = LogEnd(cb.tp), !.pc = "seek"]
      BY <1>0, <1>2, <2>4 DEF CaptureLogEnd, CbType
    <3>2. entry'[cb.tp] = e
      BY <2>1, <3>1 DEF SetEntry, TypeOK
    <3> HIDE DEF e, r
    <3> QED
      BY <2>3, <2>4, <3>1, <3>2
  <2>5. CASE cb.stored # NoOffset
    <3>1. LoopHead(AfterCapture, e)
      BY <1>0, <1>2, <2>5 DEF CaptureLogEnd, CbType, AfterCapture
    <3>2. cb.stored + 1 \in Nat
      BY <1>0, <2>5, SMTT(60) DEF CbType, Offsets, NoOffset
    <3>3. AfterCapture \in CbType
      BY <1>0, <1>1, <2>1, <3>2 DEF CbType, AfterCapture
    <3> HIDE DEF e, r
    <3>4. Looped(AfterCapture, e.ckpt, e.leo)
      BY <2>1, <2>3, <3>1, <3>3, LoopedHead
    <3> QED
      BY <2>3, <2>5, <3>3, <3>4
  <2> QED
    BY <2>4, <2>5
<1>3. ASSUME SeekToBeginning
      PROVE  AfterSeek \in CbType /\ Looped(AfterSeek, entry[cb.tp].ckpt, entry[cb.tp].leo)
  <2>1. cb.tp \in TPs
    BY <1>3, WorkingTp DEF SeekToBeginning
  <2>2. AfterSeek \in CbType
    BY <1>0, <1>1, <2>1 DEF CbType, AfterSeek
  <2>3. LoopHead(AfterSeek, entry[cb.tp])
    BY <1>3 DEF SeekToBeginning, AfterSeek
  <2> QED
    BY <1>1, <2>1, <2>2, <2>3, LoopedHead
<1>4. ASSUME ResetToBeginning
      PROVE  AfterReset \in CbType /\ Looped(AfterReset, entry[cb.tp].ckpt, entry[cb.tp].leo)
  <2>1. cb.tp \in TPs
    BY <1>4, WorkingTp DEF ResetToBeginning
  <2>2. AfterReset \in CbType
    BY <1>0, <1>1, <2>1 DEF CbType, AfterReset
  <2>3. LoopHead(AfterReset, entry[cb.tp]) \/ ForceStop(AfterReset, entry[cb.tp])
    BY <1>4 DEF ResetToBeginning, AfterReset
  <2> QED
    BY <1>1, <2>1, <2>2, <2>3, LoopedHead
<1>5. ASSUME WriteBack
      PROVE  /\ AfterBatch \in CbType
             /\ Looped(AfterBatch, UpsertCheckpoint(entry[cb.tp].ckpt, BatchMax(cb)), entry[cb.tp].leo)
  <2> DEFINE e == RecordApplied(entry[cb.tp], BatchMax(cb))
  <2>1. cb.tp \in TPs /\ BatchMax(cb) \in Nat /\ BatchMax(cb) \in Offsets
    BY <1>5, WorkingTp, BatchMaxNat, NatIsOffset DEF WriteBack
  <2>2. BatchMax(cb) + 1 \in Nat /\ <<>> \in Seq(LogRecords)
    BY <2>1
  <2>3. AfterBatch \in CbType
    BY <1>0, <2>2 DEF CbType, AfterBatch
  <2>4. LoopHead(AfterBatch, e) \/ ForceStop(AfterBatch, e)
    BY <1>5 DEF WriteBack, AfterBatch
  <2>5. /\ e \in Entries /\ e.leo = entry[cb.tp].leo
        /\ e.ckpt = UpsertCheckpoint(entry[cb.tp].ckpt, BatchMax(cb))
    BY <1>1, <2>1, EntryRecorded, RecordedFields
  <2> HIDE DEF e
  <2>6. Looped(AfterBatch, e.ckpt, e.leo)
    BY <2>1, <2>3, <2>4, <2>5, LoopedHead
  <2> QED
    BY <2>3, <2>5, <2>6
<1> QED
  BY <1>2, <1>3, <1>4, <1>5

(* Where a call has no partition in hand that it has begun to replay. *)
RestPcs == {"idle", "ensure", "checkpoint", "lateEnd", "lateRead", "revoke", "revokeMark"}

(* A partition that is done leaves nothing of its reset behind. *)
LEMMA DoneForgets ==
  ASSUME NEW c, NEW next
  PROVE  ~Done(c, next).reset
  BY DEF Done, IdleCb

(* The other steps of a hook neither touch a checkpoint nor begin a replay. *)
LEMMA RestingStep ==
  ASSUME TypeOK, HookStep,
         ~(Replay \/ ClampRead \/ ClampCommit \/ ClampWriteBack \/ LateReadCheckpoint)
  PROVE  /\ cb'.pc \in RestPcs /\ (~cb'.reset \/ (cb.pc \in RestPcs /\ cb'.reset = cb.reset))
         /\ UNCHANGED <<log, logStart, ckpt>>
         /\ \A tp \in TPs : entry'[tp].ckpt = entry[tp].ckpt
<1> USE DEF brokerVars, tableVars
<1>0. cb \in CbType /\ entry \in [TPs -> Entries]
  BY DEF TypeOK
<1>1. ASSUME NEW tp \in TPs, EnterPartition(tp) \/ PassOver(tp)
      PROVE  /\ cb'.pc \in RestPcs /\ (~cb'.reset \/ (cb.pc \in RestPcs /\ cb'.reset = cb.reset))
             /\ UNCHANGED <<log, logStart, ckpt, entry>>
  BY <1>1 DEF EnterPartition, PassOver, Begin, IdleCb, RestPcs
<1>2. ASSUME NEW tp \in TPs, SkipRevoke(tp)
      PROVE  /\ cb'.pc \in RestPcs /\ (~cb'.reset \/ (cb.pc \in RestPcs /\ cb'.reset = cb.reset))
             /\ UNCHANGED <<log, logStart, ckpt, entry>>
  <2>1. [cb EXCEPT !.tp = tp] \in CbType /\ [cb EXCEPT !.tp = tp].tp \in [cb EXCEPT !.tp = tp].todo
    BY <1>0, <1>2 DEF CbType, SkipRevoke
  <2> QED
    BY <1>2, <2>1, DoneShape, DoneForgets DEF SkipRevoke, RestPcs
<1>3. ASSUME NEW tp \in TPs, RevokeCommit(tp)
      PROVE  /\ cb'.pc \in RestPcs /\ (~cb'.reset \/ (cb.pc \in RestPcs /\ cb'.reset = cb.reset))
             /\ UNCHANGED <<log, logStart, ckpt, entry>>
  BY <1>0, <1>3 DEF RevokeCommit, CbType, RestPcs
<1>4. CASE Reveal \/ RevokeMark
  <2>1. cb.tp \in TPs /\ cb.tp \in cb.todo
    BY <1>4, WorkingTp DEF Reveal, RevokeMark
  <2>2. cb'.pc \in RestPcs /\ ~cb'.reset
    BY <1>0, <1>4, <2>1, DoneShape, DoneForgets DEF Reveal, RevokeMark, RestPcs
  <2>3. Marked(entry[cb.tp], "STANDBY").ckpt = entry[cb.tp].ckpt
    BY <1>0, <2>1, RecordedFields, NatIsOffset
  <2> QED
    BY <1>0, <1>4, <2>1, <2>2, <2>3 DEF Reveal, RevokeMark, SetEntry
<1>5. CASE LateLogEnd
  <2>1. cb.tp \in TPs /\ LogEnd(cb.tp) \in Offsets
    BY <1>5, WorkingTp, LogEndNat, NatIsOffset DEF LateLogEnd
  <2>2. RecordLogEnd(entry[cb.tp], LogEnd(cb.tp)).ckpt = entry[cb.tp].ckpt
    BY <1>0, <2>1, RecordedFields
  <2>3. cb'.pc = "lateRead" /\ cb'.reset = cb.reset
    BY <1>0, <1>5 DEF LateLogEnd, CbType
  <2> QED
    BY <1>0, <1>5, <2>1, <2>2, <2>3 DEF LateLogEnd, SetEntry, RestPcs
<1> QED
  BY <1>1, <1>2, <1>3, <1>4, <1>5 DEF HookStep

(* While a hook waits, others end its call or leave its locals alone, and   *)
(* only an append that returns writes to an entry.                         *)
LEMMA BesideHook ==
  ASSUME TypeOK, [Next]_vars, ~HookRuns
  PROVE  /\ \/ cb'.pc \in RestPcs /\ ~cb'.reset
            \/ cb' = [cb EXCEPT !.expired = cb'.expired]
         /\ \/ entry' = entry
            \/ Crash
            \/ \E t \in Tasks : AppendStep(t) /\ AppendReturns(t)
<1>0. cb = [cb EXCEPT !.expired = cb.expired] /\ IdleCb.pc \in RestPcs /\ ~IdleCb.reset
  BY DEF TypeOK, CbType, IdleCb, RestPcs
<1>1. CASE World \/ StartStore \/ UNCHANGED vars
  BY <1>0, <1>1 DEF World, ForeignWrites, OtherOwnerWrites, Trim, Regress, WorldKeeps, StartStore, vars
<1>2. CASE Crash \/ HookFails
  BY <1>0, <1>2 DEF Crash, HookFails, AbortHook
<1>3. CASE ClockTicks
  <2>1. cb' = [cb EXCEPT !.expired = TRUE] /\ cb'.expired = TRUE /\ entry' = entry
    BY <1>3 DEF ClockTicks, ClockExpires, TypeOK, CbType
  <2> QED
    BY <2>1
<1>4. ASSUME NEW S \in SUBSET TPs, HostAssigns(S) \/ HostRevokes(S)
      PROVE  cb'.pc \in RestPcs /\ ~cb'.reset /\ entry' = entry
  BY <1>4 DEF HostAssigns, HostRevokes, StartAssign, StartRevoke, IdleCb, RestPcs
<1>5. ASSUME NEW t \in Tasks, \/ AppendProduceFails(t) \/ AppendStorageFails(t)
                              \/ \E tp \in TPs : HostAppends(t, tp)
      PROVE  cb' = cb /\ entry' = entry
  BY <1>5 DEF AppendProduceFails, AppendStorageFails, HostAppends, ProduceFails,
     MaterializeFails, StartAppend
<1>6. ASSUME NEW t \in Tasks, AppendStep(t)
      PROVE  cb' = cb /\ (entry' = entry \/ AppendReturns(t))
  BY <1>6 DEF AppendStep, Produce, CommitAppend
<1> QED
  BY <1>0, <1>1, <1>2, <1>3, <1>4, <1>5, <1>6 DEF Next, Host

-----------------------------------------------------------------------------
(* The stored checkpoint goes down only to a log end that has fallen. *)

(* A clamp moves the checkpoint to the log end its hook captured. *)
ClampFalls == cb.pc = "clampCommit" => cb.target = cb.leo - 1

(* Where the polls and the transactions of a hook lead. *)
LEMMA HookGoes ==
  ASSUME TypeOK
  PROVE  /\ ReadCheckpoint => cb'.pc = "logEnd"
         /\ \A n \in 1..BatchSize : PollBatch(n) => cb'.pc = "commit"
         /\ PollEmpty => cb'.pc \in {"poll", "reveal"}
         /\ PollOutOfRange => cb'.pc = "resetStart"
         /\ ReadLogStart => cb'.pc = "resetSeek"
         /\ CommitBatch => cb'.pc = "writeBack"
         /\ ClampRead => cb'.pc \in {"clampCommit", "reveal"}
         /\ ClampCommit => cb'.pc = "clampBack"
         /\ ClampWriteBack \/ LateReadCheckpoint => cb'.pc = "reveal"
         /\ CaptureLogEnd => cb'.pc \in {"seek", "poll", "clampRead", "reveal"}
         /\ SeekToBeginning \/ ResetToBeginning \/ WriteBack => cb'.pc \in {"poll", "clampRead", "reveal"}
<1>0. cb \in CbType
  BY DEF TypeOK
<1>1. /\ ReadCheckpoint => cb'.pc = "logEnd"
      /\ \A n \in 1..BatchSize : PollBatch(n) => cb'.pc = "commit"
      /\ PollOutOfRange => cb'.pc = "resetStart"
      /\ ReadLogStart => cb'.pc = "resetSeek"
      /\ CommitBatch => cb'.pc = "writeBack"
      /\ ClampCommit => cb'.pc = "clampBack"
  BY <1>0 DEF ReadCheckpoint, PollBatch, PollOutOfRange, ReadLogStart, CommitBatch, ClampCommit, CbType
<1>2. /\ PollEmpty => cb'.pc \in {"poll", "reveal"}
      /\ ClampRead => cb'.pc \in {"clampCommit", "reveal"}
      /\ ClampWriteBack \/ LateReadCheckpoint => cb'.pc = "reveal"
  BY <1>0 DEF PollEmpty, ClampRead, ClampWriteBack, LateReadCheckpoint, ForceStop, Finish, CbType
<1>3. CaptureLogEnd => cb'.pc \in {"seek", "poll", "clampRead", "reveal"}
  BY <1>0, ReplayLoops DEF Looped, CbType
<1>4. SeekToBeginning \/ ResetToBeginning \/ WriteBack => cb'.pc \in {"poll", "clampRead", "reveal"}
  BY ReplayLoops DEF Looped
<1> QED
  BY <1>1, <1>2, <1>3, <1>4

(* Either clamp goes to the offset before the captured log end: the upward  *)
(* one only when the log begins there.                                     *)
LEMMA ClampFallsStep == TypeOK /\ ClampFalls /\ [Next]_vars => ClampFalls'
<1> SUFFICES ASSUME TypeOK, ClampFalls, [Next]_vars, cb'.pc = "clampCommit"
             PROVE  cb'.target = cb'.leo - 1
  BY DEF ClampFalls
<1>0. cb \in CbType
  BY DEF TypeOK
<1>1. CASE HookRuns
  <2>1. ClampRead
    BY <1>1, RestingStep, HookGoes DEF HookRuns, Replay, RestPcs
  <2>2. cb' = [cb EXCEPT !.pc = "clampCommit", !.target = ClampTarget(cb, ckpt[cb.tp])]
        /\ ClampTarget(cb, ckpt[cb.tp]) # NoOffset
    BY <1>0, <2>1 DEF ClampRead, Finish, CbType
  <2>3. cb'.target = ClampTarget(cb, ckpt[cb.tp]) /\ cb'.leo = cb.leo
    BY <1>0, <2>2 DEF CbType
  <2> QED
    BY <2>2, <2>3 DEF ClampTarget
<1>2. CASE ~HookRuns
  BY <1>0, <1>2, BesideHook DEF ClampFalls, RestPcs, CbType
<1> QED
  BY <1>1, <1>2

(* _upsert_checkpoint keeps the larger offset. *)
LEMMA UpsertRises ==
  ASSUME NEW old \in Offsets, NEW off \in Offsets
  PROVE  /\ UpsertCheckpoint(old, off) \in Offsets
         /\ old <= UpsertCheckpoint(old, off) /\ off <= UpsertCheckpoint(old, off)
         /\ UpsertCheckpoint(old, off) \in {old, off}
  BY DEF UpsertCheckpoint, Offsets, NoOffset

(* Only the transaction of a clamp lowers a checkpoint. *)
LEMMA FallsAtClamp ==
  ASSUME TypeOK, [Next]_vars, NEW tp \in TPs, ckpt'[tp] < ckpt[tp]
  PROVE  HookRuns /\ ClampCommit /\ tp = cb.tp /\ ckpt'[tp] = cb.target
<1>0. ckpt \in [TPs -> Offsets] /\ \A q \in TPs : ckpt[q] \in Int
  BY DEF TypeOK, Offsets
<1>1. ASSUME NEW q \in TPs, NEW off \in Offsets, ckpt' = [ckpt EXCEPT ![q] = UpsertCheckpoint(@, off)]
      PROVE  FALSE
  <2>1. ckpt[q] <= UpsertCheckpoint(ckpt[q], off) /\ UpsertCheckpoint(ckpt[q], off) \in Int
    BY <1>0, UpsertRises DEF Offsets
  <2> QED
    BY <1>0, <1>1, <2>1
<1>2. ~CommitBatch
  <2> SUFFICES ASSUME CommitBatch PROVE FALSE
    OBVIOUS
  <2>1. cb.tp \in TPs /\ BatchMax(cb) \in Offsets
    BY WorkingTp, BatchMaxNat, NatIsOffset DEF CommitBatch
  <2> QED
    BY <1>1, <2>1 DEF CommitBatch
<1>3. \A t \in Tasks : ~CommitAppend(t)
  <2> SUFFICES ASSUME NEW t \in Tasks, CommitAppend(t) PROVE FALSE
    OBVIOUS
  <2>1. app[t].tp \in TPs /\ app[t].off \in Offsets
    BY DEF TypeOK, AppShape, AppType, CommitAppend
  <2> QED
    BY <1>1, <2>1 DEF CommitAppend
<1>4. HookRuns /\ ClampCommit
  BY <1>0, <1>2, <1>3, TableWriters
<1>5. cb.tp \in TPs /\ ckpt' = [ckpt EXCEPT ![cb.tp] = cb.target]
  BY <1>4, WorkingTp DEF ClampCommit
<1> QED
  BY <1>0, <1>4, <1>5

(* RH-11: no append and no replay lowers partition_checkpoint; a clamp does *)
(* only when it is at or above the log end captured by its hook, and then   *)
(* to just below that.                                                     *)
THEOREM FallsOnlyAfterRegression == Spec => CheckpointFallsOnlyAfterRegression
<1>1. Init => ClampFalls
  BY DEF Init, IdleCb, ClampFalls
<1>2. TypeOK /\ ClampFalls /\ [Next]_vars =>
        [\A tp \in TPs : ckpt'[tp] < ckpt[tp] =>
           tp = cb.tp /\ ckpt[tp] >= cb.leo /\ ckpt'[tp] = cb.leo - 1]_vars
  <2> SUFFICES ASSUME TypeOK, ClampFalls, Next, NEW tp \in TPs, ckpt'[tp] < ckpt[tp]
               PROVE  tp = cb.tp /\ ckpt[tp] >= cb.leo /\ ckpt'[tp] = cb.leo - 1
    OBVIOUS
  <2>1. tp = cb.tp /\ ckpt'[tp] = cb.target /\ cb.pc = "clampCommit"
    BY FallsAtClamp DEF ClampCommit
  <2>2. cb.target = cb.leo - 1 /\ cb.leo \in Int /\ ckpt[tp] \in Int
    BY <2>1 DEF ClampFalls, TypeOK, CbType, Offsets
  <2> QED
    BY <2>1, <2>2
<1> QED
  BY <1>1, <1>2, ClampFallsStep, TypeCorrect, PTL DEF Spec, CheckpointFallsOnlyAfterRegression

-----------------------------------------------------------------------------
(* Without a lost tail, everything the store holds lies within the log. *)

(* From the first poll of a replay to the write-back of its batches. *)
PollPcs == {"poll", "resetStart", "resetSeek", "commit", "writeBack"}

(* The locals h of a hook at work on a changelog of n records. *)
HookBelow(h, n) ==
  /\ h.pc = "logEnd" => h.stored < n
  /\ h.pc \in ReplayPcs => h.leo <= n
  /\ h.pc \in PollPcs => h.fetch <= n
  /\ h.pc \in {"commit", "writeBack"} => h.fetch = h.lo + Len(h.batch)

BoundsInv ==
  /\ \A tp \in TPs : ckpt[tp] < LogEnd(tp) /\ logStart[tp] <= LogEnd(tp)
  /\ \A t \in Tasks : app[t].pc \in {"landed", "committed"} => app[t].off < LogEnd(app[t].tp)
  /\ HookBelow(cb, LogEnd(cb.tp))

(* A changelog is written to by this instance's appends and by the others,  *)
(* its start moved by retention.                                           *)
Appended == \E p \in TPs : \E r : log' = [log EXCEPT ![p] = Append(@, r)]

(* Every other step leaves every changelog as it is.                       *)
LEMMA LogWriters ==
  ASSUME TypeOK, "regress" \notin Env, [Next]_vars
  PROVE  \/ UNCHANGED <<log, logStart>>
         \/ logStart' = logStart /\ Appended
         \/ log' = log /\ \E p \in TPs : Trim(p)
<1>1. CASE World
  <2>1. ASSUME NEW p \in TPs, ForeignWrites(p) \/ \E kind \in {"record", "unknown"} : OtherOwnerWrites(p, kind)
        PROVE  logStart' = logStart /\ Appended
    BY <2>1 DEF ForeignWrites, OtherOwnerWrites, Appended
  <2>2. \A p \in TPs : ~Regress(p) /\ (Trim(p) => log' = log)
    BY DEF Regress, Trim
  <2> QED
    BY <1>1, <2>1, <2>2 DEF World
<1>2. ASSUME NEW t \in Tasks, AppendStep(t)
      PROVE  logStart' = logStart /\ (log' = log \/ Appended)
  <2>1. CASE Produce(t)
    <3>1. app[t].tp \in TPs
      BY <2>1 DEF Produce, TypeOK, AppShape
    <3> QED
      BY <2>1, <3>1 DEF Produce, Appended
  <2> QED
    BY <1>2, <2>1 DEF AppendStep, CommitAppend, AppendReturns, brokerVars
<1>3. CASE HookRuns
  BY <1>3, HookStepFrame DEF HookRuns, HookFrame
<1>4. ASSUME NEW t \in Tasks, \/ AppendProduceFails(t) \/ AppendStorageFails(t)
                              \/ \E p \in TPs : HostAppends(t, p)
      PROVE  UNCHANGED <<log, logStart>>
  BY <1>4 DEF AppendProduceFails, AppendStorageFails, HostAppends, ProduceFails,
     MaterializeFails, StartAppend, brokerVars
<1>5. ASSUME \/ \E S \in SUBSET TPs : HostAssigns(S) \/ HostRevokes(S)
             \/ HookFails \/ ClockTicks \/ StartStore \/ Crash \/ UNCHANGED vars
      PROVE  UNCHANGED <<log, logStart>>
  BY <1>5 DEF HostAssigns, HostRevokes, StartAssign, StartRevoke, HookFails, AbortHook,
     ClockTicks, ClockExpires, StartStore, Crash, vars, brokerVars
<1> QED
  BY <1>1, <1>2, <1>3, <1>4, <1>5 DEF Next, Host

(* Appends lengthen a changelog, retention moves its start up to its end.   *)
LEMMA LogGrows ==
  ASSUME TypeOK, "regress" \notin Env, [Next]_vars, NEW tp \in TPs
  PROVE  /\ LogEnd(tp) \in Nat /\ LogEnd(tp)' \in Nat /\ LogEnd(tp) <= LogEnd(tp)'
         /\ logStart[tp] <= logStart'[tp]
         /\ logStart[tp] <= LogEnd(tp) => logStart'[tp] <= LogEnd(tp)'
<1>0. log[tp] \in Seq(LogRecords) /\ logStart[tp] \in Nat /\ Len(log[tp]) \in Nat
  BY DEF TypeOK
<1>1. CASE UNCHANGED <<log, logStart>>
  BY <1>0, <1>1 DEF LogEnd
<1>2. CASE logStart' = logStart /\ Appended
  <2>0. PICK p \in TPs : \E r : log' = [log EXCEPT ![p] = Append(@, r)]
    BY <1>2 DEF Appended
  <2>1. PICK r : log' = [log EXCEPT ![p] = Append(@, r)]
    BY <2>0
  <2>2. log'[tp] \in {log[tp], Append(log[tp], r)}
    BY <2>1 DEF TypeOK
  <2>3. Len(Append(log[tp], r)) = Len(log[tp]) + 1
    BY <1>0
  <2> QED
    BY <1>0, <1>2, <2>2, <2>3 DEF LogEnd
<1>3. CASE log' = log /\ \E p \in TPs : Trim(p)
  <2>0. PICK p \in TPs : Trim(p)
    BY <1>3
  <2>1. PICK start \in (logStart[p] + 1)..LogEnd(p) : logStart' = [logStart EXCEPT ![p] = start]
    BY <2>0 DEF Trim
  <2>2. logStart'[tp] = IF tp = p THEN start ELSE logStart[tp]
    BY <2>1 DEF TypeOK
  <2> QED
    BY <1>0, <1>3, <2>1, <2>2 DEF LogEnd
<1> QED
  BY <1>1, <1>2, <1>3, LogWriters

(* What changes the append calls under way. *)
LEMMA AppChanges ==
  ASSUME [Next]_vars
  PROVE  \/ app' = app
         \/ app' = [t \in Tasks |-> IdleApp]
         \/ \E t \in Tasks : \/ app' = [app EXCEPT ![t] = IdleApp]
                             \/ Produce(t) \/ CommitAppend(t)
                             \/ \E tp \in TPs : HostAppends(t, tp)
<1>1. CASE World \/ StartStore \/ HookRuns \/ ClockTicks \/ HookFails \/ UNCHANGED vars \/ Crash
  BY <1>1 DEF World, ForeignWrites, OtherOwnerWrites, Trim, Regress, WorldKeeps, StartStore,
     HookRuns, ClockTicks, HookFails, vars, appVars, Crash
<1>2. ASSUME NEW S \in SUBSET TPs, HostAssigns(S) \/ HostRevokes(S)
      PROVE  app' = app
  BY <1>2 DEF HostAssigns, HostRevokes, appVars
<1>3. ASSUME NEW t \in Tasks, AppendProduceFails(t) \/ AppendStorageFails(t) \/ AppendReturns(t)
      PROVE  app' = [app EXCEPT ![t] = IdleApp]
  BY <1>3 DEF AppendProduceFails, AppendStorageFails, ProduceFails, MaterializeFails, AppendReturns
<1> QED
  BY <1>1, <1>2, <1>3 DEF Next, Host, AppendStep

(* The offset of an append is one of its changelog. *)
LEMMA AppendsBelow ==
  ASSUME TypeOK, BoundsInv, "regress" \notin Env, [Next]_vars,
         NEW t \in Tasks, app'[t].pc \in {"landed", "committed"}
  PROVE  (app[t].off < LogEnd(app[t].tp))'
<1>0. app \in [Tasks -> AppType] /\ IdleApp.pc = "idle"
  BY DEF TypeOK, IdleApp
<1>1. CASE app[t].pc \in {"landed", "committed"} /\ app'[t].tp = app[t].tp /\ app'[t].off = app[t].off
  <2> PICK p \in TPs : p = app[t].tp
    BY <1>1 DEF TypeOK, AppShape
  <2>1. app[t].off \in Nat /\ app[t].off < LogEnd(p)
    BY <1>1 DEF BoundsInv, TypeOK, AppShape
  <2>2. LogEnd(p) \in Nat /\ LogEnd(p)' \in Nat /\ LogEnd(p) <= LogEnd(p)'
    BY LogGrows
  <2> QED
    BY <1>1, <2>1, <2>2 DEF LogEnd
<1>2. CASE Produce(t)
  <2> PICK p \in TPs : p = app[t].tp
    BY <1>2 DEF Produce, TypeOK, AppShape
  <2>1. app'[t].tp = p /\ app'[t].off = LogEnd(p)
    BY <1>0, <1>2 DEF Produce, AppType
  <2>2. log[p] \in Seq(LogRecords) /\ log'[p] = Append(log[p], LogRecord("record", app[t].id))
    BY <1>2 DEF Produce, TypeOK
  <2>3. Len(log'[p]) = Len(log[p]) + 1 /\ Len(log[p]) \in Nat
    BY <2>2
  <2>4. LogEnd(app[t].tp)' = Len(log'[p])
    BY <2>1 DEF LogEnd
  <2> QED
    BY <2>1, <2>3, <2>4 DEF LogEnd
<1>3. ASSUME NEW u \in Tasks, Produce(u) \/ CommitAppend(u), t # u \/ CommitAppend(u)
      PROVE  app[t].pc \in {"landed", "committed"} /\ app'[t].tp = app[t].tp /\ app'[t].off = app[t].off
  <2>1. t # u => app'[t] = app[t]
    BY <1>0, <1>3 DEF Produce, CommitAppend
  <2>2. t = u => CommitAppend(t)
    BY <1>3
  <2>3. CommitAppend(t) => app[t].pc = "landed" /\ app'[t].tp = app[t].tp /\ app'[t].off = app[t].off
    BY <1>0 DEF CommitAppend, AppType
  <2> QED
    BY <2>1, <2>2, <2>3
<1>4. ASSUME NEW u \in Tasks, \/ app' = [app EXCEPT ![u] = IdleApp]
                              \/ \E tp \in TPs : HostAppends(u, tp)
      PROVE  app'[t] = app[t]
  BY <1>0, <1>4 DEF HostAppends, StartAppend
<1>5. app' # [u \in Tasks |-> IdleApp]
  BY <1>0
<1> QED
  BY <1>1, <1>2, <1>3, <1>4, <1>5, AppChanges

(* So is every checkpoint. *)
LEMMA CheckpointsBelow ==
  ASSUME TypeOK, BoundsInv, ClampFalls, "regress" \notin Env, [Next]_vars, NEW tp \in TPs
  PROVE  ckpt'[tp] < LogEnd(tp)'
<1>0. /\ cb \in CbType /\ ckpt[tp] \in Offsets /\ ckpt[tp] < LogEnd(tp)
      /\ LogEnd(tp) \in Nat /\ LogEnd(tp)' \in Nat /\ LogEnd(tp) <= LogEnd(tp)'
  BY LogGrows DEF TypeOK, BoundsInv
<1>1. CASE ckpt'[tp] = ckpt[tp]
  BY <1>0, <1>1 DEF Offsets
<1>2. CASE HookRuns /\ CommitBatch
  <2>1. cb.tp \in TPs /\ BatchMax(cb) \in Nat /\ BatchMax(cb) \in Offsets
        /\ cb.fetch \in Nat /\ cb.lo \in Nat /\ cb.batch \in Seq(LogRecords)
    BY <1>0, <1>2, WorkingTp, BatchMaxNat, NatIsOffset DEF CommitBatch, CbType
  <2>2. ckpt' = [ckpt EXCEPT ![cb.tp] = UpsertCheckpoint(@, BatchMax(cb))]
    BY <1>2 DEF CommitBatch
  <2>3. cb.fetch <= LogEnd(cb.tp) /\ BatchMax(cb) = cb.fetch - 1
    BY <1>2, <2>1 DEF CommitBatch, BoundsInv, HookBelow, PollPcs, BatchMax
  <2>4. CASE tp = cb.tp
    <3>1. ckpt'[tp] \in {ckpt[tp], BatchMax(cb)}
      BY <1>0, <2>1, <2>2, <2>4, UpsertRises DEF TypeOK
    <3> QED
      BY <1>0, <1>1, <2>1, <2>3, <2>4, <3>1
  <2> QED
    BY <1>1, <2>2, <2>4 DEF TypeOK
<1>3. CASE HookRuns /\ ClampCommit
  <2>1. cb.tp \in TPs /\ cb.leo \in Nat /\ cb.leo <= LogEnd(cb.tp) /\ cb.target = cb.leo - 1
    BY <1>0, <1>3, WorkingTp DEF ClampCommit, ClampFalls, BoundsInv, HookBelow, ReplayPcs, TypeOK, CbShape
  <2>2. ckpt' = [ckpt EXCEPT ![cb.tp] = cb.target]
    BY <1>3 DEF ClampCommit
  <2>3. ckpt'[tp] = IF tp = cb.tp THEN cb.target ELSE ckpt[tp]
    BY <2>2 DEF TypeOK
  <2> QED
    BY <1>0, <1>1, <2>1, <2>3
<1>4. ASSUME NEW t \in Tasks, CommitAppend(t)
      PROVE  ckpt'[tp] < LogEnd(tp)'
  <2>1. app[t].tp \in TPs /\ app[t].off \in Nat /\ app[t].off \in Offsets /\ app[t].off < LogEnd(app[t].tp)
    BY <1>4, NatIsOffset DEF CommitAppend, BoundsInv, TypeOK, AppShape
  <2>2. ckpt' = [ckpt EXCEPT ![app[t].tp] = UpsertCheckpoint(@, app[t].off)]
    BY <1>4 DEF CommitAppend
  <2>3. CASE tp = app[t].tp
    <3>1. ckpt'[tp] \in {ckpt[tp], app[t].off}
      BY <1>0, <2>1, <2>2, <2>3, UpsertRises DEF TypeOK
    <3> QED
      BY <1>0, <1>1, <2>1, <2>3, <3>1
  <2> QED
    BY <1>1, <2>2, <2>3 DEF TypeOK
<1> QED
  BY <1>1, <1>2, <1>3, <1>4, TableWriters

(* So are the log end a hook captures and the records it fetches. *)
LEMMA HookStaysBelow ==
  ASSUME TypeOK, BoundsInv, "regress" \notin Env, [Next]_vars
  PROVE  HookBelow(cb, LogEnd(cb.tp))'
<1>0. cb \in CbType /\ HookBelow(cb, LogEnd(cb.tp))
  BY DEF TypeOK, BoundsInv
<1>1. CASE cb'.pc \in RestPcs
  BY <1>1 DEF RestPcs, HookBelow, ReplayPcs, PollPcs
<1>2. CASE cb' = [cb EXCEPT !.expired = cb'.expired] /\ cb.pc \notin RestPcs \cup {"reveal"}
  <2> PICK p \in TPs : p = cb.tp
    BY <1>2, WorkingTp DEF RestPcs
  <2>2. LogEnd(p) \in Nat /\ LogEnd(p)' \in Nat /\ LogEnd(p) <= LogEnd(p)'
    BY LogGrows
  <2>3. /\ cb'.pc = cb.pc /\ cb'.tp = cb.tp /\ cb'.stored = cb.stored /\ cb'.leo = cb.leo
        /\ cb'.fetch = cb.fetch /\ cb'.lo = cb.lo /\ cb'.batch = cb.batch
        /\ cb.stored \in Int /\ cb.leo \in Int /\ cb.fetch \in Int
    BY <1>0, <1>2 DEF CbType, Offsets
  <2>4. HookBelow(cb', LogEnd(p)')
    BY <1>0, <2>2, <2>3 DEF HookBelow
  <2> QED
    BY <2>3, <2>4 DEF LogEnd
<1>3. CASE HookRuns /\ cb'.pc \notin RestPcs \cup {"reveal"}
  <2>1. Replay \/ ClampRead \/ ClampCommit
    BY <1>3, RestingStep, HookGoes DEF HookRuns
  <2>2. cb.tp \in TPs /\ log' = log
    BY <1>3, <2>1, WorkingTp, HookStepFrame DEF HookRuns, HookFrame, Replay, ReadCheckpoint,
       CaptureLogEnd, SeekToBeginning, PollBatch, PollEmpty, PollOutOfRange, ReadLogStart,
       ResetToBeginning, CommitBatch, WriteBack, ClampRead, ClampCommit
  <2> PICK tp \in TPs, n \in Nat, s \in Nat : tp = cb.tp /\ n = LogEnd(tp) /\ s = logStart[tp]
    BY <2>2, LogEndNat DEF TypeOK
  <2>3. s <= n /\ ckpt[tp] < n /\ HookBelow(cb, n)
    BY <1>0 DEF BoundsInv
  <2> SUFFICES cb'.tp = tp /\ HookBelow(cb', n)
    BY <2>2 DEF LogEnd
  <2> USE DEF HookBelow, ReplayPcs, PollPcs
  <2>4. CASE ReadCheckpoint
    BY <1>0, <2>3, <2>4 DEF ReadCheckpoint, CbType
  <2>5. CASE CaptureLogEnd
    <3>1. CASE cb' = [cb EXCEPT !.leo = n, !.pc = "seek"]
      BY <1>0, <3>1 DEF CbType
    <3>2. CASE AfterCapture \in CbType /\ cb' = [AfterCapture EXCEPT !.pc = cb'.pc]
      <4>1. /\ cb'.tp = tp /\ cb'.leo = n /\ cb'.fetch = cb.stored + 1
            /\ cb.stored \in Int /\ cb.pc = "logEnd"
        BY <1>0, <2>5, <3>2 DEF AfterCapture, CbType, CaptureLogEnd, Offsets
      <4> QED
        BY <2>3, <2>5, <4>1, HookGoes
    <3> QED
      BY <2>5, <3>1, <3>2, ReplayLoops DEF Looped
  <2>6. CASE SeekToBeginning \/ ResetToBeginning
    <3>1. PICK d \in {AfterSeek, AfterReset} : d \in CbType /\ cb' = [d EXCEPT !.pc = cb'.pc]
      BY <2>6, ReplayLoops DEF Looped
    <3>2. cb'.tp = tp /\ cb'.leo = cb.leo /\ cb'.fetch = s /\ cb.pc \in {"seek", "resetSeek"}
      BY <1>0, <2>6, <3>1, ZenonT(60) DEF AfterSeek, AfterReset, CbType, SeekToBeginning, ResetToBeginning
    <3> QED
      BY <2>3, <2>6, <3>2, HookGoes
  <2>7. CASE WriteBack
    <3>1. AfterBatch \in CbType /\ cb' = [AfterBatch EXCEPT !.pc = cb'.pc]
      BY <2>7, ReplayLoops DEF Looped
    <3>2. cb'.tp = tp /\ cb'.leo = cb.leo /\ cb'.fetch = cb.fetch /\ cb.pc = "writeBack"
      BY <1>0, <2>7, <3>1 DEF AfterBatch, CbType, WriteBack
    <3> QED
      BY <2>3, <2>7, <3>2, HookGoes
  <2>8. ASSUME NEW k \in 1..BatchSize, PollBatch(k)
        PROVE  cb'.tp = tp /\ HookBelow(cb', n)
    <3>1. /\ k \in Nat \ {0} /\ cb.fetch \in Nat /\ cb.fetch + k <= n /\ n = Len(log[tp])
          /\ log[tp] \in Seq(LogRecords)
      BY <1>0, <2>8 DEF CbType, PollBatch, LogEnd, TypeOK
    <3>2. Len(SubSeq(log[tp], cb.fetch + 1, cb.fetch + k)) = k
      BY <3>1, SMTT(60)
    <3>3. /\ cb'.tp = tp /\ cb'.leo = cb.leo /\ cb'.fetch = cb.fetch + k /\ cb'.lo = cb.fetch
          /\ cb'.pc = "commit" /\ cb'.batch = SubSeq(log[tp], cb.fetch + 1, cb.fetch + k)
          /\ cb.pc = "poll"
      BY <1>0, <2>8 DEF CbType, PollBatch
    <3> QED
      BY <2>3, <3>1, <3>2, <3>3
  <2>9. CASE PollOutOfRange \/ ReadLogStart \/ CommitBatch \/ ClampRead \/ ClampCommit
    <3>1. /\ cb'.tp = tp /\ cb'.leo = cb.leo /\ cb'.fetch = cb.fetch /\ cb'.lo = cb.lo
          /\ cb'.batch = cb.batch
      BY <1>0, <1>3, <2>9, ZenonT(60) DEF PollOutOfRange, ReadLogStart, CommitBatch, ClampRead, ClampCommit, Finish, CbType
    <3>2. /\ cb.pc \in ReplayPcs
          /\ cb'.pc \in PollPcs => cb.pc \in PollPcs
          /\ cb'.pc \in {"commit", "writeBack"} => cb.pc \in {"commit", "writeBack"}
          /\ cb'.pc # "logEnd"
      BY <1>3, <2>9, HookGoes DEF PollOutOfRange, ReadLogStart, CommitBatch, ClampRead, ClampCommit
    <3> QED
      BY <2>3, <3>1, <3>2
  <2>10. CASE PollEmpty
    BY <1>0, <1>3, <2>3, <2>10 DEF PollEmpty, ForceStop, CbType
  <2> QED
    BY <2>1, <2>4, <2>5, <2>6, <2>7, <2>8, <2>9, <2>10 DEF Replay
<1>4. CASE cb'.pc = "reveal"
  BY <1>4 DEF HookBelow, ReplayPcs, PollPcs
<1>5. cb' = [cb EXCEPT !.expired = cb'.expired] => cb'.pc = cb.pc
  BY <1>0 DEF CbType
<1> QED
  BY <1>1, <1>2, <1>3, <1>4, <1>5, BesideHook

(* Everything stays within the log. *)
LEMMA BoundsStep ==
  ASSUME TypeOK, BoundsInv, ClampFalls, "regress" \notin Env, [Next]_vars
  PROVE  BoundsInv'
<1>1. \A tp \in TPs : ckpt'[tp] < LogEnd(tp)' /\ logStart'[tp] <= LogEnd(tp)'
  BY CheckpointsBelow, LogGrows DEF BoundsInv
<1>2. \A t \in Tasks : app'[t].pc \in {"landed", "committed"} => (app[t].off < LogEnd(app[t].tp))'
  BY AppendsBelow
<1> QED
  BY <1>1, <1>2, HookStaysBelow DEF BoundsInv, LogEnd

-----------------------------------------------------------------------------
(* A host that keeps appends and hooks apart. *)

(* No append on a partition a hook works on. *)
QuietInv == \A t \in Tasks : app[t].pc # "idle" => app[t].tp \notin cb.todo

(* A call that was not under way is the host's doing. *)
LEMMA AppFromHost ==
  ASSUME TypeOK, [Next]_vars, NEW t \in Tasks, app'[t].pc # "idle"
  PROVE  \/ app[t].pc # "idle" /\ app'[t].tp = app[t].tp
         \/ \E tp \in TPs : HostAppends(t, tp) /\ app'[t].tp = tp
<1>0. app \in [Tasks -> AppType] /\ IdleApp.pc = "idle"
  BY DEF TypeOK, IdleApp
<1>1. ASSUME NEW u \in Tasks, Produce(u) \/ CommitAppend(u)
      PROVE  app[t].pc # "idle" /\ app'[t].tp = app[t].tp
  BY <1>0, <1>1 DEF Produce, CommitAppend, AppType
<1>2. ASSUME NEW u \in Tasks, NEW tp \in TPs, HostAppends(u, tp)
      PROVE  \/ app'[t] = app[t]
             \/ HostAppends(t, tp) /\ app'[t].tp = tp
  BY <1>0, <1>2 DEF HostAppends, StartAppend
<1>3. ASSUME NEW u \in Tasks, app' = [app EXCEPT ![u] = IdleApp]
      PROVE  app'[t] = app[t]
  BY <1>0, <1>3
<1> QED
  BY <1>0, <1>1, <1>2, <1>3, AppChanges

(* A quiet host starts no append on a partition its hook works on.         *)
LEMMA QuietStep ==
  ASSUME Rule("quiesce"), TypeOK, QuietInv, [Next]_vars
  PROVE  QuietInv'
<1>0. IdleCb.todo = {} /\ cb \in CbType
  BY DEF IdleCb, TypeOK
<1>1. CASE app' = app /\ cb'.todo \subseteq cb.todo
  BY <1>1 DEF QuietInv
<1>2. CASE HookRuns
  BY <1>1, <1>2, HookStepFrame DEF HookRuns, HookFrame, appVars
<1>3. ASSUME NEW S \in SUBSET TPs, HostAssigns(S) \/ HostRevokes(S)
      PROVE  QuietInv'
  <2>1. cb'.todo = S /\ app' = app /\ Quiet(S)
    BY <1>3 DEF HostAssigns, HostRevokes, StartAssign, StartRevoke, IdleCb, appVars
  <2> QED
    BY <2>1 DEF QuietInv, Quiet, AppendsOn, TypeOK, AppShape
<1>4. CASE HookFails \/ Crash
  BY <1>0, <1>4 DEF HookFails, AbortHook, Crash, QuietInv
<1>5. ASSUME cb' = cb
      PROVE  QuietInv'
  <2> SUFFICES ASSUME NEW t \in Tasks, app'[t].pc # "idle"
               PROVE  app'[t].tp \notin cb.todo
    BY <1>5 DEF QuietInv
  <2> QED
    BY AppFromHost DEF QuietInv, HostAppends
<1>6. CASE ClockTicks
  BY <1>0, <1>1, <1>6 DEF ClockTicks, ClockExpires, appVars, CbType
<1>7. CASE World \/ StartStore \/ UNCHANGED vars
  BY <1>5, <1>7 DEF World, ForeignWrites, OtherOwnerWrites, Trim, Regress, WorldKeeps, StartStore, vars
<1>8. ASSUME NEW t \in Tasks, \/ AppendProduceFails(t) \/ AppendStorageFails(t) \/ AppendStep(t)
                              \/ \E tp \in TPs : HostAppends(t, tp)
      PROVE  QuietInv'
  BY <1>5, <1>8 DEF AppendProduceFails, AppendStorageFails, AppendStep, HostAppends
<1> QED
  BY <1>2, <1>3, <1>4, <1>6, <1>7, <1>8 DEF Next, Host

(* So nobody but the hook moves the checkpoint it works on. *)
LEMMA QuietCheckpoint ==
  ASSUME TypeOK, QuietInv, [Next]_vars, ~HookRuns, cb.tp \in cb.todo, cb.tp \in TPs
  PROVE  /\ ckpt'[cb.tp] = ckpt[cb.tp]
         /\ ~Crash => entry'[cb.tp] = entry[cb.tp]
<1>1. ASSUME NEW t \in Tasks, AppendStep(t), CommitAppend(t)
      PROVE  ckpt'[cb.tp] = ckpt[cb.tp]
  BY <1>1 DEF CommitAppend, QuietInv, TypeOK
<1>2. ASSUME NEW t \in Tasks, AppendReturns(t)
      PROVE  entry'[cb.tp] = entry[cb.tp]
  BY <1>2 DEF AppendReturns, QuietInv, TypeOK
<1> QED
  BY <1>1, <1>2, TableWriters, BesideHook

(* A hook replays a changelog whose end is above the checkpoint, or fetches  *)
(* above the log end it captured and never stops there: with c the         *)
(* checkpoint and s the log start, no clamp of locals h lowers c.          *)
HookAbove(h, c, s) ==
  /\ h.pc = "logEnd" => h.stored = c
  /\ h.pc = "seek" => c = NoOffset
  /\ h.pc \in PollPcs => c < h.leo \/ h.leo < h.fetch
  /\ h.pc = "resetStart" => h.fetch < s
  /\ h.pc = "resetSeek" => h.fetch < h.log_start /\ h.log_start <= s
  /\ h.pc = "clampRead" => c < h.leo
  /\ h.pc = "clampCommit" => c <= h.target

AboveInv == HookAbove(cb, ckpt[cb.tp], logStart[cb.tp])

(* The fetch position after a poll is just past its batch. *)
LEMMA BatchEnd ==
  ASSUME TypeOK, cb.pc \in {"commit", "writeBack"}, cb.fetch = cb.lo + Len(cb.batch)
  PROVE  BatchMax(cb) + 1 = cb.fetch
<1>1. cb.lo \in Nat /\ cb.batch \in Seq(LogRecords)
  BY DEF TypeOK, CbType
<1> QED
  BY <1>1 DEF BatchMax

(* The fetch position stays above the committed checkpoint.                *)
LEMMA AboveStep ==
  ASSUME "regress" \notin Env, TypeOK, BoundsInv, ClampFalls', QuietInv, AboveInv, [Next]_vars
  PROVE  AboveInv'
<1>0. cb \in CbType
  BY DEF TypeOK
<1>1. CASE cb'.pc \in RestPcs
  BY <1>1 DEF RestPcs, AboveInv, HookAbove, PollPcs
<1>2. CASE ~HookRuns /\ cb' = [cb EXCEPT !.expired = cb'.expired] /\ cb.pc \notin RestPcs
  <2> PICK tp \in TPs : tp = cb.tp /\ tp \in cb.todo
    BY <1>2, WorkingTp DEF RestPcs
  <2>1. ckpt'[tp] = ckpt[tp] /\ logStart[tp] <= logStart'[tp]
        /\ logStart[tp] \in Nat /\ logStart'[tp] \in Nat
    BY <1>2, QuietCheckpoint, LogGrows, TypeStep DEF TypeOK
  <2>2. /\ cb'.pc = cb.pc /\ cb'.tp = tp /\ cb'.stored = cb.stored /\ cb'.leo = cb.leo
        /\ cb'.fetch = cb.fetch /\ cb'.log_start = cb.log_start /\ cb'.target = cb.target
        /\ cb.fetch \in Int /\ cb.log_start \in Int
    BY <1>0, <1>2 DEF CbType
  <2> QED
    BY <2>1, <2>2 DEF AboveInv, HookAbove
<1>3. CASE HookRuns /\ cb'.pc \notin RestPcs
  <2>1. Replay \/ ClampRead \/ ClampCommit \/ ClampWriteBack \/ LateReadCheckpoint
    BY <1>3, RestingStep DEF HookRuns
  <2>2. cb.tp \in TPs /\ log' = log /\ logStart' = logStart
    BY <1>3, <2>1, WorkingTp, HookStepFrame DEF HookRuns, HookFrame, Replay, ReadCheckpoint,
       CaptureLogEnd, SeekToBeginning, PollBatch, PollEmpty, PollOutOfRange, ReadLogStart,
       ResetToBeginning, CommitBatch, WriteBack, ClampRead, ClampCommit, ClampWriteBack,
       LateReadCheckpoint
  <2> PICK tp \in TPs, n \in Nat, s \in Nat, c \in Offsets :
        tp = cb.tp /\ n = LogEnd(tp) /\ s = logStart[tp] /\ c = ckpt[tp]
    BY <2>2, LogEndNat DEF TypeOK
  <2>3. /\ s <= n /\ c < n /\ HookBelow(cb, n) /\ HookAbove(cb, c, s)
        /\ c \in Int /\ cb.fetch \in Int /\ cb.log_start \in Int /\ cb.leo \in Int /\ cb.target \in Int
        /\ cb.pc \in ReplayPcs => cb.leo \in Nat
    BY <1>0 DEF BoundsInv, AboveInv, CbType, Offsets, TypeOK, CbShape
  <2>4. ~CommitBatch /\ ~ClampCommit => ckpt' = ckpt
    BY <1>3, TableWriters DEF HookRuns, AppendStep, CommitAppend, appVars, TypeOK, AppType
  <2> SUFFICES cb'.tp = tp /\ HookAbove(cb', ckpt'[tp], s)
    BY <2>2 DEF AboveInv
  <2> USE DEF HookAbove, HookBelow, ReplayPcs, PollPcs
  <2>5. CASE ReadCheckpoint
    BY <1>0, <2>3, <2>4, <2>5 DEF ReadCheckpoint, CbType, CommitBatch, ClampCommit
  <2>6. CASE CaptureLogEnd
    <3>0. cb.pc = "logEnd" /\ ckpt' = ckpt
      BY <2>4, <2>6 DEF CaptureLogEnd, CommitBatch, ClampCommit
    <3>1. CASE cb.stored = NoOffset /\ cb' = [cb EXCEPT !.leo = n, !.pc = "seek"]
      BY <1>0, <2>3, <3>0, <3>1 DEF CbType
    <3>2. CASE AfterCapture \in CbType /\ Looped(AfterCapture, entry[tp].ckpt, n)
      <4>1. cb'.tp = tp /\ cb'.leo = n /\ cb'.pc \in {"poll", "clampRead", "reveal"}
        BY <1>0, <3>2 DEF AfterCapture, CbType, Looped
      <4> QED
        BY <2>3, <3>0, <4>1
    <3> QED
      BY <2>6, <3>1, <3>2, ReplayLoops
  <2>7. CASE SeekToBeginning
    <3>1. /\ AfterSeek \in CbType /\ cb' = [AfterSeek EXCEPT !.pc = cb'.pc]
          /\ cb'.pc \in {"poll", "clampRead", "reveal"} /\ cb.pc = "seek" /\ ckpt' = ckpt
      BY <2>4, <2>7, ReplayLoops DEF Looped, SeekToBeginning, CommitBatch, ClampCommit
    <3>2. cb'.tp = tp /\ cb'.leo = cb.leo
      BY <1>0, <3>1 DEF AfterSeek, CbType
    <3> QED
      BY <2>3, <3>1, <3>2 DEF NoOffset
  <2>8. CASE ResetToBeginning
    <3>1. /\ AfterReset \in CbType /\ Looped(AfterReset, entry[tp].ckpt, entry[tp].leo)
          /\ cb.pc = "resetSeek" /\ ckpt' = ckpt
      BY <2>4, <2>8, ReplayLoops DEF ResetToBeginning, CommitBatch, ClampCommit
    <3>2. /\ cb'.tp = tp /\ cb'.leo = cb.leo /\ cb'.fetch = s
          /\ cb'.pc \in {"poll", "clampRead", "reveal"}
          /\ cb'.pc = "clampRead" => cb.log_start = cb.leo
      BY <1>0, <3>1 DEF AfterReset, CbType, Looped
    <3> QED
      BY <2>3, <3>1, <3>2
  <2>9. CASE WriteBack
    <3>1. /\ AfterBatch \in CbType
          /\ Looped(AfterBatch, UpsertCheckpoint(entry[tp].ckpt, BatchMax(cb)), entry[tp].leo)
          /\ cb.pc = "writeBack" /\ ckpt' = ckpt
      BY <2>4, <2>9, ReplayLoops DEF WriteBack, CommitBatch, ClampCommit
    <3>2. /\ cb'.tp = tp /\ cb'.leo = cb.leo /\ cb'.fetch = cb.fetch
          /\ cb'.pc \in {"poll", "clampRead", "reveal"}
          /\ cb'.pc = "clampRead" => BatchMax(cb) + 1 = cb.leo
      BY <1>0, <3>1 DEF AfterBatch, CbType, Looped
    <3> QED
      BY <2>3, <3>1, <3>2, BatchEnd
  <2>10. ASSUME NEW k \in 1..BatchSize, PollBatch(k)
         PROVE  cb'.tp = tp /\ HookAbove(cb', ckpt'[tp], s)
    <3>1. /\ cb'.tp = tp /\ cb'.leo = cb.leo /\ cb'.fetch = cb.fetch + k /\ k \in Nat
          /\ cb'.pc = "commit" /\ cb.pc = "poll" /\ ckpt' = ckpt
      BY <1>0, <2>4, <2>10 DEF CbType, PollBatch, CommitBatch, ClampCommit
    <3> QED
      BY <2>3, <3>1
  <2>11. CASE PollOutOfRange \/ ReadLogStart
    <3>1. /\ cb'.tp = tp /\ cb'.leo = cb.leo /\ cb'.fetch = cb.fetch /\ ckpt' = ckpt
          /\ \/ /\ cb.pc = "poll" /\ cb'.pc = "resetStart"
                /\ ~(s <= cb.fetch /\ cb.fetch <= n)
             \/ cb.pc = "resetStart" /\ cb'.pc = "resetSeek" /\ cb'.log_start = s
      BY <1>0, <2>4, <2>11 DEF PollOutOfRange, ReadLogStart, CbType, InRange, CommitBatch, ClampCommit
    <3> QED
      BY <2>3, <3>1
  <2>12. CASE CommitBatch
    <3>1. /\ cb'.tp = tp /\ cb'.leo = cb.leo /\ cb'.fetch = cb.fetch /\ cb'.pc = "writeBack"
          /\ cb.pc = "commit" /\ ckpt'[tp] = UpsertCheckpoint(c, BatchMax(cb))
      BY <1>0, <2>12 DEF CommitBatch, CbType, TypeOK
    <3>2. BatchMax(cb) \in Int /\ ckpt'[tp] \in {c, BatchMax(cb)}
      BY <3>1, BatchMaxNat DEF UpsertCheckpoint
    <3> QED
      BY <2>3, <3>1, <3>2, BatchEnd
  <2>13. CASE ClampRead
    <3>1. /\ cb'.tp = tp /\ cb'.leo = cb.leo /\ cb'.pc \in {"clampCommit", "reveal"}
          /\ cb.pc = "clampRead" /\ ckpt' = ckpt
      BY <1>0, <2>4, <2>13, HookGoes DEF ClampRead, Finish, CbType, CommitBatch, ClampCommit
    <3>2. cb'.pc = "clampCommit" => cb'.target = cb.leo - 1
      BY <3>1 DEF ClampFalls
    <3> QED
      BY <2>3, <3>1, <3>2
  <2>14. CASE ClampCommit \/ ClampWriteBack \/ LateReadCheckpoint
    <3>1. cb'.tp = tp /\ cb'.pc \in {"clampBack", "reveal"}
      BY <1>0, <2>14 DEF ClampCommit, ClampWriteBack, LateReadCheckpoint, Finish, ForceStop, CbType
    <3> QED
      BY <3>1
  <2>15. CASE PollEmpty
    <3>1. /\ cb'.tp = tp /\ cb'.leo = cb.leo /\ cb'.fetch = cb.fetch /\ cb'.pc \in {"poll", "reveal"}
          /\ cb.pc = "poll" /\ ckpt' = ckpt
      BY <1>0, <2>4, <2>15 DEF PollEmpty, ForceStop, CbType, CommitBatch, ClampCommit
    <3> QED
      BY <2>3, <3>1
  <2> QED
    BY <2>1, <2>5, <2>6, <2>7, <2>8, <2>9, <2>10, <2>11, <2>12, <2>13, <2>14, <2>15 DEF Replay
<1>5. cb' = [cb EXCEPT !.expired = cb'.expired] => cb'.pc = cb.pc
  BY <1>0 DEF CbType
<1> QED
  BY <1>1, <1>2, <1>3, <1>5, BesideHook

-----------------------------------------------------------------------------
(* No committed checkpoint falls. *)

(* The awaits that only a reset leads to. *)
ResetPcs == {"resetStart", "resetSeek", "clampRead", "clampCommit", "clampBack"}

(* Where nothing is ever dropped from a changelog, no fetch is out of range. *)
NoResetInv ==
  /\ \A tp \in TPs : logStart[tp] = 0
  /\ ~cb.reset /\ cb.pc \notin ResetPcs

(* Without trims and regressions no replay is ever reset.                  *)
LEMMA NoResetStep ==
  ASSUME Env \cap {"regress", "trim"} = {}, TypeOK, BoundsInv, NoResetInv, [Next]_vars
  PROVE  NoResetInv'
<1>0. cb \in CbType
  BY DEF TypeOK
<1>1. \A tp \in TPs : logStart'[tp] = 0
  BY LogWriters DEF NoResetInv, Trim
<1>2. CASE ~HookRuns
  BY <1>0, <1>1, <1>2, BesideHook DEF NoResetInv, ResetPcs, RestPcs, CbType
<1>3. CASE HookRuns /\ cb'.pc \in RestPcs /\ (cb'.reset = cb.reset \/ ~cb'.reset)
  BY <1>1, <1>3 DEF NoResetInv, ResetPcs, RestPcs
<1>4. CASE HookRuns /\ (Replay \/ ClampRead \/ ClampCommit \/ ClampWriteBack \/ LateReadCheckpoint)
  <2> USE DEF NoResetInv, ResetPcs
  <2>1. ~ResetToBeginning /\ ~ReadLogStart /\ ~ClampRead /\ ~ClampCommit /\ ~ClampWriteBack
    BY DEF ResetToBeginning, ReadLogStart, ClampRead, ClampCommit, ClampWriteBack
  <2>2. ~PollOutOfRange
    <3> SUFFICES ASSUME PollOutOfRange PROVE FALSE
      OBVIOUS
    <3>1. cb.tp \in TPs /\ cb.pc = "poll" /\ cb.fetch \in Nat
      BY <1>0, WorkingTp DEF PollOutOfRange, CbType
    <3>2. logStart[cb.tp] = 0 /\ cb.fetch <= LogEnd(cb.tp)
      BY <3>1 DEF BoundsInv, HookBelow, PollPcs
    <3> QED
      BY <3>1, <3>2 DEF PollOutOfRange, InRange
  <2>3. ASSUME NEW d \in CbType, NEW c, NEW l, Looped(d, c, l), ~d.reset
        PROVE  ~cb'.reset /\ cb'.pc \notin ResetPcs
    BY <2>3 DEF Looped, CbType
  <2>4. ~AfterCapture.reset /\ ~AfterSeek.reset /\ ~AfterBatch.reset
    BY <1>0 DEF AfterCapture, AfterSeek, AfterBatch, CbType
  <2>5. CASE CaptureLogEnd \/ SeekToBeginning \/ WriteBack
    <3>1. CASE cb' = [cb EXCEPT !.leo = LogEnd(cb.tp), !.pc = "seek"]
      BY <1>0, <1>1, <3>1 DEF CbType
    <3> QED
      BY <1>1, <2>3, <2>4, <2>5, <3>1, ReplayLoops
  <2>6. CASE ReadCheckpoint \/ PollEmpty \/ CommitBatch \/ LateReadCheckpoint
             \/ \E n \in 1..BatchSize : PollBatch(n)
    BY <1>0, <1>1, <2>6, ZenonT(60) DEF ReadCheckpoint, PollEmpty, CommitBatch, LateReadCheckpoint, PollBatch,
       ForceStop, CbType
  <2> QED
    BY <1>4, <2>1, <2>2, <2>5, <2>6 DEF Replay
<1> QED
  BY <1>2, <1>3, <1>4, RestingStep DEF HookRuns

(* A hook writes to the in-memory checkpoint what is stored, what it has    *)
(* just stored, or nothing.                                                *)
LEMMA EntryWrites ==
  ASSUME TypeOK, HookStep, NEW tp \in TPs
  PROVE  \/ entry'[tp].ckpt = entry[tp].ckpt
         \/ /\ tp = cb.tp
            /\ \/ entry'[tp].ckpt = UpsertCheckpoint(entry[tp].ckpt, ckpt[tp]) /\ ckpt' = ckpt
               \/ WriteBack /\ entry'[tp].ckpt = UpsertCheckpoint(entry[tp].ckpt, BatchMax(cb))
               \/ ClampWriteBack /\ entry'[tp].ckpt = cb.target
<1> USE DEF tableVars
<1>0. cb \in CbType /\ entry \in [TPs -> Entries] /\ ckpt[tp] \in Offsets /\ cb.target \in Offsets
  BY DEF TypeOK, CbType
<1>1. CASE ~(Replay \/ ClampRead \/ ClampCommit \/ ClampWriteBack \/ LateReadCheckpoint)
  BY <1>1, RestingStep
<1>2. CASE cb.tp # tp
  <2>1. \A e : SetEntry(e) => entry'[tp] = entry[tp]
    BY <1>0, <1>2 DEF SetEntry
  <2>2. \A d, e : LoopHead(d, e) \/ ForceStop(d, e) \/ Finish(d, e) => entry'[tp] = entry[tp]
    BY <2>1 DEF LoopHead, ForceStop, Finish
  <2>3. CASE Replay \/ ClampRead \/ ClampCommit \/ ClampWriteBack \/ LateReadCheckpoint
    BY <2>1, <2>2, <2>3 DEF Replay, ReadCheckpoint, CaptureLogEnd, SeekToBeginning, PollBatch,
       PollEmpty, PollOutOfRange, ReadLogStart, ResetToBeginning, CommitBatch, WriteBack,
       ClampRead, ClampCommit, ClampWriteBack, LateReadCheckpoint
  <2> QED
    BY <1>1, <2>3
<1>3. CASE cb.tp = tp
  <2>1. \A e : SetEntry(e) => entry'[tp] = e
    BY <1>0, <1>3 DEF SetEntry
  <2>2. CASE ReadCheckpoint \/ LateReadCheckpoint
    <3> DEFINE e == SeedEntry(entry[tp], ckpt[tp])
    <3>1. e \in Entries /\ e.ckpt = UpsertCheckpoint(entry[tp].ckpt, ckpt[tp])
      BY <1>0, EntryRecorded, RecordedFields
    <3>2. Marked(e, "READY_PARTIAL").ckpt = e.ckpt
      BY <1>0, <3>1, RecordedFields
    <3>3. (entry'[tp] = e \/ entry'[tp] = Marked(e, "READY_PARTIAL")) /\ ckpt' = ckpt
      BY <1>3, <2>1, <2>2 DEF ReadCheckpoint, LateReadCheckpoint, ForceStop
    <3> HIDE DEF e
    <3> QED
      BY <1>3, <3>1, <3>2, <3>3
  <2>3. CASE CaptureLogEnd \/ SeekToBeginning \/ ResetToBeginning \/ WriteBack
    BY <1>3, <2>3, ReplayLoops DEF Looped
  <2>4. CASE ClampWriteBack
    <3>1. RecordClamped(entry[tp], cb.target) \in Entries
          /\ RecordClamped(entry[tp], cb.target).ckpt = cb.target
      BY <1>0, EntryRecorded, RecordedFields
    <3>2. entry'[tp] = Marked(RecordClamped(entry[tp], cb.target), "READY")
      BY <1>3, <2>1, <2>4 DEF ClampWriteBack, Finish
    <3> QED
      BY <1>0, <1>3, <2>4, <3>1, <3>2, RecordedFields
  <2>5. CASE PollEmpty \/ ClampRead
    <3>1. \A s : Marked(entry[tp], s).ckpt = entry[tp].ckpt
      BY <1>0, RecordedFields
    <3> QED
      BY <1>3, <2>1, <2>5, <3>1 DEF PollEmpty, ClampRead, ForceStop, Finish
  <2>6. CASE \/ \E n \in 1..BatchSize : PollBatch(n)
             \/ PollOutOfRange \/ ReadLogStart \/ CommitBatch \/ ClampCommit
    BY <2>6 DEF PollBatch, PollOutOfRange, ReadLogStart, CommitBatch, ClampCommit
  <2> QED
    BY <1>1, <2>2, <2>3, <2>4, <2>5, <2>6 DEF Replay
<1> QED
  BY <1>2, <1>3

(* Nothing an append or a hook is about to write back is ahead of the       *)
(* committed checkpoint.                                                   *)
MemInv ==
  /\ MemoryNeverAhead
  /\ \A t \in Tasks : app[t].pc = "committed" => app[t].off <= ckpt[app[t].tp]
  /\ cb.pc = "writeBack" => BatchMax(cb) <= ckpt[cb.tp]
  /\ cb.pc = "clampBack" => cb.target <= ckpt[cb.tp]

(* An append that has committed was counted in, and only it is.            *)
LEMMA CommittedCounted ==
  ASSUME TypeOK, [Next]_vars, NEW t \in Tasks, app'[t].pc = "committed",
         app[t].pc = "committed" => app[t].off <= ckpt[app[t].tp] /\ ckpt[app[t].tp] <= ckpt'[app[t].tp]
  PROVE  app'[t].tp \in TPs /\ app'[t].off <= ckpt'[app'[t].tp]
<1>0. /\ app \in [Tasks -> AppType] /\ IdleApp.pc = "idle" /\ ckpt \in [TPs -> Offsets]
      /\ app[t].pc # "idle" => app[t].tp \in TPs
  BY DEF TypeOK, AppShape, IdleApp
<1>1. CASE app'[t] = app[t]
  <2>1. /\ app[t].tp \in TPs /\ app[t].off \in Int /\ ckpt[app[t].tp] \in Int /\ ckpt'[app[t].tp] \in Int
    BY <1>0, <1>1, TypeStep DEF TypeOK, AppType, Offsets
  <2> QED
    BY <1>1, <2>1
<1>2. CASE CommitAppend(t)
  <2>1. /\ app[t].tp \in TPs /\ app[t].off \in Offsets
        /\ app'[t].tp = app[t].tp /\ app'[t].off = app[t].off
        /\ ckpt'[app[t].tp] = UpsertCheckpoint(ckpt[app[t].tp], app[t].off)
    BY <1>0, <1>2 DEF CommitAppend, AppType
  <2> QED
    BY <1>0, <2>1, UpsertRises
<1>3. ASSUME NEW u \in Tasks, Produce(u) \/ (CommitAppend(u) /\ u # t)
      PROVE  app'[t] = app[t]
  BY <1>0, <1>3 DEF Produce, CommitAppend, AppType
<1>4. ASSUME NEW u \in Tasks, NEW tp \in TPs, HostAppends(u, tp)
      PROVE  app'[t] = app[t]
  BY <1>0, <1>4 DEF HostAppends, StartAppend
<1> QED
  BY <1>0, <1>1, <1>2, <1>3, <1>4, AppChanges

(* Memory stays behind the rows through any step that lowers no row.       *)
LEMMA MemStep ==
  ASSUME TypeOK, MemInv, [Next]_vars, \A tp \in TPs : ckpt[tp] <= ckpt'[tp]
  PROVE  MemInv'
<1>0. /\ cb \in CbType /\ TypeOK'
      /\ \A tp \in TPs : ckpt[tp] \in Offsets /\ ckpt'[tp] \in Int /\ ckpt[tp] \in Int
      /\ \A tp \in TPs : entry[tp].ckpt \in Offsets /\ entry[tp].ckpt \in Int
      /\ \A tp \in TPs : entry[tp].ckpt <= ckpt[tp]
  BY TypeStep DEF TypeOK, Entries, Offsets, MemInv, MemoryNeverAhead
<1>1. MemoryNeverAhead'
  <2> SUFFICES ASSUME NEW tp \in TPs PROVE entry'[tp].ckpt <= ckpt'[tp]
    BY DEF MemoryNeverAhead
  <2>1. ASSUME NEW off \in Offsets, off <= ckpt[tp],
               entry'[tp].ckpt = UpsertCheckpoint(entry[tp].ckpt, off)
        PROVE  entry'[tp].ckpt <= ckpt'[tp]
    BY <1>0, <2>1 DEF UpsertCheckpoint, Offsets
  <2>2. CASE entry'[tp].ckpt = entry[tp].ckpt
    BY <1>0, <2>2
  <2>3. CASE HookRuns
    <3>1. CASE tp = cb.tp /\ WriteBack /\ entry'[tp].ckpt = UpsertCheckpoint(entry[tp].ckpt, BatchMax(cb))
      <4>1. BatchMax(cb) \in Offsets /\ BatchMax(cb) <= ckpt[tp]
        BY <3>1, BatchMaxNat, NatIsOffset DEF WriteBack, MemInv
      <4> QED
        BY <2>1, <3>1, <4>1
    <3>2. CASE tp = cb.tp /\ ClampWriteBack /\ entry'[tp].ckpt = cb.target
      BY <1>0, <3>2 DEF ClampWriteBack, MemInv, CbType, Offsets
    <3>3. CASE entry'[tp].ckpt = UpsertCheckpoint(entry[tp].ckpt, ckpt[tp])
      BY <1>0, <2>1, <3>3
    <3> QED
      BY <2>2, <2>3, <3>1, <3>2, <3>3, EntryWrites DEF HookRuns
  <2>4. CASE Crash
    BY <1>0, <2>4 DEF Crash, Unseen, tableVars, Offsets
  <2>5. ASSUME NEW t \in Tasks, AppendReturns(t)
        PROVE  entry'[tp].ckpt <= ckpt'[tp]
    <3>1. CASE tp = app[t].tp
      <4>1. app[t].off \in Offsets /\ app[t].off <= ckpt[tp] /\ entry[tp] \in Entries
        BY <2>5, <3>1 DEF AppendReturns, MemInv, TypeOK, AppType
      <4>2. entry'[tp] = RecordApplied(entry[tp], app[t].off)
        BY <2>5, <3>1 DEF AppendReturns, TypeOK
      <4> QED
        BY <2>1, <4>1, <4>2, RecordedFields
    <3>2. CASE tp # app[t].tp
      BY <2>2, <2>5, <3>2 DEF AppendReturns, TypeOK
    <3> QED
      BY <3>1, <3>2
  <2> QED
    BY <2>2, <2>3, <2>4, <2>5, BesideHook
<1>2. \A t \in Tasks : app'[t].pc = "committed" => app'[t].off <= ckpt'[app'[t].tp]
  BY CommittedCounted DEF MemInv, TypeOK, AppShape
<1>3. /\ cb'.pc = "writeBack" => BatchMax(cb') <= ckpt'[cb'.tp]
      /\ cb'.pc = "clampBack" => cb'.target <= ckpt'[cb'.tp]
  <2>1. CASE ~HookRuns
    <3> SUFFICES ASSUME cb'.pc \in {"writeBack", "clampBack"}
                 PROVE  /\ cb'.pc = "writeBack" => BatchMax(cb') <= ckpt'[cb'.tp]
                        /\ cb'.pc = "clampBack" => cb'.target <= ckpt'[cb'.tp]
      OBVIOUS
    <3>1. /\ cb'.pc = cb.pc /\ cb'.tp = cb.tp /\ cb'.target = cb.target /\ cb'.lo = cb.lo
          /\ cb'.batch = cb.batch
      BY <1>0, <2>1, BesideHook DEF CbType, RestPcs
    <3>2. cb.tp \in TPs /\ cb.target \in Int /\ (cb.pc = "writeBack" => BatchMax(cb) \in Int)
      BY <1>0, <3>1, WorkingTp, BatchMaxNat DEF CbType, Offsets
    <3> QED
      BY <1>0, <3>1, <3>2 DEF MemInv, BatchMax
  <2>2. CASE HookRuns
    <3>1. cb'.pc = "writeBack" => CommitBatch
      BY <2>2, RestingStep, HookGoes DEF HookRuns, Replay, RestPcs
    <3>2. cb'.pc = "clampBack" => ClampCommit
      BY <2>2, RestingStep, HookGoes DEF HookRuns, Replay, RestPcs
    <3>3. ASSUME CommitBatch
          PROVE  BatchMax(cb') <= ckpt'[cb'.tp] /\ cb'.pc # "clampBack"
      <4>1. cb.tp \in TPs /\ BatchMax(cb) \in Offsets
        BY <3>3, WorkingTp, BatchMaxNat, NatIsOffset DEF CommitBatch
      <4>2. cb'.tp = cb.tp /\ BatchMax(cb') = BatchMax(cb) /\ cb'.pc = "writeBack"
            /\ ckpt'[cb.tp] = UpsertCheckpoint(ckpt[cb.tp], BatchMax(cb))
        BY <1>0, <3>3, <4>1 DEF CommitBatch, CbType, BatchMax, TypeOK
      <4> QED
        BY <1>0, <4>1, <4>2, UpsertRises
    <3>4. ASSUME ClampCommit
          PROVE  cb'.target <= ckpt'[cb'.tp] /\ cb'.pc # "writeBack"
      <4>1. cb.tp \in TPs
        BY <3>4, WorkingTp DEF ClampCommit
      <4>2. cb'.tp = cb.tp /\ cb'.target = cb.target /\ cb'.pc = "clampBack"
            /\ ckpt'[cb.tp] = cb.target /\ cb.target \in Int
        BY <1>0, <3>4, <4>1 DEF ClampCommit, CbType, TypeOK, Offsets
      <4> QED
        BY <4>2
    <3> QED
      BY <3>1, <3>2, <3>3, <3>4
  <2> QED
    BY <2>1, <2>2
<1> QED
  BY <1>1, <1>2, <1>3 DEF MemInv, BatchMax

(* Nothing has been consumed, so all copies are at NoOffset.               *)
LEMMA MemInit == Init => MemInv /\ BoundsInv /\ ClampFalls /\ QuietInv /\ AboveInv /\ NoResetInv
<1> SUFFICES ASSUME Init
             PROVE  MemInv /\ BoundsInv /\ ClampFalls /\ QuietInv /\ AboveInv /\ NoResetInv
  OBVIOUS
<1> USE DEF Init, IdleCb
<1>1. MemInv
  BY DEF MemInv, MemoryNeverAhead, Unseen, IdleApp, NoOffset
<1>2. BoundsInv
  BY DEF BoundsInv, HookBelow, ReplayPcs, PollPcs, IdleApp, NoOffset, LogEnd
<1>3. ClampFalls /\ QuietInv
  BY DEF ClampFalls, QuietInv, IdleApp
<1>4. AboveInv
  BY DEF AboveInv, HookAbove, PollPcs
<1>5. NoResetInv
  BY DEF NoResetInv, ResetPcs
<1> QED
  BY <1>1, <1>2, <1>3, <1>4, <1>5

(* Where no changelog loses its tail, a checkpoint never falls: either the  *)
(* host keeps appends away from a hook at work, or nothing is trimmed and   *)
(* no hook resets.                                                         *)
NoFalls == "regress" \notin Env /\ (Rule("quiesce") \/ "trim" \notin Env)

(* Under NoFalls no step lowers a row.                                     *)
LEMMA NoFallInvariant ==
  ASSUME NoFalls
  PROVE  Spec => [](TypeOK /\ MemInv)
<1>1. TypeOK /\ BoundsInv /\ ClampFalls /\ [Next]_vars => BoundsInv' /\ ClampFalls'
  BY BoundsStep, ClampFallsStep DEF NoFalls
<1>2. ASSUME TypeOK, MemInv, [Next]_vars, ClampCommit => ckpt[cb.tp] <= cb.target
      PROVE  MemInv'
  <2>1. ASSUME NEW tp \in TPs PROVE ckpt[tp] <= ckpt'[tp]
    <3>1. ckpt[tp] \in Int /\ ckpt'[tp] \in Int /\ cb.target \in Int
      BY <1>2, TypeStep DEF TypeOK, CbType, Offsets
    <3> QED
      BY <1>2, <3>1, FallsAtClamp
  <2> QED
    BY <1>2, <2>1, MemStep
<1>3. CASE Rule("quiesce")
  <2>1. TypeOK /\ BoundsInv /\ ClampFalls' /\ QuietInv /\ AboveInv /\ [Next]_vars => AboveInv' /\ QuietInv'
    BY <1>3, AboveStep, QuietStep DEF NoFalls
  <2>2. TypeOK /\ MemInv /\ AboveInv /\ [Next]_vars => MemInv'
    BY <1>2 DEF ClampCommit, AboveInv, HookAbove
  <2> QED
    BY <1>1, <2>1, <2>2, MemInit, TypeCorrect, PTL DEF Spec
<1>4. CASE "trim" \notin Env
  <2>1. TypeOK /\ BoundsInv /\ NoResetInv /\ [Next]_vars => NoResetInv'
    BY <1>4, NoResetStep DEF NoFalls
  <2>2. TypeOK /\ MemInv /\ NoResetInv /\ [Next]_vars => MemInv'
    BY <1>2 DEF ClampCommit, NoResetInv, ResetPcs
  <2> QED
    BY <1>1, <2>1, <2>2, MemInit, TypeCorrect, PTL DEF Spec
<1> QED
  BY <1>3, <1>4 DEF NoFalls

(* What a reader of checkpoint_offset sees is committed: every write-back   *)
(* follows its transaction, and no later one undoes it.  A host that        *)
(* appends during a hook's reset, on a trimmed changelog, loses this: the   *)
(* hook's clamp may lower the checkpoint the append has raised.            *)
THEOREM MemoryIsCommitted ==
  ASSUME NoFalls
  PROVE  Spec => []MemoryNeverAhead
<1>1. MemInv => MemoryNeverAhead
  BY DEF MemInv
<1> QED
  BY <1>1, NoFallInvariant, PTL

-----------------------------------------------------------------------------
(* A READY partition is at the log end. *)

(* Between its awaits a hook holds the checkpoint and the log end of the    *)
(* partition in hand: h are its locals, e the entry, c the stored           *)
(* checkpoint.  Before a reset, position is the next offset to apply; after *)
(* one it restarts at the log start, and the checkpoint is at or above what *)
(* has been replayed from there.                                           *)
Restarted(h, c) ==
  /\ h.replayed => h.position <= c + 1
  /\ ~h.replayed => h.position = h.log_start

HookKnows(h, e, c) ==
  /\ h.pc \in RestPcs \cup {"logEnd", "seek"} => ~h.reset
  /\ h.pc = "logEnd" => e.ckpt = c /\ c = h.stored
  /\ h.pc = "seek" => c = NoOffset
  /\ h.pc \in ReplayPcs => e.leo = h.leo
  /\ h.pc \in ReplayPcs \ {"writeBack", "clampBack"} => e.ckpt = c
  /\ h.pc \in {"commit", "writeBack"} => h.fetch = h.lo + Len(h.batch)
  /\ h.pc = "writeBack" => c = UpsertCheckpoint(e.ckpt, BatchMax(h))
  /\ h.pc \in {"poll", "commit", "writeBack"} /\ ~h.reset =>
       /\ h.position = NextOffset(e.ckpt)
       /\ h.position <= IF h.pc = "poll" THEN h.fetch ELSE h.lo
  /\ h.pc \in {"poll", "commit", "clampRead"} /\ h.reset => Restarted(h, c)
  /\ h.pc = "clampRead" => h.reset /\ h.position = h.leo
  /\ h.pc \in {"clampCommit", "clampBack"} => h.target = h.leo - 1
  /\ h.pc = "clampBack" => c = h.target
  /\ h.pc = "reveal" /\ e.status = "READY" => Lag(e) = 0 /\ e.ckpt = c

KnowsInv == HookKnows(cb, entry[cb.tp], ckpt[cb.tp])

(* At rest, memory is not ahead of what is committed; a clamp is between     *)
(* its two writes at clampBack.                                            *)
RestInv ==
  /\ \A tp \in TPs : (cb.pc = "clampBack" => tp # cb.tp) => entry[tp].ckpt <= ckpt[tp]
  /\ \A t \in Tasks : app[t].pc = "committed" => app[t].off <= ckpt[app[t].tp]

(* What the loop condition needs to be told. *)
LEMMA LoopKnows ==
  ASSUME TypeOK, cb.tp \in TPs, NEW d \in CbType, NEW c \in Offsets, Looped(d, c, d.leo),
         ~d.reset => d.position = NextOffset(c) /\ d.position <= d.fetch,
         d.reset => Restarted(d, c)
  PROVE  HookKnows(cb', entry'[cb.tp], c)
<1>1. /\ cb'.pc \in {"poll", "clampRead", "reveal"}
      /\ cb'.reset = d.reset /\ cb'.position = d.position /\ cb'.leo = d.leo /\ cb'.fetch = d.fetch
      /\ cb'.replayed = d.replayed /\ cb'.log_start = d.log_start
  BY DEF Looped, CbType
<1>2. entry'[cb.tp].ckpt = c /\ entry'[cb.tp].leo = d.leo
  BY DEF Looped
<1>3. CASE cb'.pc = "poll"
  BY <1>1, <1>2, <1>3 DEF HookKnows, ReplayPcs, RestPcs, Restarted
<1>4. CASE cb'.pc = "clampRead"
  <2>1. d.position = d.leo /\ d.reset
    BY <1>4 DEF Looped
  <2> QED
    BY <1>1, <1>2, <1>4, <2>1 DEF HookKnows, ReplayPcs, RestPcs, Restarted
<1>5. CASE cb'.pc = "reveal"
  <2>1. entry'[cb.tp].status = "READY" => d.position = d.leo /\ ~d.reset
    BY <1>5 DEF Looped
  <2>2. d.leo \in Int /\ NextOffset(c) \in Int
    BY DEF CbType, Offsets, NextOffset, NoOffset
  <2> QED
    BY <1>2, <1>5, <2>1, <2>2 DEF HookKnows, ReplayPcs, RestPcs, Lag
<1> QED
  BY <1>1, <1>3, <1>4, <1>5

(* The four steps that reach the loop condition. *)
LEMMA LoopStepsKnow ==
  ASSUME TypeOK, KnowsInv, ckpt' = ckpt,
         CaptureLogEnd \/ SeekToBeginning \/ ResetToBeginning \/ WriteBack
  PROVE  cb'.tp = cb.tp /\ HookKnows(cb', entry'[cb.tp], ckpt[cb.tp])
<1>0. cb \in CbType /\ cb.tp \in TPs
  BY WorkingTp DEF TypeOK, CaptureLogEnd, SeekToBeginning, ResetToBeginning, WriteBack
<1> PICK tp \in TPs, c \in Offsets, n \in Nat, s \in Nat :
      tp = cb.tp /\ c = ckpt[tp] /\ n = LogEnd(tp) /\ s = logStart[tp]
  BY <1>0, LogEndNat DEF TypeOK
<1>1. /\ HookKnows(cb, entry[tp], c) /\ entry[tp].ckpt \in Offsets /\ c \in Int
      /\ cb.stored \in Offsets /\ cb.fetch \in Nat /\ cb.lo \in Nat /\ cb.batch \in Seq(LogRecords)
  BY <1>0 DEF KnowsInv, TypeOK, CbType, Entries, Offsets
<1>2. CASE CaptureLogEnd
  <2>1. cb.pc = "logEnd" /\ ~cb.reset /\ entry[tp].ckpt = c /\ cb.stored = c
    BY <1>1, <1>2 DEF CaptureLogEnd, HookKnows
  <2>2. CASE /\ cb.stored = NoOffset /\ cb' = [cb EXCEPT !.leo = n, !.pc = "seek"]
             /\ entry'[tp].ckpt = entry[tp].ckpt /\ entry'[tp].leo = n
    <3>1. cb'.tp = tp /\ cb'.pc = "seek" /\ cb'.leo = n /\ cb'.reset = cb.reset
      BY <1>0, <2>2 DEF CbType
    <3> QED
      BY <2>1, <2>2, <3>1 DEF HookKnows, ReplayPcs, RestPcs
  <2>3. CASE cb.stored # NoOffset /\ AfterCapture \in CbType /\ Looped(AfterCapture, entry[tp].ckpt, n)
    <3>1. /\ AfterCapture.leo = n /\ AfterCapture.reset = cb.reset /\ AfterCapture.tp = tp
          /\ AfterCapture.position = c + 1 /\ AfterCapture.fetch = c + 1
      BY <1>0, <2>1 DEF AfterCapture, CbType
    <3>2. cb'.tp = tp
      BY <2>3, <3>1 DEF Looped, CbType
    <3> QED
      BY <1>0, <1>1, <2>1, <2>3, <3>1, <3>2, LoopKnows DEF NextOffset
  <2> QED
    BY <1>2, <2>2, <2>3, ReplayLoops
<1>3. CASE SeekToBeginning
  <2>1. /\ cb.pc = "seek" /\ ~cb.reset /\ entry[tp].ckpt = c /\ c = NoOffset /\ entry[tp].leo = cb.leo
        /\ AfterSeek \in CbType /\ Looped(AfterSeek, entry[tp].ckpt, entry[tp].leo)
    BY <1>1, <1>3, ReplayLoops DEF SeekToBeginning, HookKnows, ReplayPcs, RestPcs
  <2>2. /\ AfterSeek.leo = cb.leo /\ AfterSeek.reset = cb.reset /\ AfterSeek.tp = tp
        /\ AfterSeek.position = 0 /\ AfterSeek.fetch = s
    BY <1>0 DEF AfterSeek, CbType
  <2>3. cb'.tp = tp
    BY <2>1, <2>2 DEF Looped, CbType
  <2> QED
    BY <1>0, <2>1, <2>2, <2>3, LoopKnows DEF NextOffset
<1>4. CASE ResetToBeginning
  <2>1. /\ cb.pc = "resetSeek" /\ entry[tp].ckpt = c /\ entry[tp].leo = cb.leo
        /\ AfterReset \in CbType /\ Looped(AfterReset, entry[tp].ckpt, entry[tp].leo)
    BY <1>1, <1>4, ReplayLoops DEF ResetToBeginning, HookKnows, ReplayPcs, RestPcs
  <2>2. /\ AfterReset.leo = cb.leo /\ AfterReset.reset /\ AfterReset.tp = tp
        /\ ~AfterReset.replayed /\ AfterReset.position = AfterReset.log_start
    BY <1>0 DEF AfterReset, CbType
  <2>3. cb'.tp = tp
    BY <2>1, <2>2 DEF Looped, CbType
  <2> QED
    BY <1>0, <2>1, <2>2, <2>3, LoopKnows DEF Restarted
<1>5. CASE WriteBack
  <2>1. /\ cb.pc = "writeBack" /\ c = UpsertCheckpoint(entry[tp].ckpt, BatchMax(cb))
        /\ entry[tp].leo = cb.leo /\ cb.fetch = cb.lo + Len(cb.batch)
        /\ ~cb.reset => cb.position = NextOffset(entry[tp].ckpt) /\ cb.position <= cb.lo
        /\ AfterBatch \in CbType
        /\ Looped(AfterBatch, UpsertCheckpoint(entry[tp].ckpt, BatchMax(cb)), entry[tp].leo)
    BY <1>1, <1>5, ReplayLoops DEF WriteBack, HookKnows, ReplayPcs, RestPcs
  <2>2. /\ AfterBatch.leo = cb.leo /\ AfterBatch.reset = cb.reset /\ AfterBatch.tp = tp
        /\ AfterBatch.replayed /\ AfterBatch.position = BatchMax(cb) + 1 /\ AfterBatch.fetch = cb.fetch
    BY <1>0 DEF AfterBatch, CbType
  <2>3. cb'.tp = tp
    BY <2>1, <2>2 DEF Looped, CbType
  <2>4. BatchMax(cb) \in Nat /\ BatchMax(cb) \in Offsets /\ BatchMax(cb) + 1 = cb.fetch
    BY <2>1, BatchMaxNat, NatIsOffset, BatchEnd
  <2>5. BatchMax(cb) <= c
    BY <1>1, <2>1, <2>4, UpsertRises
  <2>6. ASSUME ~cb.reset PROVE BatchMax(cb) + 1 = NextOffset(c)
    <3>1. cb.lo <= BatchMax(cb)
      <4>1. Len(cb.batch) \in Nat \ {0}
        BY <1>1, <2>1 DEF TypeOK, CbShape
      <4> QED
        BY <1>1, <2>1, <2>4, <4>1
    <3>2. entry[tp].ckpt < BatchMax(cb)
      BY <1>1, <2>1, <2>4, <2>6, <3>1 DEF NextOffset, NoOffset, Offsets
    <3>3. c = BatchMax(cb)
      BY <2>1, <3>2 DEF UpsertCheckpoint
    <3> QED
      BY <2>4, <3>3 DEF NextOffset, NoOffset
  <2>7. AfterBatch.reset => Restarted(AfterBatch, c)
    BY <1>1, <2>2, <2>4, <2>5 DEF Restarted
  <2> QED
    BY <1>0, <2>1, <2>2, <2>3, <2>4, <2>6, <2>7, LoopKnows
<1> QED
  BY <1>2, <1>3, <1>4, <1>5

(* What a clamp reads, stores and writes back. *)
LEMMA ClampsKnow ==
  ASSUME TypeOK, KnowsInv, ClampRead \/ ClampCommit \/ ClampWriteBack
  PROVE  cb'.tp = cb.tp /\ HookKnows(cb', entry'[cb.tp], ckpt'[cb.tp])
<1>0. cb \in CbType /\ cb.tp \in TPs
  BY WorkingTp DEF TypeOK, ClampRead, ClampCommit, ClampWriteBack
<1> PICK tp \in TPs, c \in Offsets, l \in Nat : tp = cb.tp /\ c = ckpt[tp] /\ l = cb.leo
  BY <1>0 DEF TypeOK, CbShape, ReplayPcs, ClampRead, ClampCommit, ClampWriteBack
<1>1. /\ HookKnows(cb, entry[tp], c) /\ entry[tp] \in Entries /\ c \in Int
      /\ cb.target \in Offsets /\ cb.position \in Nat /\ cb.log_start \in Nat
      /\ \A e : SetEntry(e) => entry'[tp] = e
  BY <1>0 DEF KnowsInv, TypeOK, CbType, SetEntry, Offsets
<1>2. CASE ClampRead
  <2>1. /\ ckpt'[tp] = c /\ entry[tp].ckpt = c /\ entry[tp].leo = l
        /\ cb.position = l /\ Restarted(cb, c)
    BY <1>1, <1>2 DEF ClampRead, tableVars, HookKnows, ReplayPcs, RestPcs
  <2>2. CASE ClampTarget(cb, c) = NoOffset
    <3>1. /\ cb'.tp = tp /\ cb'.pc = "reveal"
          /\ entry'[tp].ckpt = c /\ entry'[tp].leo = l
      BY <1>0, <1>1, <1>2, <2>1, <2>2, RecordedFields, NatIsOffset DEF ClampRead, Finish, CbType
    <3>2. c = l - 1
      <4>1. ~(c # NoOffset /\ c > l - 1) /\ ~(~cb.replayed /\ cb.log_start = l)
        BY <1>1, <2>2 DEF ClampTarget, NoOffset
      <4>2. cb.replayed /\ l <= c + 1
        BY <2>1, <4>1 DEF Restarted
      <4> QED
        BY <1>1, <4>1, <4>2 DEF NoOffset
    <3> QED
      BY <1>1, <2>1, <3>1, <3>2 DEF HookKnows, ReplayPcs, RestPcs, Lag, NextOffset, NoOffset
  <2>3. CASE ClampTarget(cb, c) # NoOffset
    <3>1. /\ cb'.tp = tp /\ cb'.pc = "clampCommit" /\ cb'.leo = l /\ cb'.reset = cb.reset
          /\ cb'.target = ClampTarget(cb, c) /\ entry' = entry
      BY <1>0, <1>1, <1>2, <2>3 DEF ClampRead, CbType
    <3>2. ClampTarget(cb, c) = l - 1
      BY <2>3 DEF ClampTarget
    <3> QED
      BY <2>1, <3>1, <3>2 DEF HookKnows, ReplayPcs, RestPcs
  <2> QED
    BY <2>2, <2>3
<1>3. CASE ClampCommit
  <2>1. /\ cb'.tp = tp /\ cb'.pc = "clampBack" /\ cb'.leo = l /\ cb'.target = cb.target
        /\ entry' = entry /\ ckpt'[tp] = cb.target
    BY <1>0, <1>3 DEF ClampCommit, CbType, TypeOK
  <2> QED
    BY <1>1, <1>3, <2>1 DEF ClampCommit, HookKnows, ReplayPcs, RestPcs
<1>4. CASE ClampWriteBack
  <2>1. /\ cb'.tp = tp /\ cb'.pc = "reveal" /\ ckpt'[tp] = c
        /\ entry'[tp].ckpt = cb.target /\ entry'[tp].leo = entry[tp].leo
    <3> DEFINE r == RecordClamped(entry[tp], cb.target)
    <3>1. r \in Entries /\ r.ckpt = cb.target /\ r.leo = entry[tp].leo
      BY <1>1, EntryRecorded, RecordedFields
    <3>2. Marked(r, "READY").ckpt = r.ckpt /\ Marked(r, "READY").leo = r.leo
      BY <1>1, <3>1, RecordedFields
    <3>3. /\ cb'.tp = tp /\ cb'.pc = "reveal" /\ ckpt'[tp] = c
          /\ entry'[tp] = Marked(r, "READY")
      BY <1>0, <1>1, <1>4 DEF ClampWriteBack, Finish, CbType, tableVars
    <3> HIDE DEF r
    <3> QED
      BY <3>1, <3>2, <3>3
  <2>2. cb.target = l - 1 /\ c = cb.target /\ entry[tp].leo = l
    BY <1>1, <1>4 DEF ClampWriteBack, HookKnows, ReplayPcs, RestPcs
  <2> QED
    BY <2>1, <2>2 DEF HookKnows, ReplayPcs, RestPcs, Lag, NextOffset, NoOffset
<1> QED
  BY <1>2, <1>3, <1>4

(* The polls and the transaction of a batch. *)
LEMMA PollsKnow ==
  ASSUME TypeOK, KnowsInv,
         \/ \E n \in 1..BatchSize : PollBatch(n)
         \/ PollEmpty \/ PollOutOfRange \/ ReadLogStart \/ CommitBatch
  PROVE  cb'.tp = cb.tp /\ HookKnows(cb', entry'[cb.tp], ckpt'[cb.tp])
<1>0. cb \in CbType /\ cb.tp \in TPs
  BY WorkingTp DEF TypeOK, PollBatch, PollEmpty, PollOutOfRange, ReadLogStart, CommitBatch
<1> PICK tp \in TPs, c \in Offsets : tp = cb.tp /\ c = ckpt[tp]
  BY <1>0 DEF TypeOK
<1>1. /\ HookKnows(cb, entry[tp], c) /\ entry[tp] \in Entries /\ c \in Int
      /\ cb.position \in Nat /\ cb.fetch \in Nat /\ cb.lo \in Nat
  BY <1>0 DEF KnowsInv, TypeOK, CbType, Offsets
<1> USE DEF HookKnows, ReplayPcs, RestPcs, Restarted
<1>2. ASSUME NEW n \in 1..BatchSize, PollBatch(n)
      PROVE  cb'.tp = tp /\ HookKnows(cb', entry'[tp], ckpt'[tp])
  <2>1. n \in Nat \ {0} /\ log[tp] \in Seq(LogRecords) /\ cb.fetch + n <= Len(log[tp])
    <3>1. n \in Nat \ {0}
      OBVIOUS
    <3> QED
      BY <1>0, <1>2, <3>1 DEF TypeOK, PollBatch, LogEnd
  <2>2. Len(SubSeq(log[tp], cb.fetch + 1, cb.fetch + n)) = n
    BY <1>1, <2>1, SMTT(60)
  <2>3. /\ cb'.tp = tp /\ cb'.pc = "commit" /\ cb'.lo = cb.fetch /\ cb'.fetch = cb.fetch + n
        /\ cb'.batch = SubSeq(log[tp], cb.fetch + 1, cb.fetch + n)
        /\ cb'.reset = cb.reset /\ cb'.position = cb.position /\ cb'.leo = cb.leo
        /\ cb'.replayed = cb.replayed /\ cb'.log_start = cb.log_start
        /\ entry' = entry /\ ckpt' = ckpt /\ cb.pc = "poll"
    BY <1>0, <1>2 DEF PollBatch, CbType, tableVars
  <2> QED
    BY <1>1, <2>2, <2>3
<1>3. CASE PollEmpty
  <2>1. CASE cb' = cb /\ entry' = entry
    BY <1>1, <1>3, <2>1 DEF PollEmpty, tableVars
  <2>2. CASE ForceStop(cb, entry[tp])
    <3>1. cb'.tp = tp /\ cb'.pc = "reveal" /\ entry'[tp].status = "READY_PARTIAL"
      BY <1>0, <1>1, <2>2 DEF ForceStop, SetEntry, Marked, CbType, Entries, TypeOK
    <3> QED
      BY <3>1
  <2> QED
    BY <1>3, <2>1, <2>2 DEF PollEmpty
<1>4. CASE PollOutOfRange \/ ReadLogStart
  <2>1. /\ cb'.tp = tp /\ cb'.pc \in {"resetStart", "resetSeek"} /\ cb'.leo = cb.leo
        /\ entry' = entry /\ ckpt' = ckpt /\ cb.pc \in {"poll", "resetStart"}
    BY <1>0, <1>4 DEF PollOutOfRange, ReadLogStart, CbType, tableVars
  <2> QED
    BY <1>1, <2>1
<1>5. CASE CommitBatch
  <2>1. /\ cb' = [cb EXCEPT !.pc = "writeBack"] /\ cb.pc = "commit"
        /\ entry' = entry /\ ckpt'[tp] = UpsertCheckpoint(c, BatchMax(cb))
    BY <1>5 DEF CommitBatch, TypeOK
  <2>2. /\ cb'.tp = tp /\ cb'.pc = "writeBack" /\ BatchMax(cb') = BatchMax(cb)
        /\ cb'.lo = cb.lo /\ cb'.fetch = cb.fetch /\ cb'.batch = cb.batch
        /\ cb'.reset = cb.reset /\ cb'.position = cb.position /\ cb'.leo = cb.leo
    BY <1>0, <2>1 DEF CbType, BatchMax
  <2> QED
    BY <1>1, <2>1, <2>2
<1> QED
  BY <1>2, <1>3, <1>4, <1>5

(* What a hook holds of its partition stays true from one await to the      *)
(* next: nobody else appends to it or moves its checkpoint.                *)
LEMMA KnowsStep ==
  ASSUME TypeOK, QuietInv, RestInv, KnowsInv, [Next]_vars
  PROVE  KnowsInv'
<1>0. cb \in CbType
  BY DEF TypeOK
<1>1. CASE cb'.pc \in RestPcs /\ ~cb'.reset
  BY <1>1 DEF RestPcs, KnowsInv, HookKnows, ReplayPcs
<1>2. CASE ~HookRuns /\ ~Crash /\ cb' = [cb EXCEPT !.expired = cb'.expired]
  <2>1. /\ cb'.pc = cb.pc /\ cb'.tp = cb.tp /\ cb'.stored = cb.stored /\ cb'.leo = cb.leo
        /\ cb'.position = cb.position /\ cb'.fetch = cb.fetch /\ cb'.lo = cb.lo
        /\ cb'.batch = cb.batch /\ cb'.reset = cb.reset /\ cb'.log_start = cb.log_start
        /\ cb'.replayed = cb.replayed /\ cb'.target = cb.target
    BY <1>0, <1>2 DEF CbType
  <2>2. CASE cb.pc \in RestPcs
    <3>1. ~cb.reset
      BY <2>2 DEF KnowsInv, HookKnows
    <3> QED
      BY <1>1, <2>1, <2>2, <3>1
  <2>3. CASE cb.pc \notin RestPcs
    <3>1. cb.tp \in TPs /\ cb.tp \in cb.todo
      BY <2>3, WorkingTp DEF RestPcs
    <3>2. ckpt'[cb.tp] = ckpt[cb.tp] /\ entry'[cb.tp] = entry[cb.tp]
      BY <1>2, <3>1, QuietCheckpoint
    <3>3. BatchMax(cb') = BatchMax(cb)
      BY <2>1 DEF BatchMax
    <3>4. HookKnows(cb', entry[cb.tp], ckpt[cb.tp])
      BY <2>1, <3>3 DEF KnowsInv, HookKnows, Restarted
    <3> QED
      BY <2>1, <3>2, <3>4 DEF KnowsInv
  <2> QED
    BY <2>2, <2>3
<1>3. CASE Crash
  BY <1>1, <1>3 DEF Crash, IdleCb, RestPcs
<1>4. CASE HookRuns
  <2>0. HookStep
    BY <1>4 DEF HookRuns
  <2>1. CASE ~(Replay \/ ClampRead \/ ClampCommit \/ ClampWriteBack \/ LateReadCheckpoint)
    <3>1. cb'.pc \in RestPcs /\ (~cb'.reset \/ (cb.pc \in RestPcs /\ cb'.reset = cb.reset))
      BY <2>0, <2>1, RestingStep
    <3>2. cb.pc \in RestPcs => ~cb.reset
      BY DEF KnowsInv, HookKnows
    <3> QED
      BY <1>1, <3>1, <3>2
  <2>2. CASE CaptureLogEnd \/ SeekToBeginning \/ ResetToBeginning \/ WriteBack
    <3>1. ckpt' = ckpt
      BY <2>2 DEF CaptureLogEnd, SeekToBeginning, ResetToBeginning, WriteBack, tableVars
    <3>2. cb'.tp = cb.tp /\ HookKnows(cb', entry'[cb.tp], ckpt[cb.tp])
      BY <2>2, <3>1, LoopStepsKnow
    <3> QED
      BY <3>1, <3>2 DEF KnowsInv
  <2>3. CASE ClampRead \/ ClampCommit \/ ClampWriteBack
    BY <2>3, ClampsKnow DEF KnowsInv
  <2>4. CASE \/ \E n \in 1..BatchSize : PollBatch(n)
             \/ PollEmpty \/ PollOutOfRange \/ ReadLogStart \/ CommitBatch
    BY <2>4, PollsKnow DEF KnowsInv
  <2>5. CASE ReadCheckpoint
    <3>1. /\ cb.tp \in TPs /\ cb'.tp = cb.tp /\ cb'.pc = "logEnd" /\ cb'.stored = ckpt[cb.tp]
          /\ cb'.reset = cb.reset /\ cb.pc = "checkpoint" /\ ckpt' = ckpt
          /\ entry' = [entry EXCEPT ![cb.tp] = SeedEntry(entry[cb.tp], ckpt[cb.tp])]
      BY <1>0, <2>5, WorkingTp DEF ReadCheckpoint, CbType, tableVars, SetEntry
    <3>2. ~cb.reset /\ entry[cb.tp].ckpt <= ckpt[cb.tp]
      BY <3>1 DEF KnowsInv, HookKnows, RestPcs, RestInv
    <3>3. /\ entry'[cb.tp].ckpt = UpsertCheckpoint(entry[cb.tp].ckpt, ckpt[cb.tp])
          /\ entry[cb.tp].ckpt \in Int /\ ckpt[cb.tp] \in Int
      BY <3>1, RecordedFields DEF TypeOK, Entries, Offsets
    <3>4. entry'[cb.tp].ckpt = ckpt[cb.tp]
      BY <3>2, <3>3 DEF UpsertCheckpoint
    <3>5. HookKnows(cb', entry'[cb.tp], ckpt[cb.tp])
      BY <3>1, <3>2, <3>4 DEF HookKnows, ReplayPcs, RestPcs
    <3> QED
      BY <3>1, <3>5 DEF KnowsInv
  <2>6. CASE LateReadCheckpoint
    <3>1. /\ cb.tp \in TPs /\ cb'.tp = cb.tp /\ cb'.pc = "reveal"
          /\ entry'[cb.tp].status = "READY_PARTIAL"
      <4> DEFINE e == SeedEntry(entry[cb.tp], ckpt[cb.tp])
      <4>1. cb.tp \in TPs
        BY <2>6, WorkingTp DEF LateReadCheckpoint
      <4>2. e \in Entries
        BY <4>1, EntryRecorded DEF TypeOK
      <4>3. ForceStop(cb, e)
        BY <2>6 DEF LateReadCheckpoint
      <4> HIDE DEF e
      <4> QED
        BY <1>0, <4>1, <4>2, <4>3 DEF ForceStop, SetEntry, Marked, CbType, Entries, TypeOK
    <3> QED
      BY <3>1 DEF KnowsInv, HookKnows, ReplayPcs, RestPcs
  <2> QED
    BY <2>1, <2>2, <2>3, <2>4, <2>5, <2>6 DEF Replay
<1> QED
  BY <1>1, <1>2, <1>3, <1>4, BesideHook

(* Where no hook fails, none leaves its clamp half done. *)
LEMMA RestStep ==
  ASSUME "hook_fails" \notin Env, TypeOK, QuietInv, RestInv, KnowsInv, [Next]_vars
  PROVE  RestInv'
<1>0. /\ cb \in CbType /\ TypeOK'
      /\ \A tp \in TPs : ckpt[tp] \in Offsets /\ ckpt'[tp] \in Int /\ ckpt[tp] \in Int
      /\ \A tp \in TPs : entry[tp].ckpt \in Offsets /\ entry[tp].ckpt \in Int
  BY TypeStep DEF TypeOK, Entries, Offsets
<1>1. ASSUME NEW tp \in TPs, cb'.pc = "clampBack" => tp # cb'.tp
      PROVE  entry'[tp].ckpt <= ckpt'[tp]
  <2>1. ASSUME ckpt'[tp] < ckpt[tp] PROVE FALSE
    <3>1. ClampCommit /\ tp = cb.tp
      BY <2>1, FallsAtClamp
    <3>2. cb'.pc = "clampBack" /\ cb'.tp = cb.tp
      BY <1>0, <3>1 DEF ClampCommit, CbType
    <3> QED
      BY <1>1, <3>1, <3>2
  <2>2. ckpt[tp] <= ckpt'[tp]
    BY <1>0, <2>1
  <2>3. ASSUME NEW off \in Offsets, off <= ckpt[tp], entry[tp].ckpt <= ckpt[tp],
               entry'[tp].ckpt = UpsertCheckpoint(entry[tp].ckpt, off)
        PROVE  entry'[tp].ckpt <= ckpt'[tp]
    BY <1>0, <2>2, <2>3 DEF UpsertCheckpoint, Offsets
  <2>4. CASE cb.pc = "clampBack" /\ tp = cb.tp
    <3>1. ~(cb'.pc = cb.pc /\ cb'.tp = cb.tp)
      BY <1>1, <2>4
    <3>2. CASE HookRuns
      <4>1. ClampWriteBack
        BY <2>4, <3>2 DEF HookRuns, HookStep, EnterPartition, PassOver, Replay, ReadCheckpoint,
           CaptureLogEnd, SeekToBeginning, PollBatch, PollEmpty, PollOutOfRange, ReadLogStart,
           ResetToBeginning, CommitBatch, WriteBack, ClampRead, ClampCommit, LateLogEnd,
           LateReadCheckpoint, Reveal, SkipRevoke, RevokeCommit, RevokeMark
      <4>2. cb'.tp = cb.tp /\ HookKnows(cb', entry'[cb.tp], ckpt'[cb.tp]) /\ cb'.pc = "reveal"
            /\ ckpt' = ckpt /\ ckpt[tp] = cb.target
        BY <2>4, <4>1, ClampsKnow, HookGoes DEF ClampWriteBack, tableVars, KnowsInv, HookKnows
      <4>3. entry'[tp].ckpt = cb.target
        <5> DEFINE r == RecordClamped(entry[tp], cb.target)
        <5>1. r \in Entries /\ r.ckpt = cb.target
          BY <1>0, EntryRecorded, RecordedFields DEF CbType, TypeOK
        <5>2. Marked(r, "READY").ckpt = r.ckpt
          BY <1>0, <5>1, RecordedFields
        <5>3. entry'[tp] = Marked(r, "READY")
          BY <2>4, <4>1 DEF ClampWriteBack, Finish, SetEntry, TypeOK
        <5> HIDE DEF r
        <5> QED
          BY <5>1, <5>2, <5>3
      <4> QED
        BY <1>0, <4>2, <4>3
    <3>3. CASE ~HookRuns
      <4>1. Crash
        <5>1. ASSUME cb' = [cb EXCEPT !.expired = cb'.expired] PROVE FALSE
          BY <1>0, <3>1, <5>1 DEF CbType
        <5>2. ASSUME NEW S \in SUBSET TPs, HostAssigns(S) \/ HostRevokes(S) PROVE FALSE
          BY <2>4, <5>2 DEF HostAssigns, HostRevokes, StartAssign, StartRevoke
        <5>3. ~HookFails
          BY <2>4 DEF HookFails
        <5>4. ASSUME cb' = cb PROVE FALSE
          BY <3>1, <5>4
        <5>5. ~ClockTicks
          BY <1>0, <3>1 DEF ClockTicks, ClockExpires, CbType
        <5>6. ~World /\ ~StartStore /\ ~UNCHANGED vars
          BY <5>4 DEF World, ForeignWrites, OtherOwnerWrites, Trim, Regress, WorldKeeps, StartStore, vars
        <5>7. ASSUME NEW t \in Tasks, \/ AppendProduceFails(t) \/ AppendStorageFails(t) \/ AppendStep(t)
                                      \/ \E p \in TPs : HostAppends(t, p)
              PROVE  FALSE
          BY <5>4, <5>7 DEF AppendProduceFails, AppendStorageFails, AppendStep, HostAppends
        <5> QED
          BY <3>3, <5>2, <5>3, <5>5, <5>6, <5>7 DEF Next, Host
      <4> QED
        BY <1>0, <4>1 DEF Crash, Unseen, tableVars, Offsets
    <3> QED
      BY <3>2, <3>3
  <2>5. CASE ~(cb.pc = "clampBack" /\ tp = cb.tp)
    <3>0. entry[tp].ckpt <= ckpt[tp]
      BY <2>5 DEF RestInv
    <3>1. CASE entry'[tp].ckpt = entry[tp].ckpt
      BY <1>0, <2>2, <3>0, <3>1
    <3>2. CASE HookRuns
      <4>1. ASSUME tp = cb.tp, WriteBack, entry'[tp].ckpt = UpsertCheckpoint(entry[tp].ckpt, BatchMax(cb))
            PROVE  entry'[tp].ckpt <= ckpt'[tp]
        <5>1. /\ BatchMax(cb) \in Offsets
              /\ ckpt[tp] = UpsertCheckpoint(entry[tp].ckpt, BatchMax(cb))
          BY <4>1, BatchMaxNat, NatIsOffset DEF WriteBack, KnowsInv, HookKnows
        <5> QED
          BY <1>0, <2>2, <4>1, <5>1
      <4>2. ASSUME entry'[tp].ckpt = UpsertCheckpoint(entry[tp].ckpt, ckpt[tp])
            PROVE  entry'[tp].ckpt <= ckpt'[tp]
        BY <1>0, <2>3, <3>0, <4>2
      <4>3. tp = cb.tp => ~ClampWriteBack
        BY <2>5 DEF ClampWriteBack
      <4> QED
        BY <3>1, <3>2, <4>1, <4>2, <4>3, EntryWrites DEF HookRuns
    <3>3. CASE Crash
      BY <1>0, <3>3 DEF Crash, Unseen, tableVars, Offsets
    <3>4. ASSUME NEW t \in Tasks, AppendReturns(t)
          PROVE  entry'[tp].ckpt <= ckpt'[tp]
      <4>1. CASE tp = app[t].tp
        <5>1. app[t].off \in Offsets /\ app[t].off <= ckpt[tp] /\ entry[tp] \in Entries
          BY <3>4, <4>1 DEF AppendReturns, RestInv, TypeOK, AppType
        <5>2. entry'[tp] = RecordApplied(entry[tp], app[t].off)
          BY <3>4, <4>1 DEF AppendReturns, TypeOK
        <5> QED
          BY <2>3, <3>0, <5>1, <5>2, RecordedFields
      <4>2. CASE tp # app[t].tp
        BY <3>1, <3>4, <4>2 DEF AppendReturns, TypeOK
      <4> QED
        BY <4>1, <4>2
    <3> QED
      BY <3>1, <3>2, <3>3, <3>4, BesideHook
  <2> QED
    BY <2>4, <2>5
<1>2. ASSUME NEW t \in Tasks, app'[t].pc = "committed"
      PROVE  app'[t].off <= ckpt'[app'[t].tp]
  <2>1. ASSUME app[t].pc = "committed"
        PROVE  app[t].off <= ckpt[app[t].tp] /\ ckpt[app[t].tp] <= ckpt'[app[t].tp]
    <3>1. app[t].tp \in TPs /\ app[t].tp \notin cb.todo
      BY <2>1 DEF TypeOK, AppShape, QuietInv
    <3>2. ASSUME ckpt'[app[t].tp] < ckpt[app[t].tp] PROVE FALSE
      <4>1. ClampCommit /\ cb.tp = app[t].tp
        BY <3>1, <3>2, FallsAtClamp
      <4> QED
        BY <3>1, <4>1 DEF ClampCommit, TypeOK, CbShape
    <3> QED
      BY <1>0, <2>1, <3>1, <3>2 DEF RestInv
  <2> QED
    BY <1>2, <2>1, CommittedCounted
<1> QED
  BY <1>1, <1>2 DEF RestInv

(* No clamp that lowers a checkpoint is cut short between its commit and    *)
(* its write-back: no hook fails, or no log end falls.                     *)
NoHalfClamp == Rule("quiesce") /\ ("hook_fails" \notin Env \/ "regress" \notin Env)

(* Under NoHalfClamp a replay knows the committed checkpoint.              *)
LEMMA KnowsInvariant ==
  ASSUME NoHalfClamp
  PROVE  Spec => [](TypeOK /\ QuietInv /\ RestInv /\ KnowsInv)
<1>0. TypeOK /\ QuietInv /\ RestInv /\ KnowsInv /\ [Next]_vars => QuietInv' /\ KnowsInv'
  BY QuietStep, KnowsStep DEF NoHalfClamp
<1>1. Init => QuietInv /\ RestInv /\ KnowsInv
  <2> SUFFICES ASSUME Init PROVE QuietInv /\ RestInv /\ KnowsInv
    OBVIOUS
  <2>1. QuietInv /\ MemoryNeverAhead
    BY MemInit DEF MemInv
  <2>2. RestInv
    BY <2>1 DEF RestInv, MemoryNeverAhead, Init, IdleApp
  <2>3. KnowsInv
    BY DEF Init, IdleCb, KnowsInv, HookKnows, RestPcs, ReplayPcs
  <2> QED
    BY <2>1, <2>2, <2>3
<1>2. CASE "hook_fails" \notin Env
  <2>1. TypeOK /\ QuietInv /\ RestInv /\ KnowsInv /\ [Next]_vars => RestInv'
    BY <1>2, RestStep
  <2> QED
    BY <1>0, <1>1, <2>1, TypeCorrect, PTL DEF Spec
<1>3. CASE "regress" \notin Env
  <2>1. Spec => [](TypeOK /\ MemInv)
    BY <1>3, NoFallInvariant DEF NoFalls, NoHalfClamp
  <2>2. MemInv => RestInv
    BY DEF MemInv, RestInv, MemoryNeverAhead
  <2> QED
    BY <1>0, <1>1, <2>1, <2>2, PTL DEF Spec
<1> QED
  BY <1>2, <1>3 DEF NoHalfClamp

(* A partition a hook reveals as READY has no lag, and its memory agrees    *)
(* with partition_checkpoint, whether it took the fast path, replayed,     *)
(* reset, or clamped.                                                      *)
THEOREM RevealedAtLogEnd ==
  ASSUME NoHalfClamp
  PROVE  Spec => []ReadyAtLogEnd
<1>1. KnowsInv => ReadyAtLogEnd
  BY DEF KnowsInv, HookKnows, ReadyAtLogEnd
<1> QED
  BY <1>1, KnowsInvariant, PTL

-----------------------------------------------------------------------------
(* checkpoint_offset is live. *)

(* Memory agrees with partition_checkpoint, or an append is about to write  *)
(* back what it has committed.                                             *)
Live(tp) ==
  \/ entry[tp].ckpt = ckpt[tp]
  \/ \E t \in Tasks : app[t].pc = "committed" /\ app[t].tp = tp /\ app[t].off = ckpt[tp]

LiveInv == \A tp \in TPs : Settled(tp) /\ entry[tp].status = "READY" => Live(tp)

(* A partition comes to rest READY by its own reveal. *)
LEMMA SettledStays ==
  ASSUME TypeOK, ViewInv, [Next]_vars, NEW tp \in TPs, Settled(tp)', entry'[tp].status = "READY"
  PROVE  \/ HookRuns /\ cb.pc = "reveal" /\ tp = cb.tp
         \/ Settled(tp) /\ entry[tp].status = "READY"
<1>0. cb \in CbType
  BY DEF TypeOK
<1>1. ASSUME Settled(tp), entry[tp].status # "UNSEEN" => entry'[tp].status = entry[tp].status
      PROVE  entry[tp].status = "READY"
  BY <1>1 DEF Settled, ViewInv, HeldIsVisible
<1>2. CASE \/ World \/ UNCHANGED vars \/ \E t \in Tasks : AppendStep(t)
           \/ \E t \in Tasks : \/ AppendProduceFails(t) \/ AppendStorageFails(t)
                               \/ \E p \in TPs : HostAppends(t, p)
  <2>1. /\ UNCHANGED <<cb, up, claimed, owned>>
        /\ entry[tp].status # "UNSEEN" => entry'[tp].status = entry[tp].status
    BY <1>2, StatusKept
  <2>2. dirty \subseteq dirty'
    BY <1>2 DEF World, ForeignWrites, OtherOwnerWrites, Trim, Regress, WorldKeeps, hostVars, vars,
       AppendStep, AppendProduceFails, AppendStorageFails, HostAppends
  <2>3. Settled(tp)
    BY <2>1, <2>2 DEF Settled
  <2> QED
    BY <1>1, <2>1, <2>3
<1>3. CASE Crash
  BY <1>3 DEF Crash, Settled
<1>4. ASSUME NEW S \in SUBSET TPs, HostAssigns(S) \/ HostRevokes(S)
      PROVE  Settled(tp) /\ entry[tp].status = "READY"
  <2>1. cb.todo = {} /\ cb'.todo = S /\ entry' = entry /\ dirty' = dirty
    BY <1>4 DEF HostAssigns, HostRevokes, StartAssign, StartRevoke, IdleCb, TypeOK, CbShape
  <2>2. claimed' \subseteq claimed \cup S
    BY <1>4 DEF HostAssigns, HostRevokes
  <2> QED
    BY <2>1, <2>2 DEF Settled
<1>5. CASE HookFails
  <2>1. entry' = entry /\ dirty' = dirty /\ claimed' = claimed \ cb.todo
    BY <1>5 DEF HookFails, AbortHook
  <2> QED
    BY <2>1 DEF Settled
<1>6. CASE ClockTicks \/ StartStore
  <2>1. UNCHANGED <<entry, claimed, dirty>> /\ cb'.todo = cb.todo
    BY <1>0, <1>6 DEF ClockTicks, ClockExpires, StartStore, hostVars, CbType
  <2> QED
    BY <2>1 DEF Settled
<1>7. CASE HookRuns
  <2>1. HookFrame /\ claimed' = claimed
    BY <1>7, HookStepFrame DEF HookRuns
  <2>2. CASE tp \notin cb.todo
    <3>1. entry'[tp] = entry[tp]
      BY <2>1, <2>2 DEF HookFrame
    <3>2. tp \in dirty => tp \in dirty' \/ (cb.pc = "reveal" /\ tp = cb.tp)
      BY <1>7 DEF HookRuns
    <3> QED
      BY <1>7, <2>1, <2>2, <3>1, <3>2 DEF Settled
  <2>3. CASE tp \in cb.todo
    <3>1. tp \notin cb'.todo /\ tp \in claimed
      BY <2>1 DEF Settled
    <3>2. cb.pc \notin RevokePcs
      BY <2>3, <3>1 DEF ViewInv
    <3> QED
      BY <1>7, <2>1, <2>3, <3>1, <3>2 DEF HookFrame
  <2> QED
    BY <2>2, <2>3
<1> QED
  BY <1>2, <1>3, <1>4, <1>5, <1>6, <1>7 DEF Next, Host

(* An append on a settled partition leaves it live, or is about to. *)
LEMMA AppendsLive ==
  ASSUME TypeOK, RestInv, NEW tp \in TPs, tp \notin cb.todo, Live(tp),
         NEW t \in Tasks, AppendStep(t)
  PROVE  Live(tp)'
<1>0. /\ app \in [Tasks -> AppType] /\ ckpt \in [TPs -> Offsets] /\ entry \in [TPs -> Entries]
      /\ ckpt[tp] \in Int /\ entry[tp].ckpt \in Offsets /\ entry[tp].ckpt \in Int
      /\ \A u \in Tasks : u # t => app'[u] = app[u]
  BY DEF TypeOK, Offsets, Entries, AppendStep, Produce, CommitAppend, AppendReturns
<1>1. CASE Produce(t)
  <2>1. entry' = entry /\ ckpt' = ckpt /\ app[t].pc # "committed"
    BY <1>1 DEF Produce, tableVars
  <2> QED
    BY <1>0, <2>1 DEF Live
<1>2. CASE CommitAppend(t)
  <2>1. /\ app'[t].pc = "committed" /\ app'[t].tp = app[t].tp /\ app'[t].off = app[t].off
        /\ app[t].pc = "landed" /\ entry' = entry
        /\ ckpt' = [ckpt EXCEPT ![app[t].tp] = UpsertCheckpoint(@, app[t].off)]
    BY <1>0, <1>2 DEF CommitAppend, AppType
  <2>2. CASE app[t].tp = tp /\ app[t].off > ckpt[tp]
    <3>1. ckpt'[tp] = app[t].off
      BY <1>0, <2>1, <2>2 DEF UpsertCheckpoint
    <3> QED
      BY <2>1, <2>2, <3>1 DEF Live
  <2>3. CASE ~(app[t].tp = tp /\ app[t].off > ckpt[tp])
    <3>1. ckpt'[tp] = ckpt[tp]
      BY <1>0, <2>1, <2>3 DEF UpsertCheckpoint
    <3> QED
      BY <1>0, <2>1, <3>1 DEF Live
  <2> QED
    BY <2>2, <2>3
<1>3. CASE AppendReturns(t)
  <2>1. /\ app[t].pc = "committed" /\ app[t].tp \in TPs /\ app[t].off \in Offsets /\ ckpt' = ckpt
        /\ entry' = [entry EXCEPT ![app[t].tp] = RecordApplied(@, app[t].off)]
    BY <1>0, <1>3 DEF AppendReturns, tableVars, TypeOK, AppShape, AppType
  <2>2. CASE app[t].tp # tp
    BY <1>0, <2>1, <2>2 DEF Live
  <2>3. CASE app[t].tp = tp
    <3>1. entry'[tp].ckpt = UpsertCheckpoint(entry[tp].ckpt, app[t].off)
      BY <1>0, <2>1, <2>3, RecordedFields
    <3>2. app[t].off <= ckpt[tp] /\ entry[tp].ckpt <= ckpt[tp] /\ app[t].off \in Int
      <4>1. cb.pc = "clampBack" => tp # cb.tp
        BY DEF TypeOK, CbShape
      <4> QED
        BY <2>1, <2>3, <4>1 DEF RestInv, Offsets
    <3>3. CASE entry[tp].ckpt = ckpt[tp] \/ app[t].off = ckpt[tp]
      <4>1. entry'[tp].ckpt = ckpt[tp]
        BY <1>0, <3>1, <3>2, <3>3 DEF UpsertCheckpoint
      <4> QED
        BY <2>1, <4>1 DEF Live
    <3>4. CASE ~(entry[tp].ckpt = ckpt[tp] \/ app[t].off = ckpt[tp])
      BY <1>0, <2>1, <3>4 DEF Live
    <3> QED
      BY <3>3, <3>4
  <2> QED
    BY <2>2, <2>3
<1> QED
  BY <1>1, <1>2, <1>3 DEF AppendStep

(* A READY partition rehydrated after storage errors stays live.           *)
LEMMA LiveStep ==
  ASSUME Rule("rehydrate_after_storage_error"),
         TypeOK, RestInv, KnowsInv, ViewInv, LiveInv, [Next]_vars
  PROVE  LiveInv'
<1> SUFFICES ASSUME NEW tp \in TPs, Settled(tp)', entry'[tp].status = "READY"
             PROVE  Live(tp)'
  BY DEF LiveInv, Live, Settled
<1>1. CASE HookRuns /\ cb.pc = "reveal" /\ tp = cb.tp
  <2>1. entry' = entry
    BY <1>1, HookRevealEnds DEF HookRuns
  <2>2. ckpt' = ckpt
    BY <1>1, TableWriters DEF HookRuns, CommitBatch, ClampCommit, AppendStep, CommitAppend, appVars,
       TypeOK, AppType
  <2>3. entry[tp].ckpt = ckpt[tp]
    BY <1>1, <2>1 DEF KnowsInv, HookKnows
  <2> QED
    BY <2>1, <2>2, <2>3 DEF Live
<1>2. CASE Settled(tp) /\ entry[tp].status = "READY"
  <2>0. Live(tp) /\ tp \notin cb.todo
    BY <1>2 DEF LiveInv, Settled
  <2>1. ASSUME entry'[tp] = entry[tp], ckpt'[tp] = ckpt[tp],
               \A u \in Tasks : app[u].pc = "committed" /\ app[u].tp = tp => app'[u] = app[u]
        PROVE  Live(tp)'
    BY <2>0, <2>1 DEF Live
  <2>2. CASE HookRuns
    <3>1. entry'[tp] = entry[tp] /\ app' = app
      BY <2>0, <2>2, HookStepFrame DEF HookRuns, HookFrame, appVars
    <3>2. ckpt'[tp] = ckpt[tp]
      <4>1. CASE CommitBatch \/ ClampCommit
        <5>1. cb.tp \in cb.todo
          BY <4>1 DEF CommitBatch, ClampCommit, TypeOK, CbShape
        <5> QED
          BY <2>0, <4>1, <5>1 DEF CommitBatch, ClampCommit, TypeOK
      <4>2. CASE \E t \in Tasks : CommitAppend(t)
        BY <3>1, <4>2 DEF CommitAppend, TypeOK, AppType
      <4> QED
        BY <4>1, <4>2, TableWriters
    <3> QED
      BY <2>1, <3>1, <3>2
  <2>3. CASE \E t \in Tasks : AppendStep(t)
    BY <2>0, <2>3, AppendsLive
  <2>4. ASSUME NEW t \in Tasks, \/ AppendProduceFails(t) \/ AppendStorageFails(t)
                                \/ \E p \in TPs : HostAppends(t, p)
        PROVE  Live(tp)'
    <3>1. /\ entry' = entry /\ ckpt' = ckpt
          /\ \A u \in Tasks : u # t => app'[u] = app[u]
      BY <2>4 DEF AppendProduceFails, AppendStorageFails, HostAppends, ProduceFails, MaterializeFails,
         StartAppend, tableVars, TypeOK
    <3>2. app[t].pc = "committed" => app[t].tp # tp
      BY <2>4 DEF AppendProduceFails, AppendStorageFails, HostAppends, ProduceFails, StartAppend, Settled
    <3> QED
      BY <2>1, <3>1, <3>2
  <2>5. CASE World \/ UNCHANGED vars \/ ClockTicks \/ StartStore \/ HookFails
    BY <2>1, <2>5 DEF World, ForeignWrites, OtherOwnerWrites, Trim, Regress, WorldKeeps, tableVars,
       vars, ClockTicks, ClockExpires, StartStore, HookFails, AbortHook, appVars
  <2>6. ASSUME NEW S \in SUBSET TPs, HostAssigns(S) \/ HostRevokes(S)
        PROVE  Live(tp)'
    BY <2>1, <2>6 DEF HostAssigns, HostRevokes, StartAssign, StartRevoke, appVars, tableVars
  <2>7. ~Crash
    BY DEF Crash, Settled
  <2> QED
    BY <2>2, <2>3, <2>4, <2>5, <2>6, <2>7 DEF Next, Host
<1> QED
  BY <1>1, <1>2, SettledStays

(* What a reader of checkpoint_offset sees of a partition at rest is the     *)
(* committed checkpoint.  A transaction that commits and is then reported   *)
(* as failed leaves it behind until the rehydrate the documentation asks    *)
(* for; a clamp left half done leaves it ahead.                            *)
THEOREM CheckpointStaysLive ==
  ASSUME NoHalfClamp, Rule("rehydrate_after_storage_error")
  PROVE  Spec => []CheckpointIsLive
<1>1. Init => LiveInv
  BY DEF Init, LiveInv, Settled
<1>2. TypeOK /\ RestInv /\ KnowsInv /\ ViewInv /\ LiveInv /\ [Next]_vars => LiveInv'
  BY LiveStep
<1>3. LiveInv => CheckpointIsLive
  BY DEF LiveInv, Live, CheckpointIsLive, AppendsOn
<1> QED
  BY <1>1, <1>2, <1>3, KnowsInvariant, ViewSafety, PTL DEF Spec
=============================================================================
