-------------------------- MODULE ReplicaViewProofs --------------------------
(***************************************************************************)
(* What the records view of the replica shows: the partitions in _owned,   *)
(* the statuses a reader sees for them, and the hooks that add and remove  *)
(* them.  Nothing here depends on the order in which records are applied,  *)
(* so little is asked of the host, and nothing of the broker.              *)
(***************************************************************************)
EXTENDS ReplicaSafetyProofs

(* The statuses of a partition that has been revealed. *)
Shown == {"READY", "READY_PARTIAL"}

(* Of the partitions in the view, and of those this host holds. *)
ViewInv ==
  /\ ~up => claimed = {} /\ cb.pc = "idle"
  /\ cb.pc \in RevokePcs => cb.todo \cap claimed = {}
  /\ cb.pc = "reveal" => entry[cb.tp].status \in Shown
  /\ cb.pc = "revokeMark" => cb.tp \notin owned
  /\ up => \A tp \in owned : entry[tp].status # "UNSEEN"
  /\ HeldIsVisible

(* With revoke_first an assigned partition is hidden until its own reveal. *)
HiddenInv ==
  /\ cb.pc \in AssignPcs => cb.todo \cap owned = {}
  /\ HiddenUntilReplayed

-----------------------------------------------------------------------------
(* What a step of a hook does to the view. *)

HookView ==
  /\ cb'.pc = "reveal" => entry'[cb'.tp].status \in Shown
  /\ cb'.pc = "revokeMark" => cb'.tp \notin owned'
  /\ \A tp \in TPs : entry'[tp].status = "UNSEEN" => entry[tp].status = "UNSEEN"
  /\ \/ owned' = owned
     \/ cb.pc = "reveal" /\ owned' = owned \cup {cb.tp}
     \/ cb.pc = "revoke" /\ \E tp \in cb.todo : owned' = owned \ {tp}
  /\ \A tp \in cb.todo \ cb'.todo :
       \/ cb.pc = "reveal" /\ tp = cb.tp /\ tp \in owned'
       \/ cb.pc = "revoke" /\ entry[tp].status = "UNSEEN" /\ owned' = owned
       \/ cb.pc = "revokeMark" /\ tp = cb.tp /\ owned' = owned

(* The operations of _state.py keep an entry met, and mark it as they say. *)
LEMMA MetStays ==
  ASSUME NEW e \in Entries, NEW off \in Offsets
  PROVE  /\ \A s \in Statuses : Marked(e, s).status = s
         /\ RecordApplied(e, off).status # "UNSEEN"
         /\ RecordClamped(e, off).status # "UNSEEN"
         /\ RecordLogEnd(e, off).status # "UNSEEN"
         /\ SeedEntry(e, off).status = "UNSEEN" => e.status = "UNSEEN"
         /\ e.status # "UNSEEN" => RecordApplied(e, off).status = e.status
  BY DEF Entries, Statuses, Marked, RecordApplied, RecordClamped, RecordLogEnd, SeedEntry, Touched

(* A step that stays with its partition, in a poll or at a reveal that mark *)
(* the entry, leaves the view alone.                                       *)
LEMMA ViewOfReplay ==
  ASSUME TypeOK, cb.tp \in TPs, NEW e \in Entries, SetEntry(e),
         e.status = "UNSEEN" => entry[cb.tp].status = "UNSEEN",
         owned' = owned, cb'.todo = cb.todo, cb'.pc # "revokeMark",
         cb'.pc = "reveal" => cb'.tp = cb.tp /\ e.status \in Shown
  PROVE  HookView
<1>1. entry'[cb.tp] = e /\ \A tp \in TPs : tp # cb.tp => entry'[tp] = entry[tp]
  BY DEF SetEntry, TypeOK
<1> QED
  BY <1>1 DEF HookView

(* Going on with a replay leaves the records view as it was or reveals.    *)
LEMMA ViewOfLoop ==
  ASSUME TypeOK, cb.tp \in TPs, NEW c \in CbType, c.todo = cb.todo, c.tp = cb.tp,
         NEW e \in Entries, e.status = "UNSEEN" => entry[cb.tp].status = "UNSEEN",
         LoopHead(c, e) \/ Finish(c, e) \/ ForceStop(c, e), owned' = owned
  PROVE  HookView
<1>1. cb'.todo = cb.todo /\ cb'.tp = cb.tp /\ cb'.pc \in {"poll", "clampRead", "reveal"}
  BY LoopHeadGoes
<1>2. \/ SetEntry(e) /\ cb'.pc # "reveal"
      \/ SetEntry(Marked(e, "READY")) \/ SetEntry(Marked(e, "READY_PARTIAL"))
  BY DEF LoopHead, Finish, ForceStop, CbType
<1>3. /\ Marked(e, "READY") \in Entries /\ Marked(e, "READY").status = "READY"
      /\ Marked(e, "READY_PARTIAL") \in Entries /\ Marked(e, "READY_PARTIAL").status = "READY_PARTIAL"
  BY EntryMarked DEF Marked, Entries, Statuses
<1> QED
  BY <1>1, <1>2, <1>3, ViewOfReplay DEF Shown

(* Not less met than the entry in hand. *)
Met(e) == e \in Entries /\ (e.status = "UNSEEN" => entry[cb.tp].status = "UNSEEN")

(* Every step of a hook that works on one partition. *)
LEMMA ViewOfStep ==
  ASSUME TypeOK, cb.pc \notin {"idle", "ensure", "revoke"}, HookStep
  PROVE  HookView
<1> USE DEF tableVars
<1>0. cb \in CbType /\ cb.tp \in TPs /\ cb.tp \in cb.todo /\ entry[cb.tp] \in Entries
      /\ ckpt[cb.tp] \in Offsets /\ LogEnd(cb.tp) \in Offsets /\ cb.target \in Offsets
      /\ logStart[cb.tp] \in Nat
  BY WorkingTp, LogEndNat, NatIsOffset DEF TypeOK, CbType
<1>1. CASE ReadCheckpoint \/ LateLogEnd
  <2>1. /\ Met(SeedEntry(entry[cb.tp], ckpt[cb.tp]))
        /\ Met(RecordLogEnd(entry[cb.tp], LogEnd(cb.tp)))
    BY <1>0, EntryRecorded, MetStays DEF Met
  <2>2. PICK e \in Entries : Met(e) /\ SetEntry(e)
    BY <1>1, <2>1 DEF ReadCheckpoint, LateLogEnd, Met
  <2>3. owned' = owned /\ cb'.todo = cb.todo /\ cb'.pc \in {"logEnd", "lateRead"}
    BY <1>0, <1>1 DEF ReadCheckpoint, LateLogEnd, CbType
  <2> QED
    BY <1>0, <2>2, <2>3, ViewOfReplay DEF Met
<1>2. CASE CaptureLogEnd
  <2> DEFINE e == Marked(RecordLogEnd(entry[cb.tp], LogEnd(cb.tp)), "RESTORING")
             d == [cb EXCEPT !.leo = LogEnd(cb.tp), !.position = cb.stored + 1,
                             !.fetch = cb.stored + 1]
  <2>1. e \in Entries /\ e.status = "RESTORING"
    BY <1>0, EntryRecorded, EntryMarked, MetStays DEF Statuses
  <2>2. owned' = owned
    BY <1>2 DEF CaptureLogEnd
  <2>3. CASE cb.stored = NoOffset
    <3>1. SetEntry(e) /\ cb' = [cb EXCEPT !.leo = LogEnd(cb.tp), !.pc = "seek"]
      BY <1>0, <1>2, <2>3 DEF CaptureLogEnd, CbType
    <3>2. cb'.todo = cb.todo /\ cb'.pc = "seek"
      BY <1>0, <3>1 DEF CbType
    <3> HIDE DEF e
    <3> QED
      BY <1>0, <2>1, <2>2, <3>1, <3>2, ViewOfReplay
  <2>4. CASE cb.stored # NoOffset
    <3>1. LoopHead(d, e)
      BY <1>2, <2>4, <1>0 DEF CaptureLogEnd, CbType
    <3>2. LogEnd(cb.tp) \in Offsets /\ cb.stored + 1 \in Nat
      BY <1>0, <2>4, SMTT(60) DEF CbType, Offsets, NoOffset
    <3>3. d \in CbType /\ d.todo = cb.todo /\ d.tp = cb.tp
      BY <1>0, <3>2 DEF CbType
    <3> HIDE DEF d, e
    <3> QED
      BY <1>0, <2>1, <2>2, <3>1, <3>3, ViewOfLoop
  <2> QED
    BY <2>3, <2>4
<1>3. CASE SeekToBeginning \/ ResetToBeginning
  <2> DEFINE c == [cb EXCEPT !.position = 0, !.fetch = logStart[cb.tp]]
             d == [cb EXCEPT !.fetch = logStart[cb.tp], !.position = cb.log_start,
                             !.reset = TRUE, !.replayed = FALSE]
  <2>1. /\ c \in CbType /\ c.todo = cb.todo /\ c.tp = cb.tp
        /\ d \in CbType /\ d.todo = cb.todo /\ d.tp = cb.tp
    BY <1>0 DEF CbType
  <2>2. /\ LoopHead(c, entry[cb.tp]) \/ LoopHead(d, entry[cb.tp]) \/ ForceStop(d, entry[cb.tp])
        /\ owned' = owned
    BY <1>3 DEF SeekToBeginning, ResetToBeginning
  <2> HIDE DEF c, d
  <2> QED
    BY <1>0, <2>1, <2>2, ViewOfLoop
<1>4. CASE WriteBack
  <2> DEFINE e == RecordApplied(entry[cb.tp], BatchMax(cb))
             c == [cb EXCEPT !.position = BatchMax(cb) + 1, !.replayed = TRUE,
                             !.lo = 0, !.batch = <<>>]
  <2>1. BatchMax(cb) \in Nat /\ BatchMax(cb) \in Offsets
    BY <1>4, BatchMaxNat, NatIsOffset DEF WriteBack
  <2>2. e \in Entries /\ e.status # "UNSEEN"
    BY <1>0, <2>1, EntryRecorded, MetStays
  <2>3. BatchMax(cb) + 1 \in Nat /\ <<>> \in Seq(LogRecords)
    BY <2>1
  <2>4. c \in CbType /\ c.todo = cb.todo /\ c.tp = cb.tp
    BY <1>0, <2>3 DEF CbType
  <2>5. (LoopHead(c, e) \/ ForceStop(c, e)) /\ owned' = owned
    BY <1>4 DEF WriteBack
  <2> HIDE DEF c, e
  <2> QED
    BY <1>0, <2>2, <2>4, <2>5, ViewOfLoop
<1>5. CASE LateReadCheckpoint \/ ClampWriteBack
  <2>1. /\ Met(SeedEntry(entry[cb.tp], ckpt[cb.tp]))
        /\ Met(RecordClamped(entry[cb.tp], cb.target))
    BY <1>0, EntryRecorded, MetStays DEF Met
  <2>2. PICK e \in Entries : Met(e) /\ (Finish(cb, e) \/ ForceStop(cb, e))
    BY <1>5, <2>1 DEF LateReadCheckpoint, ClampWriteBack, Met
  <2>3. owned' = owned
    BY <1>5 DEF LateReadCheckpoint, ClampWriteBack
  <2> QED
    BY <1>0, <2>2, <2>3, ViewOfLoop DEF Met
<1>6. CASE \/ \E n \in 1..BatchSize : PollBatch(n)
           \/ PollOutOfRange \/ ReadLogStart \/ CommitBatch \/ ClampCommit
  <2>1. /\ cb'.todo = cb.todo /\ entry' = entry /\ owned' = owned
        /\ cb'.pc \notin {"reveal", "revokeMark"}
    BY <1>0, <1>6 DEF PollBatch, PollOutOfRange, ReadLogStart, CommitBatch, ClampCommit, CbType
  <2> QED
    BY <2>1 DEF HookView
<1>7. CASE PollEmpty \/ ClampRead
  <2>1. owned' = owned /\ cb.pc \in {"poll", "clampRead"}
    BY <1>7 DEF PollEmpty, ClampRead
  <2>2. CASE ForceStop(cb, entry[cb.tp]) \/ Finish(cb, entry[cb.tp])
    BY <1>0, <2>1, <2>2, ViewOfLoop
  <2>3. CASE /\ entry' = entry
             /\ \/ cb' = cb
                \/ cb' = [cb EXCEPT !.pc = "clampCommit", !.target = ClampTarget(cb, ckpt[cb.tp])]
    <3>1. cb'.todo = cb.todo /\ cb'.pc \notin {"reveal", "revokeMark"}
      BY <1>0, <2>1, <2>3 DEF CbType
    <3> QED
      BY <2>1, <2>3, <3>1 DEF HookView
  <2> QED
    BY <1>7, <2>2, <2>3 DEF PollEmpty, ClampRead
<1>8. CASE Reveal
  <2>1. cb'.todo = cb.todo \ {cb.tp} /\ cb'.pc \in {"idle", "ensure"}
    BY <1>0, <1>8, DoneShape DEF Reveal
  <2> QED
    BY <1>0, <1>8, <2>1 DEF Reveal, HookView
<1>9. CASE RevokeMark
  <2>1. cb'.todo = cb.todo \ {cb.tp} /\ cb'.pc \in {"idle", "revoke"}
    BY <1>0, <1>9, DoneShape DEF RevokeMark
  <2>2. entry'[cb.tp].status = "STANDBY" /\ \A tp \in TPs : tp # cb.tp => entry'[tp] = entry[tp]
    BY <1>0, <1>9, MetStays DEF RevokeMark, SetEntry, TypeOK, Statuses
  <2> QED
    BY <1>0, <1>9, <2>1, <2>2 DEF RevokeMark, HookView
<1>10. ~(\E tp \in TPs : EnterPartition(tp) \/ PassOver(tp) \/ SkipRevoke(tp) \/ RevokeCommit(tp))
  BY DEF EnterPartition, PassOver, SkipRevoke, RevokeCommit
<1> QED
  BY <1>1, <1>2, <1>3, <1>4, <1>5, <1>6, <1>7, <1>8, <1>9, <1>10 DEF HookStep, Replay

(* Every step of a hook keeps to HookView.                                 *)
LEMMA HookViewStep ==
  ASSUME TypeOK, HookStep
  PROVE  HookView
<1>0. cb \in CbType
  BY DEF TypeOK
<1>1. ASSUME NEW tp \in TPs, EnterPartition(tp) \/ PassOver(tp)
      PROVE  HookView
  BY <1>1 DEF EnterPartition, PassOver, Begin, IdleCb, tableVars, HookView
<1>2. ASSUME NEW tp \in TPs, SkipRevoke(tp)
      PROVE  HookView
  <2>1. [cb EXCEPT !.tp = tp] \in CbType /\ tp \in cb.todo
    BY <1>0, <1>2 DEF CbType, SkipRevoke
  <2>2. [cb EXCEPT !.tp = tp].tp = tp /\ [cb EXCEPT !.tp = tp].todo = cb.todo
    BY <1>0 DEF CbType
  <2>3. cb'.todo = cb.todo \ {tp} /\ cb'.pc \in {"idle", "revoke"}
    BY <1>2, <2>1, <2>2, DoneShape DEF SkipRevoke
  <2> QED
    BY <1>2, <2>3 DEF SkipRevoke, tableVars, HookView
<1>3. ASSUME NEW tp \in TPs, RevokeCommit(tp)
      PROVE  HookView
  BY <1>0, <1>3 DEF RevokeCommit, CbType, HookView
<1>4. CASE cb.pc \in {"idle", "ensure", "revoke"}
  <2>1. \/ \E tp \in TPs : EnterPartition(tp) \/ PassOver(tp) \/ SkipRevoke(tp) \/ RevokeCommit(tp)
    BY <1>4 DEF HookStep, Replay, ReadCheckpoint, CaptureLogEnd, SeekToBeginning, PollBatch,
       PollEmpty, PollOutOfRange, ReadLogStart, ResetToBeginning, CommitBatch, WriteBack,
       ClampRead, ClampCommit, ClampWriteBack, LateLogEnd, LateReadCheckpoint, Reveal, RevokeMark
  <2> QED
    BY <1>1, <1>2, <1>3, <2>1
<1> QED
  BY <1>4, ViewOfStep

-----------------------------------------------------------------------------
(* The view from step to step. *)

(* An append and the rest of the world leave the statuses alone, but that   *)
(* of a partition never met.                                               *)
LEMMA ViewBeside ==
  ASSUME TypeOK, ViewInv, UNCHANGED <<cb, up, claimed, owned>>,
         \A tp \in TPs : entry[tp].status # "UNSEEN" => entry'[tp].status = entry[tp].status
  PROVE  ViewInv' /\ (HiddenInv => HiddenInv')
<1>1. cb.pc = "reveal" => cb.tp \in TPs
  BY WorkingTp
<1>2. owned \subseteq TPs /\ claimed \subseteq TPs
  BY DEF TypeOK
<1>3. ViewInv'
  BY <1>1, <1>2 DEF ViewInv, Shown, HeldIsVisible
<1>4. HiddenInv => HiddenInv'
  BY <1>2 DEF HiddenInv, HiddenUntilReplayed
<1> QED
  BY <1>3, <1>4

(* No append, world event or stutter touches the view or a status.         *)
LEMMA StatusKept ==
  ASSUME TypeOK, \/ World \/ UNCHANGED vars \/ \E t \in Tasks : AppendStep(t)
                 \/ \E t \in Tasks : \/ AppendProduceFails(t) \/ AppendStorageFails(t)
                                     \/ \E tp \in TPs : HostAppends(t, tp)
  PROVE  /\ UNCHANGED <<cb, up, claimed, owned>>
         /\ \A tp \in TPs : entry[tp].status # "UNSEEN" => entry'[tp].status = entry[tp].status
<1>1. CASE World \/ UNCHANGED vars
  BY <1>1 DEF World, ForeignWrites, OtherOwnerWrites, Trim, Regress, WorldKeeps, tableVars,
     hostVars, vars
<1>2. ASSUME NEW t \in Tasks, AppendReturns(t), UNCHANGED <<cb, hostVars>>
      PROVE  /\ UNCHANGED <<cb, up, claimed, owned>>
             /\ \A tp \in TPs : entry[tp].status # "UNSEEN" => entry'[tp].status = entry[tp].status
  <2>1. app[t].tp \in TPs /\ app[t].off \in Offsets
    BY <1>2 DEF TypeOK, AppShape, AppendReturns, AppType
  <2>2. entry[app[t].tp] \in Entries
    BY <2>1 DEF TypeOK
  <2>3. entry[app[t].tp].status # "UNSEEN" =>
          RecordApplied(entry[app[t].tp], app[t].off).status = entry[app[t].tp].status
    BY <2>1, <2>2, MetStays
  <2> QED
    BY <1>2, <2>1, <2>3 DEF TypeOK, AppendReturns, tableVars, hostVars
<1>3. ASSUME NEW t \in Tasks, Produce(t) \/ CommitAppend(t), UNCHANGED <<cb, hostVars>>
      PROVE  UNCHANGED <<cb, up, claimed, owned, entry>>
  BY <1>3 DEF Produce, CommitAppend, tableVars, hostVars
<1>4. ASSUME NEW t \in Tasks, \/ AppendProduceFails(t) \/ AppendStorageFails(t)
                              \/ \E tp \in TPs : HostAppends(t, tp)
      PROVE  UNCHANGED <<cb, up, claimed, owned, entry>>
  BY <1>4 DEF AppendProduceFails, AppendStorageFails, HostAppends, ProduceFails,
     MaterializeFails, StartAppend, tableVars, hostVars
<1> QED
  BY <1>1, <1>2, <1>3, <1>4 DEF AppendStep

(* A reveal is done with its partition. *)
LEMMA HookRevealEnds ==
  ASSUME TypeOK, HookStep, cb.pc = "reveal"
  PROVE  cb.tp \notin cb'.todo /\ entry' = entry
<1>1. Reveal
  BY DEF HookStep, Replay, EnterPartition, PassOver, SkipRevoke, RevokeCommit,
     ReadCheckpoint, CaptureLogEnd, SeekToBeginning, PollBatch,
     PollEmpty, PollOutOfRange, ReadLogStart, ResetToBeginning, CommitBatch, WriteBack,
     ClampRead, ClampCommit, ClampWriteBack, LateLogEnd, LateReadCheckpoint, RevokeMark
<1>2. cb \in CbType /\ cb.tp \in cb.todo
  BY WorkingTp DEF TypeOK
<1> QED
  BY <1>1, <1>2, DoneShape DEF Reveal

(* A revoke changes no entry but that of the partition it has just hidden. *)
LEMMA HookRevokeEntries ==
  ASSUME TypeOK, HookStep, cb.pc \notin AssignPcs
  PROVE  \/ entry' = entry
         \/ cb.pc = "revokeMark" /\ \A tp \in TPs : tp # cb.tp => entry'[tp] = entry[tp]
<1>1. RevokeMark \/ \E tp \in TPs : SkipRevoke(tp) \/ RevokeCommit(tp)
  BY DEF HookStep, Replay, EnterPartition, PassOver, AssignPcs, ReplayPcs,
     ReadCheckpoint, CaptureLogEnd, SeekToBeginning, PollBatch,
     PollEmpty, PollOutOfRange, ReadLogStart, ResetToBeginning, CommitBatch, WriteBack,
     ClampRead, ClampCommit, ClampWriteBack, LateLogEnd, LateReadCheckpoint, Reveal
<1> QED
  BY <1>1 DEF RevokeMark, SkipRevoke, RevokeCommit, SetEntry, TypeOK

(* A step of a hook keeps both invariants of the view.                     *)
LEMMA ViewHookRuns ==
  ASSUME TypeOK, ViewInv, HookRuns
  PROVE  ViewInv' /\ (HiddenInv => HiddenInv')
<1>1. HookFrame /\ HookView /\ UNCHANGED <<up, claimed>>
  BY HookStepFrame, HookViewStep DEF HookRuns
<1>2. up /\ cb.pc # "idle"
  BY DEF ViewInv, HookRuns, HookStep, Replay, EnterPartition, PassOver, SkipRevoke, RevokeCommit,
     ReadCheckpoint, CaptureLogEnd, SeekToBeginning, PollBatch,
     PollEmpty, PollOutOfRange, ReadLogStart, ResetToBeginning, CommitBatch, WriteBack,
     ClampRead, ClampCommit, ClampWriteBack, LateLogEnd, LateReadCheckpoint, Reveal, RevokeMark
<1>3. /\ owned \subseteq TPs /\ claimed \subseteq TPs /\ cb.todo \subseteq TPs
      /\ cb.pc = "reveal" => cb.tp \in TPs /\ cb.tp \in cb.todo
  BY WorkingTp DEF TypeOK, CbType
<1>4. owned' \subseteq TPs
  BY <1>1, <1>3 DEF HookView
<1>5. \A tp \in owned' : entry'[tp].status # "UNSEEN"
  <2> SUFFICES ASSUME NEW tp \in owned', entry'[tp].status = "UNSEEN"
               PROVE  FALSE
    OBVIOUS
  <2>1. tp \in TPs /\ entry[tp].status = "UNSEEN"
    BY <1>1, <1>4 DEF HookView
  <2>2. tp \notin owned
    BY <1>2, <2>1 DEF ViewInv
  <2>3. cb.pc = "reveal" /\ tp = cb.tp
    BY <1>1, <2>2 DEF HookView
  <2> QED
    BY <2>1, <2>3 DEF ViewInv, Shown
<1>6. HeldIsVisible'
  <2> SUFFICES ASSUME NEW tp \in claimed, tp \notin cb'.todo
               PROVE  tp \in owned' /\ entry'[tp].status \in Shown
    BY <1>1 DEF HeldIsVisible, Shown
  <2>1. CASE tp \in cb.todo
    <3>1. cb.pc \notin RevokePcs
      BY <2>1 DEF ViewInv
    <3>2. cb.pc = "reveal" /\ tp = cb.tp /\ tp \in owned' /\ entry' = entry
      BY <1>1, <2>1, <3>1 DEF HookFrame, HookView, RevokePcs
    <3> QED
      BY <3>2 DEF ViewInv
  <2>2. CASE tp \notin cb.todo
    <3>1. tp \in owned /\ entry[tp].status \in Shown
      BY <2>2 DEF ViewInv, HeldIsVisible, Shown
    <3>2. tp \in owned' /\ entry'[tp] = entry[tp]
      BY <1>1, <1>3, <2>2, <3>1 DEF HookView, HookFrame
    <3> QED
      BY <3>1, <3>2
  <2> QED
    BY <2>1, <2>2
<1>7. ViewInv'
  BY <1>1, <1>2, <1>5, <1>6 DEF ViewInv, HookView, HookFrame
<1>8. ASSUME HiddenInv
      PROVE  HiddenInv'
  <2>1. cb'.pc \in AssignPcs => cb'.todo \cap owned' = {}
    <3> SUFFICES ASSUME cb'.pc \in AssignPcs, NEW tp \in cb'.todo, tp \in owned'
                 PROVE  FALSE
      OBVIOUS
    <3>1. cb.pc \in AssignPcs /\ tp \in cb.todo /\ tp \notin owned
      BY <1>1, <1>8 DEF HookFrame, HiddenInv
    <3>2. cb.pc = "reveal" /\ tp = cb.tp
      BY <1>1, <3>1 DEF HookView, AssignPcs, ReplayPcs
    <3> QED
      BY <1>2, <3>1, <3>2, HookRevealEnds DEF HookRuns
  <2>2. \A tp \in owned' : entry'[tp].status \in Shown
    <3> SUFFICES ASSUME NEW tp \in owned'
                 PROVE  entry'[tp].status \in Shown
      OBVIOUS
    <3>1. CASE cb.pc = "reveal" /\ tp = cb.tp
      <4>1. entry' = entry
        BY <3>1, HookRevealEnds DEF HookRuns
      <4> QED
        BY <3>1, <4>1 DEF ViewInv
    <3>2. CASE ~(cb.pc = "reveal" /\ tp = cb.tp)
      <4>1. tp \in owned /\ entry[tp].status \in Shown
        BY <1>1, <1>2, <1>8, <3>2 DEF HookView, HiddenInv, HiddenUntilReplayed, Shown
      <4>2. CASE tp \notin cb.todo
        BY <1>1, <1>4, <4>1, <4>2 DEF HookFrame
      <4>3. CASE tp \in cb.todo
        <5>1. cb.pc \notin AssignPcs
          BY <1>8, <4>1, <4>3 DEF HiddenInv
        <5>2. entry' = entry \/ (tp # cb.tp /\ entry'[tp] = entry[tp])
          <6>1. cb.pc = "revokeMark" => tp # cb.tp
            BY <4>1 DEF ViewInv
          <6>2. tp \in TPs /\ HookStep
            BY <1>3, <4>1 DEF HookRuns
          <6> QED
            BY <5>1, <6>1, <6>2, HookRevokeEntries
        <5> QED
          BY <4>1, <5>2
      <4> QED
        BY <4>2, <4>3
    <3> QED
      BY <3>1, <3>2
  <2> QED
    BY <2>1, <2>2 DEF HiddenInv, HiddenUntilReplayed, Shown
<1> QED
  BY <1>7, <1>8

(* The host's calls of the hooks, their failures, and the process. *)
LEMMA ViewOthers ==
  ASSUME TypeOK, ViewInv,
         \/ \E S \in SUBSET TPs : HostAssigns(S) \/ HostRevokes(S)
         \/ HookFails \/ ClockTicks \/ StartStore \/ Crash
  PROVE  ViewInv' /\ (HiddenInv /\ Rule("revoke_first") => HiddenInv')
<1>0. cb \in CbType /\ owned \subseteq TPs /\ claimed \subseteq TPs /\ IdleCb.pc = "idle" /\ IdleCb.todo = {}
  BY DEF TypeOK, IdleCb
<1>1. ASSUME NEW S \in SUBSET TPs, HostAssigns(S)
      PROVE  ViewInv' /\ (HiddenInv /\ Rule("revoke_first") => HiddenInv')
  <2>1. /\ cb'.pc = "ensure" /\ cb'.todo = S /\ up /\ up' = up /\ claimed' = claimed \cup S
        /\ UNCHANGED <<owned, entry>> /\ cb.todo = {}
    BY <1>1 DEF HostAssigns, StartAssign, IdleCb, tableVars, TypeOK, CbShape
  <2>2. Rule("revoke_first") => S \cap owned = {}
    BY <1>1 DEF HostAssigns
  <2>3. ViewInv'
    BY <2>1 DEF ViewInv, HeldIsVisible, RevokePcs
  <2> QED
    BY <2>1, <2>2, <2>3 DEF HiddenInv, HiddenUntilReplayed
<1>2. ASSUME NEW S \in SUBSET TPs, HostRevokes(S)
      PROVE  ViewInv' /\ (HiddenInv => HiddenInv')
  <2>1. /\ cb'.pc = "revoke" /\ cb'.todo = S /\ up /\ up' = up /\ claimed' = claimed \ S
        /\ UNCHANGED <<owned, entry>> /\ cb.todo = {}
    BY <1>2 DEF HostRevokes, StartRevoke, IdleCb, tableVars, TypeOK, CbShape
  <2>2. ViewInv'
    BY <2>1 DEF ViewInv, HeldIsVisible
  <2> QED
    BY <2>1, <2>2 DEF HiddenInv, HiddenUntilReplayed, AssignPcs, ReplayPcs
<1>3. CASE HookFails
  <2>1. /\ cb' = IdleCb /\ UNCHANGED <<owned, entry, up>> /\ claimed' = claimed \ cb.todo
    BY <1>3 DEF HookFails, AbortHook, tableVars
  <2>2. ViewInv'
    BY <1>0, <2>1 DEF ViewInv, HeldIsVisible, RevokePcs
  <2> QED
    BY <1>0, <2>1, <2>2 DEF HiddenInv, HiddenUntilReplayed, AssignPcs, ReplayPcs
<1>4. CASE ClockTicks
  <2>1. /\ cb'.pc = cb.pc /\ cb'.todo = cb.todo /\ cb'.tp = cb.tp
        /\ UNCHANGED <<owned, entry, up, claimed>>
    BY <1>0, <1>4 DEF ClockTicks, ClockExpires, CbType, tableVars, hostVars
  <2>2. ViewInv'
    BY <2>1 DEF ViewInv, HeldIsVisible
  <2> QED
    BY <2>1, <2>2 DEF HiddenInv, HiddenUntilReplayed
<1>5. CASE StartStore
  <2>1. owned' = {} /\ UNCHANGED <<entry, cb, claimed>> /\ claimed = {} /\ cb.pc = "idle"
    BY <1>5 DEF StartStore, OwnedAtStart, ViewInv
  <2>2. ViewInv'
    BY <1>5, <2>1 DEF ViewInv, HeldIsVisible, RevokePcs, StartStore
  <2> QED
    BY <2>1, <2>2 DEF HiddenInv, HiddenUntilReplayed
<1>6. CASE Crash
  <2>1. ~up' /\ cb' = IdleCb /\ claimed' = {}
    BY <1>6 DEF Crash
  <2>2. ViewInv'
    BY <1>0, <2>1 DEF ViewInv, HeldIsVisible, RevokePcs
  <2> QED
    BY <1>0, <2>1, <2>2 DEF HiddenInv, HiddenUntilReplayed, AssignPcs, ReplayPcs
<1> QED
  BY <1>1, <1>2, <1>3, <1>4, <1>5, <1>6

(* Every step does: hiding first is needed for the second only.            *)
LEMMA ViewStep ==
  ASSUME TypeOK, ViewInv, [Next]_vars
  PROVE  ViewInv' /\ (HiddenInv /\ Rule("revoke_first") => HiddenInv')
<1>1. CASE \/ World \/ UNCHANGED vars \/ \E t \in Tasks : AppendStep(t)
           \/ \E t \in Tasks : \/ AppendProduceFails(t) \/ AppendStorageFails(t)
                               \/ \E tp \in TPs : HostAppends(t, tp)
  BY <1>1, StatusKept, ViewBeside
<1>2. CASE HookRuns
  BY <1>2, ViewHookRuns
<1> QED
  BY <1>1, <1>2, ViewOthers DEF Next, Host

(* A call under way loses a partition to its own step, its failure or the   *)
(* end of the process.                                                     *)
LEMMA WorkEndsInHook ==
  ASSUME TypeOK, Next, cb.pc # "idle", ~HookFails, ~Crash,
         NEW tp \in cb.todo, tp \notin cb'.todo
  PROVE  HookRuns
<1>1. ~(\E S \in SUBSET TPs : HostAssigns(S) \/ HostRevokes(S))
  BY DEF HostAssigns, HostRevokes, StartAssign, StartRevoke
<1>2. ~ClockTicks /\ ~StartStore
  BY DEF ClockTicks, ClockExpires, StartStore, TypeOK, CbType
<1>3. ~ \/ World \/ \E t \in Tasks : AppendStep(t)
        \/ \E t \in Tasks : \/ AppendProduceFails(t) \/ AppendStorageFails(t)
                            \/ \E q \in TPs : HostAppends(t, q)
  BY StatusKept
<1> QED
  BY <1>1, <1>2, <1>3 DEF Next, Host

(* At the start nothing is owned and nothing is replayed.                  *)
LEMMA ViewInit == Init => ViewInv /\ HiddenInv
  BY DEF Init, IdleCb, ViewInv, HeldIsVisible, HiddenInv, HiddenUntilReplayed, RevokePcs

(* The view agrees with the partitions held, in every behaviour.           *)
LEMMA ViewSafety == Spec => [](TypeOK /\ ViewInv)
<1>1. TypeOK /\ ViewInv /\ [Next]_vars => ViewInv'
  BY ViewStep
<1> QED
  BY <1>1, InitTypeOK, TypeStep, ViewInit, PTL DEF Spec

-----------------------------------------------------------------------------
(* Theorems *)

(* Whatever the host does, a partition it holds and no hook is at work on   *)
(* is in the view, READY or READY_PARTIAL: hooks claim before they reveal   *)
(* and a failed or revoking one gives up its claim (on_partitions_assigned, *)
(* on_partitions_revoked).                                                 *)
THEOREM HeldVisible == Spec => []HeldIsVisible
<1>1. ViewInv => HeldIsVisible
  BY DEF ViewInv
<1> QED
  BY <1>1, ViewSafety, PTL

(* A host that assigns only partitions it does not show sees none before    *)
(* its replay is done, and none of an earlier process (_reveal, migrate).   *)
THEOREM HiddenUntilReveal ==
  ASSUME Rule("revoke_first")
  PROVE  Spec => []HiddenUntilReplayed
<1>1. TypeOK /\ ViewInv /\ HiddenInv /\ [Next]_vars => HiddenInv'
  BY ViewStep
<1>2. HiddenInv => HiddenUntilReplayed
  BY DEF HiddenInv
<1> QED
  BY <1>1, <1>2, ViewInit, ViewSafety, PTL DEF Spec

(* A partition leaves the work of a hook in view if it was assigned.       *)
(* (on_partitions_assigned, _reveal_partial_unreached).                    *)
THEOREM AssignRevealsAll == Spec => AssignReveals
<1>1. TypeOK /\ ViewInv /\ [Next]_vars =>
        [cb.pc \in AssignPcs => \/ \A tp \in cb.todo : tp \in cb'.todo \/ tp \in owned'
                                \/ HookFails \/ Crash]_vars
  <2> SUFFICES ASSUME TypeOK, ViewInv, Next, cb.pc \in AssignPcs, ~HookFails, ~Crash,
                      NEW tp \in cb.todo, tp \notin cb'.todo
               PROVE  tp \in owned'
    OBVIOUS
  <2>1. HookRuns
    BY WorkEndsInHook DEF AssignPcs, ReplayPcs
  <2>2. HookView
    BY <2>1, HookViewStep DEF HookRuns
  <2> QED
    BY <2>2 DEF HookView, AssignPcs, ReplayPcs
<1> QED
  BY <1>1, ViewSafety, PTL DEF Spec, AssignReveals

(* And out of view if it was revoked: only what this process has never met  *)
(* is skipped, and that is not in view (on_partitions_revoked).            *)
THEOREM RevokeHidesAll == Spec => RevokeHides
<1>1. TypeOK /\ ViewInv /\ [Next]_vars =>
        [cb.pc \in RevokePcs => \/ \A tp \in cb.todo : tp \in cb'.todo \/ tp \notin owned'
                                \/ HookFails \/ Crash]_vars
  <2> SUFFICES ASSUME TypeOK, ViewInv, Next, cb.pc \in RevokePcs, ~HookFails, ~Crash,
                      NEW tp \in cb.todo, tp \notin cb'.todo
               PROVE  tp \notin owned'
    OBVIOUS
  <2>1. HookRuns
    BY WorkEndsInHook DEF RevokePcs
  <2>2. HookView /\ up
    BY <2>1, HookViewStep DEF HookRuns, ViewInv, RevokePcs
  <2> QED
    BY <2>2 DEF HookView, ViewInv, RevokePcs
<1> QED
  BY <1>1, ViewSafety, PTL DEF Spec, RevokeHides
=============================================================================
