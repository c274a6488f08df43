------------------------- MODULE PartitionLifecycle -------------------------
(***************************************************************************)
(* PartitionLifecycle of _lifecycle.py: what on_partitions_assigned and    *)
(* on_partitions_revoked do, one hook call at a time, each action being    *)
(* the code between two awaits.  cb is the call: its program counter and   *)
(* the local variables of the code, under their names there:               *)
(*                                                                         *)
(*   ensure     about to await topics.ensure_and_verify of a next tp       *)
(*   checkpoint _read_checkpoint          logEnd     get_consumer, LEO     *)
(*   seek       seek_to_beginning         poll       getmany               *)
(*   resetStart beginning_offsets         resetSeek  seek_to_beginning     *)
(*   commit     transaction of a batch    writeBack  its record_applied    *)
(*   clampRead, clampCommit, clampBack    _apply_post_reset_clamps         *)
(*   reveal     transaction of _reveal                                     *)
(*   lateEnd, lateRead                    _reveal_partial_unreached        *)
(*   revoke, revokeMark                   on_partitions_revoked            *)
(***************************************************************************)
EXTENDS Replica

CONSTANT BatchSize   \* max_records of a poll

ASSUME BatchSizeAssumption == BatchSize \in Nat \ {0}

VARIABLE cb

ReplayPcs == {"seek", "poll", "resetStart", "resetSeek", "commit", "writeBack",
              "clampRead", "clampCommit", "clampBack"}
AssignPcs == {"ensure", "checkpoint", "logEnd", "reveal", "lateEnd", "lateRead"}
             \cup ReplayPcs
RevokePcs == {"revoke", "revokeMark"}

IdleCb ==
  [pc        |-> "idle",
   todo      |-> {},         \* partitions of the call not finished yet
   tp        |-> NoTP,       \* the one being worked on
   first     |-> FALSE,      \* no partition has begun its replay
   expired   |-> FALSE,      \* the clock has passed the call's deadline
   stored    |-> NoOffset,   \* checkpoint as last read
   leo       |-> NoOffset,   \* log end offset captured
   position  |-> 0,
   fetch     |-> 0,          \* the consumer's fetch position, on its side
   lo        |-> 0,          \* offset of batch[1]
   batch     |-> <<>>,       \* the records of the poll
   reset     |-> FALSE,      \* reset_occurred
   log_start |-> 0,          \* reset_log_start
   replayed  |-> FALSE,      \* replayed_after_reset > 0
   target    |-> NoOffset]   \* of a clamp

-----------------------------------------------------------------------------
(* Ends of one partition's work. *)

SetEntry(e) == entry' = [entry EXCEPT ![cb.tp] = e]

(* mark_ready, then the await of _reveal. *)
Finish(c, e) ==
  /\ cb' = [c EXCEPT !.pc = "reveal"]
  /\ SetEntry(Marked(e, "READY"))

(* _force_stop: mark_ready_partial, then the same reveal. *)
ForceStop(c, e) ==
  /\ cb' = [c EXCEPT !.pc = "reveal"]
  /\ SetEntry(Marked(e, "READY_PARTIAL"))

(* The loop condition, evaluated with locals c and the entry e, without an *)
(* await since the last one.                                               *)
LoopHead(c, e) ==
  \/ /\ c.position # c.leo
     /\ cb' = [c EXCEPT !.pc = "poll"]
     /\ SetEntry(e)
  \/ /\ c.position = c.leo
     /\ c.reset
     /\ cb' = [c EXCEPT !.pc = "clampRead"]
     /\ SetEntry(e)
  \/ /\ c.position = c.leo
     /\ ~c.reset
     /\ Finish(c, e)

(* The locals of a partition the loop over `assigned` begins.  They are    *)
(* dead once it is done, so the previous partition's are forgotten.        *)
Begin(tp, pc) ==
  [IdleCb EXCEPT !.pc = pc, !.todo = cb.todo, !.tp = tp, !.expired = cb.expired]

(* Mutant of Done: one more iteration, with nothing left to do. *)
DoneLate(c, next) ==
  [IdleCb EXCEPT !.pc = next, !.todo = c.todo \ {c.tp}, !.first = c.first, !.expired = c.expired]

(* The next iteration, or the return of the hook. *)
Done(c, next) ==
  IF c.todo = {c.tp}
    THEN IdleCb
    ELSE [IdleCb EXCEPT !.pc = next, !.todo = c.todo \ {c.tp},
                        !.first = c.first, !.expired = c.expired]

-----------------------------------------------------------------------------
(* on_partitions_assigned *)

StartAssign(S) ==
  /\ cb.pc = "idle"
  /\ S # {}
  /\ cb' = [IdleCb EXCEPT !.pc = "ensure", !.todo = S, !.first = TRUE]
  /\ UNCHANGED <<brokerVars, tableVars, entry>>

(* ensure_and_verify returned; the first partition always gets its replay, *)
(* a later one only within the budget.                                     *)
EnterPartition(tp) ==
  /\ cb.pc = "ensure"
  /\ tp \in cb.todo
  /\ cb.first \/ ~cb.expired
  /\ cb' = Begin(tp, "checkpoint")
  /\ UNCHANGED <<brokerVars, tableVars, entry>>

(* Mutant of PassOver: past the deadline a partition is just left out. *)
PassOverHidden(tp) ==
  /\ cb.pc = "ensure"
  /\ tp \in cb.todo
  /\ ~cb.first /\ cb.expired
  /\ cb' = Done([cb EXCEPT !.tp = tp], "ensure")
  /\ UNCHANGED <<brokerVars, tableVars, entry>>

PassOver(tp) ==
  /\ cb.pc = "ensure"
  /\ tp \in cb.todo
  /\ ~cb.first /\ cb.expired
  /\ cb' = Begin(tp, "lateEnd")
  /\ UNCHANGED <<brokerVars, tableVars, entry>>

(* The budget of rehydrate_timeout runs out. *)
ClockExpires ==
  /\ cb.pc \in AssignPcs
  /\ ~cb.expired
  /\ cb' = [cb EXCEPT !.expired = TRUE]
  /\ UNCHANGED <<brokerVars, tableVars, entry>>

(* The store's part of a hook that raises: nothing is undone. *)
AbortHook ==
  /\ cb.pc # "idle"
  /\ cb' = IdleCb
  /\ UNCHANGED <<brokerVars, tableVars, entry>>

-----------------------------------------------------------------------------
(* _rehydrate_one *)

(* Mutant of SeedEntry: the in-memory checkpoint is not seeded. *)
SeedEntryNever(e, stored) == e

(* A stored checkpoint seeds the in-memory one. *)
SeedEntry(e, stored) == IF stored = NoOffset THEN e ELSE RecordApplied(e, stored)

ReadCheckpoint ==
  /\ cb.pc = "checkpoint"
  /\ cb' = [cb EXCEPT !.pc = "logEnd", !.stored = ckpt[cb.tp]]
  /\ SetEntry(SeedEntry(entry[cb.tp], ckpt[cb.tp]))
  /\ UNCHANGED <<brokerVars, tableVars>>

(* end_offsets returned: the entry is RESTORING and, with a checkpoint, the *)
(* consumer is sought past it at once.  _get_consumer, whose lazy start may *)
(* suspend too, leaves nothing of this state changed.                       *)
CaptureLogEnd ==
  /\ cb.pc = "logEnd"
  /\ LET e == Marked(RecordLogEnd(entry[cb.tp], LogEnd(cb.tp)), "RESTORING")
         c == [cb EXCEPT !.leo = LogEnd(cb.tp)]
     IN \/ /\ cb.stored = NoOffset
           /\ cb' = [c EXCEPT !.pc = "seek"]
           /\ SetEntry(e)
        \/ /\ cb.stored # NoOffset
           /\ LoopHead([c EXCEPT !.position = cb.stored + 1, !.fetch = cb.stored + 1], e)
  /\ UNCHANGED <<brokerVars, tableVars>>

(* Without a checkpoint: the consumer goes to the log start, wherever that *)
(* is, and position to 0.                                                  *)
SeekToBeginning ==
  /\ cb.pc = "seek"
  /\ LoopHead([cb EXCEPT !.position = 0, !.fetch = logStart[cb.tp]], entry[cb.tp])
  /\ UNCHANGED <<brokerVars, tableVars>>

(* getmany returns the n records from the fetch position on. *)
PollBatch(n) ==
  /\ cb.pc = "poll"
  /\ InRange(cb.tp, cb.fetch)
  /\ cb.fetch + n <= LogEnd(cb.tp)
  /\ cb' = [cb EXCEPT !.pc = "commit", !.lo = cb.fetch, !.fetch = cb.fetch + n,
                      !.batch = SubSeq(log[cb.tp], cb.fetch + 1, cb.fetch + n)]
  /\ UNCHANGED <<brokerVars, tableVars, entry>>

(* Mutant of PollEmpty: the clock is looked at only while records are missing. *)
PollEmptyUnbounded ==
  /\ cb.pc = "poll"
  /\ InRange(cb.tp, cb.fetch)
  /\ \/ cb.expired /\ cb.position < cb.leo /\ ForceStop(cb, entry[cb.tp])
     \/ ~(cb.expired /\ cb.position < cb.leo) /\ UNCHANGED <<cb, entry>>
  /\ UNCHANGED <<brokerVars, tableVars>>

(* Mutant of PollEmpty: an empty fetch is taken for the end of the log. *)
PollEmptyTerminates ==
  /\ cb.pc = "poll"
  /\ InRange(cb.tp, cb.fetch)
  /\ Finish(cb, entry[cb.tp])
  /\ UNCHANGED <<brokerVars, tableVars>>

(* getmany returns nothing: the log ends here, or the broker is slow. *)
PollEmpty ==
  /\ cb.pc = "poll"
  /\ InRange(cb.tp, cb.fetch)
  /\ \/ cb.expired /\ ForceStop(cb, entry[cb.tp])
     \/ ~cb.expired /\ UNCHANGED <<cb, entry>>
  /\ UNCHANGED <<brokerVars, tableVars>>

(* getmany raises OffsetOutOfRangeError. *)
PollOutOfRange ==
  /\ cb.pc = "poll"
  /\ ~InRange(cb.tp, cb.fetch)
  /\ cb' = [cb EXCEPT !.pc = "resetStart"]
  /\ UNCHANGED <<brokerVars, tableVars, entry>>

ReadLogStart ==
  /\ cb.pc = "resetStart"
  /\ cb' = [cb EXCEPT !.pc = "resetSeek", !.log_start = logStart[cb.tp]]
  /\ UNCHANGED <<brokerVars, tableVars, entry>>

(* The consumer goes to the log start of now, position to the one read.    *)
ResetToBeginning ==
  /\ cb.pc = "resetSeek"
  /\ LET c == [cb EXCEPT !.fetch = logStart[cb.tp], !.position = cb.log_start,
                         !.reset = TRUE, !.replayed = FALSE]
     IN \/ cb.expired /\ ForceStop(c, entry[cb.tp])
        \/ ~cb.expired /\ LoopHead(c, entry[cb.tp])
  /\ UNCHANGED <<brokerVars, tableVars>>

(* classify: a KSQLite record whose format this reader does not know. *)
Unreadable(batch) == \E i \in DOMAIN batch : batch[i].kind = "unknown"

(* Mutant of BatchMax: the checkpoint is taken to the captured log end. *)
BatchMaxToLogEnd(c) == c.leo - 1

(* records[-1].offset *)
BatchMax(c) == c.lo + Len(c.batch) - 1

(* The transaction of _materialize_batch.  A record of an unknown format   *)
(* raises inside it, so such a batch never commits (AbortHook).            *)
CommitBatch ==
  /\ cb.pc = "commit"
  /\ ~Unreadable(cb.batch)
  /\ rows' = InsertBatch(rows, cb.tp, cb.lo, cb.batch)
  /\ ckpt' = [ckpt EXCEPT ![cb.tp] = UpsertCheckpoint(@, BatchMax(cb))]
  /\ cb' = [cb EXCEPT !.pc = "writeBack"]
  /\ UNCHANGED <<brokerVars, owned, entry>>

(* Back in the loop: write-back, position, and the deadline if not done. *)
WriteBack ==
  /\ cb.pc = "writeBack"
  /\ LET e == RecordApplied(entry[cb.tp], BatchMax(cb))
         c == [cb EXCEPT !.position = BatchMax(cb) + 1, !.replayed = TRUE,
                         !.lo = 0, !.batch = <<>>]
     IN \/ c.position # c.leo /\ cb.expired /\ ForceStop(c, e)
        \/ (c.position = c.leo \/ ~cb.expired) /\ LoopHead(c, e)
  /\ UNCHANGED <<brokerVars, tableVars>>

-----------------------------------------------------------------------------
(* _apply_post_reset_clamps *)

(* Mutant of ClampTarget: the gap retention left is not clamped past. *)
ClampTargetDownOnly(c, stored) ==
  IF stored > c.leo - 1 THEN c.leo - 1 ELSE NoOffset

(* Mutant of ClampTarget: a checkpoint above the log end is left alone. *)
ClampTargetUpOnly(c, stored) ==
  IF ~c.replayed /\ c.log_start = c.leo THEN c.log_start - 1 ELSE NoOffset

(* Mutant of ClampTarget: any reset restarts the checkpoint. *)
ClampTargetToStart(c, stored) == c.log_start - 1

(* Where the checkpoint must move: down to the log end, or up past a gap   *)
(* that held nothing to replay; NoOffset if nowhere.                       *)
ClampTarget(c, stored) ==
  IF stored # NoOffset /\ stored > c.leo - 1 THEN c.leo - 1
  ELSE IF ~c.replayed /\ c.log_start = c.leo THEN c.log_start - 1
  ELSE NoOffset

ClampRead ==
  /\ cb.pc = "clampRead"
  /\ LET target == ClampTarget(cb, ckpt[cb.tp])
     IN \/ /\ target = NoOffset
           /\ Finish(cb, entry[cb.tp])
        \/ /\ target # NoOffset
           /\ cb' = [cb EXCEPT !.pc = "clampCommit", !.target = target]
           /\ UNCHANGED entry
  /\ UNCHANGED <<brokerVars, tableVars>>

ClampCommit ==
  /\ cb.pc = "clampCommit"
  /\ ckpt' = [ckpt EXCEPT ![cb.tp] = cb.target]
  /\ cb' = [cb EXCEPT !.pc = "clampBack"]
  /\ UNCHANGED <<brokerVars, rows, owned, entry>>

ClampWriteBack ==
  /\ cb.pc = "clampBack"
  /\ Finish(cb, RecordClamped(entry[cb.tp], cb.target))
  /\ UNCHANGED <<brokerVars, tableVars>>

-----------------------------------------------------------------------------
(* _reveal, _reveal_partial_unreached *)

(* Mutant of Reveal: a force-stopped partition stays hidden. *)
RevealReadyOnly ==
  /\ cb.pc = "reveal"
  /\ owned' = IF entry[cb.tp].status = "READY" THEN owned \cup {cb.tp} ELSE owned
  /\ cb' = Done(cb, "ensure")
  /\ UNCHANGED <<brokerVars, rows, ckpt, entry>>

(* INSERT OR IGNORE INTO _owned commits; the hook goes on to the next tp. *)
Reveal ==
  /\ cb.pc = "reveal"
  /\ owned' = owned \cup {cb.tp}
  /\ cb' = Done(cb, "ensure")
  /\ UNCHANGED <<brokerVars, rows, ckpt, entry>>

LateLogEnd ==
  /\ cb.pc = "lateEnd"
  /\ cb' = [cb EXCEPT !.pc = "lateRead", !.leo = LogEnd(cb.tp)]
  /\ SetEntry(RecordLogEnd(entry[cb.tp], LogEnd(cb.tp)))
  /\ UNCHANGED <<brokerVars, tableVars>>

LateReadCheckpoint ==
  /\ cb.pc = "lateRead"
  /\ ForceStop(cb, SeedEntry(entry[cb.tp], ckpt[cb.tp]))
  /\ UNCHANGED <<brokerVars, tableVars>>

-----------------------------------------------------------------------------
(* on_partitions_revoked *)

StartRevoke(S) ==
  /\ cb.pc = "idle"
  /\ S # {}
  /\ cb' = [IdleCb EXCEPT !.pc = "revoke", !.todo = S]
  /\ UNCHANGED <<brokerVars, tableVars, entry>>

(* Mutant of SkipRevoke: only READY partitions are revoked. *)
SkipRevokeUnlessReady(tp) ==
  /\ cb.pc = "revoke"
  /\ tp \in cb.todo
  /\ entry[tp].status # "READY"
  /\ cb' = Done([cb EXCEPT !.tp = tp], "revoke")
  /\ UNCHANGED <<brokerVars, tableVars, entry>>

(* A never-seen partition is skipped, without an await. *)
SkipRevoke(tp) ==
  /\ cb.pc = "revoke"
  /\ tp \in cb.todo
  /\ entry[tp].status = "UNSEEN"
  /\ cb' = Done([cb EXCEPT !.tp = tp], "revoke")
  /\ UNCHANGED <<brokerVars, tableVars, entry>>

RevokeCommit(tp) ==
  /\ cb.pc = "revoke"
  /\ tp \in cb.todo
  /\ entry[tp].status # "UNSEEN"
  /\ owned' = owned \ {tp}
  /\ cb' = [cb EXCEPT !.pc = "revokeMark", !.tp = tp]
  /\ UNCHANGED <<brokerVars, rows, ckpt, entry>>

RevokeMark ==
  /\ cb.pc = "revokeMark"
  /\ SetEntry(Marked(entry[cb.tp], "STANDBY"))
  /\ cb' = Done(cb, "revoke")
  /\ UNCHANGED <<brokerVars, tableVars>>

-----------------------------------------------------------------------------
(* What a hook does once called; StartAssign, StartRevoke, ClockExpires and *)
(* AbortHook are up to the host and the clock.                              *)
Replay ==
  \/ ReadCheckpoint \/ CaptureLogEnd \/ SeekToBeginning
  \/ \E n \in 1..BatchSize : PollBatch(n)
  \/ PollEmpty \/ PollOutOfRange \/ ReadLogStart \/ ResetToBeginning
  \/ CommitBatch \/ WriteBack

HookStep ==
  \/ \E tp \in TPs : EnterPartition(tp) \/ PassOver(tp)
  \/ Replay
  \/ ClampRead \/ ClampCommit \/ ClampWriteBack
  \/ LateLogEnd \/ LateReadCheckpoint
  \/ Reveal
  \/ \E tp \in TPs : SkipRevoke(tp) \/ RevokeCommit(tp)
  \/ RevokeMark
=============================================================================
