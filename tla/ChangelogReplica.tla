-------------------------- MODULE ChangelogReplica --------------------------
(***************************************************************************)
(* One KSQLite instance as a replica of its changelogs: appends            *)
(* (Appender), rebalance hooks (PartitionLifecycle), process crashes and   *)
(* restarts, the host that calls the store, and the rest of the world      *)
(* that writes to and trims the changelogs.                                *)
(*                                                                         *)
(* The store leaves much of its correctness to rules the host must follow. *)
(* HostRules is the set of those in force, so that a run shows both what   *)
(* holds when the host keeps them and what an omitted one costs:           *)
(*                                                                         *)
(*  one_writer                   a changelog is appended to by the owner   *)
(*                               of its partition only                     *)
(*  await_each                   one append at a time on a partition       *)
(*  quiesce                      no append on a partition while a hook     *)
(*                               works on it                               *)
(*  ready_only                   append to READY partitions only           *)
(*  rehydrate_after_storage_error, rehydrate_after_produce_error           *)
(*                               after such a failure of an append, no     *)
(*                               other on that partition until it has been *)
(*                               rehydrated                                *)
(*  revoke_first                 assign a partition only when not revealed *)
(***************************************************************************)
EXTENDS Appender, PartitionLifecycle

CONSTANTS HostRules,  \* the rules the host follows
          Env         \* what may happen around the store

AllRules == {"one_writer", "await_each", "quiesce", "ready_only",
             "rehydrate_after_storage_error", "rehydrate_after_produce_error",
             "revoke_first"}
AllEnv == {"foreign", "other_owner", "newer_writer", "trim", "regress",
           "crash", "append_fails", "hook_fails"}

ASSUME HostRulesAssumption == HostRules \subseteq AllRules
ASSUME EnvAssumption == Env \subseteq AllEnv
ASSUME BoundsAssumption == MaxLog \in Nat /\ MaxIds \in Nat

VARIABLES
  up,        \* the process runs, between start() and its end
  claimed,   \* partitions the consumer group has given to this host
  dirty      \* partitions the host must rehydrate before appending again

hostVars == <<up, claimed, dirty>>
vars == <<log, logStart, rows, ckpt, owned, entry, app, minted, cb, up, claimed, dirty>>

Rule(r) == r \in HostRules

Init ==
  /\ log = [tp \in TPs |-> <<>>]
  /\ logStart = [tp \in TPs |-> 0]
  /\ rows = {}
  /\ ckpt = [tp \in TPs |-> NoOffset]
  /\ owned = {}
  /\ entry = [tp \in TPs |-> Unseen]
  /\ app = [t \in Tasks |-> IdleApp]
  /\ minted = 0
  /\ cb = IdleCb
  /\ up = FALSE
  /\ claimed = {}
  /\ dirty = {}

-----------------------------------------------------------------------------
(* The process *)

(* Mutant of OwnedAtStart: start() inherits the view of the last process. *)
OwnedAtStartInherited == owned

(* migrate() empties _owned. *)
OwnedAtStart == {}

(* start(), to the end of its migration; no hook or append runs before. *)
StartStore ==
  /\ ~up
  /\ up' = TRUE
  /\ owned' = OwnedAtStart
  /\ UNCHANGED <<brokerVars, rows, ckpt, entry, appVars, cb, claimed, dirty>>

(* The process ends, at any point: only the broker and SQLite survive. *)
Crash ==
  /\ "crash" \in Env
  /\ up
  /\ up' = FALSE
  /\ entry' = [tp \in TPs |-> Unseen]
  /\ app' = [t \in Tasks |-> IdleApp]
  /\ cb' = IdleCb
  /\ claimed' = {}
  /\ dirty' = {}
  /\ UNCHANGED <<brokerVars, tableVars, minted>>

-----------------------------------------------------------------------------
(* The host's calls *)

HostAppends(t, tp) ==
  /\ up
  /\ Rule("one_writer") => tp \in claimed
  /\ Rule("await_each") => AppendsOn(tp) = {}
  /\ Rule("quiesce") => tp \notin cb.todo
  /\ Rule("ready_only") => entry[tp].status = "READY"
  /\ tp \notin dirty
  /\ StartAppend(t, tp)
  /\ UNCHANGED <<cb, hostVars>>

AppendStep(t) ==
  /\ Produce(t) \/ CommitAppend(t) \/ AppendReturns(t)
  /\ UNCHANGED <<cb, hostVars>>

AppendProduceFails(t) ==
  /\ "append_fails" \in Env
  /\ ProduceFails(t)
  /\ dirty' = IF Rule("rehydrate_after_produce_error")
                THEN dirty \cup {app[t].tp} ELSE dirty
  /\ UNCHANGED <<cb, up, claimed>>

AppendStorageFails(t) ==
  /\ "append_fails" \in Env
  /\ MaterializeFails(t)
  /\ dirty' = IF Rule("rehydrate_after_storage_error")
                THEN dirty \cup {app[t].tp} ELSE dirty
  /\ UNCHANGED <<cb, up, claimed>>

Quiet(S) == \A tp \in S : AppendsOn(tp) = {}

HostAssigns(S) ==
  /\ up
  /\ Rule("quiesce") => Quiet(S)
  /\ Rule("revoke_first") => S \cap owned = {}
  /\ StartAssign(S)
  /\ claimed' = claimed \cup S
  /\ UNCHANGED <<appVars, up, dirty>>

HostRevokes(S) ==
  /\ up
  /\ Rule("quiesce") => Quiet(S)
  /\ StartRevoke(S)
  /\ claimed' = claimed \ S
  /\ UNCHANGED <<appVars, up, dirty>>

(* A partition a hook has just replayed to the log end is clean again. *)
HookRuns ==
  /\ HookStep
  /\ dirty' = IF cb.pc = "reveal" /\ entry[cb.tp].status = "READY"
                THEN dirty \ {cb.tp} ELSE dirty
  /\ UNCHANGED <<appVars, up, claimed>>

ClockTicks ==
  /\ ClockExpires
  /\ UNCHANGED <<appVars, hostVars>>

(* A record of an unknown format, a broker or SQLite error, a missing       *)
(* changelog, a cancellation: the hook raises.  The host takes it as a      *)
(* failed assignment, and no longer holds the partitions the hook had not   *)
(* finished.                                                                *)
HookFails ==
  /\ \/ cb.pc = "commit" /\ Unreadable(cb.batch)
     \/ "hook_fails" \in Env
  /\ AbortHook
  /\ claimed' = claimed \ cb.todo
  /\ UNCHANGED <<appVars, up, dirty>>

-----------------------------------------------------------------------------
(* The rest of the world *)

WorldKeeps == UNCHANGED <<tableVars, entry, app, cb, hostVars>>

(* Records that are not KSQLite's. *)
ForeignWrites(tp) ==
  /\ "foreign" \in Env
  /\ LogEnd(tp) < MaxLog
  /\ log' = [log EXCEPT ![tp] = Append(@, LogRecord("foreign", 0))]
  /\ UNCHANGED <<logStart, minted>>
  /\ WorldKeeps

(* Another instance appends, of this release or of a newer one. *)
OtherOwnerWrites(tp, kind) ==
  /\ "other_owner" \in Env
  /\ kind = "unknown" => "newer_writer" \in Env
  /\ Rule("one_writer") => tp \notin claimed
  /\ LogEnd(tp) < MaxLog
  /\ minted < MaxIds
  /\ minted' = minted + 1
  /\ log' = [log EXCEPT ![tp] = Append(@, LogRecord(kind, minted + 1))]
  /\ UNCHANGED logStart
  /\ WorldKeeps

(* Retention drops the oldest records, up to all of them. *)
Trim(tp) ==
  /\ "trim" \in Env
  /\ \E start \in (logStart[tp] + 1)..LogEnd(tp) :
       logStart' = [logStart EXCEPT ![tp] = start]
  /\ UNCHANGED <<log, minted>>
  /\ WorldKeeps

(* The log end moves back: an unclean leader election lost the tail. *)
Regress(tp) ==
  /\ "regress" \in Env
  /\ \E n \in logStart[tp]..(LogEnd(tp) - 1) :
       log' = [log EXCEPT ![tp] = SubSeq(@, 1, n)]
  /\ UNCHANGED <<logStart, minted>>
  /\ WorldKeeps

-----------------------------------------------------------------------------
World ==
  \E tp \in TPs :
    \/ ForeignWrites(tp) \/ Trim(tp) \/ Regress(tp)
    \/ \E kind \in {"record", "unknown"} : OtherOwnerWrites(tp, kind)

Host ==
  \/ \E t \in Tasks :
       \/ \E tp \in TPs : HostAppends(t, tp)
       \/ AppendProduceFails(t) \/ AppendStorageFails(t)
  \/ \E S \in SUBSET TPs : HostAssigns(S) \/ HostRevokes(S)
  \/ HookFails

Next ==
  \/ StartStore \/ Crash
  \/ Host
  \/ \E t \in Tasks : AppendStep(t)
  \/ HookRuns \/ ClockTicks
  \/ World

Spec == Init /\ [][Next]_vars

(* Every await of a hook returns, and time passes. *)
FairSpec == Spec /\ WF_vars(HookRuns) /\ WF_vars(ClockTicks)

-----------------------------------------------------------------------------
(* Properties *)

(* The locals of a hook.  Which of them are live goes with its program     *)
(* counter: a call has partitions left to do, one of them in hand between  *)
(* the calls of ensure_and_verify, a log end captured while it is replayed, *)
(* and a batch only around its commit.                                     *)
CbType ==
  [pc : AssignPcs \cup RevokePcs \cup {"idle"}, todo : SUBSET TPs,
   tp : TPs \cup {NoTP}, first : BOOLEAN, expired : BOOLEAN,
   stored : Offsets, leo : Offsets, position : Nat, fetch : Nat, lo : Nat,
   batch : Seq(LogRecords), reset : BOOLEAN, log_start : Nat,
   replayed : BOOLEAN, target : Offsets]

CbShape ==
  /\ cb.pc = "idle" <=> cb.todo = {}
  /\ cb.pc \notin {"idle", "ensure", "revoke"} => cb.tp \in cb.todo
  /\ cb.pc \in ReplayPcs => cb.leo \in Nat
  /\ cb.batch # <<>> <=> cb.pc \in {"commit", "writeBack"}

AppType == [pc : AppPcs, tp : TPs \cup {NoTP}, id : Nat, off : Offsets]

(* A call under way is about a partition, and has an offset once the broker *)
(* has its record.                                                          *)
AppShape ==
  \A t \in Tasks :
    /\ app[t].pc # "idle" <=> app[t].tp \in TPs
    /\ app[t].pc \in {"landed", "committed"} => app[t].off \in Nat

(* Every variable has its type. *)
TypeOK ==
  /\ log \in [TPs -> Seq(LogRecords)]
  /\ logStart \in [TPs -> Nat]
  /\ \A r \in rows : r \in [tp : TPs, id : Nat, off : Nat]
  /\ ckpt \in [TPs -> Offsets]
  /\ owned \subseteq TPs
  /\ entry \in [TPs -> Entries]
  /\ app \in [Tasks -> AppType]
  /\ AppShape
  /\ minted \in Nat
  /\ cb \in CbType
  /\ CbShape
  /\ up \in BOOLEAN
  /\ claimed \subseteq TPs
  /\ dirty \subseteq TPs

(* The checkpoint is a promise about the changelog (partition-lifecycle.md: *)
(* "I have applied everything up to here"): whatever appends, replays,      *)
(* resets, clamps, failures and crashes came before, each record at or      *)
(* below the stored checkpoint is in SQLite, unless retention dropped it.   *)
(* A record that is not stays out for good, replay resuming past it.        *)
CheckpointHonest ==
  \A tp \in TPs : \A o \in LogOffsets(tp) : o <= ckpt[tp] => Applied(tp, o)

(* No hook is at work on tp, and no failed append waits for a rehydrate.    *)
Settled(tp) == tp \in claimed /\ tp \notin cb.todo /\ tp \notin dirty

(* tp has a row for every KSQLite record of its changelog, but those its    *)
(* own appends are about to materialize.                                   *)
CaughtUp(tp) ==
  \A o \in LogOffsets(tp) :
    \/ Applied(tp, o)
    \/ \E t \in AppendsOn(tp) : app[t].pc = "landed" /\ app[t].id = log[tp][o + 1].id

(* READY is "replayed fully" (check-partition-readiness.md): once the hook  *)
(* is done with a partition, a READY one this host holds is caught up.      *)
ReadyComplete ==
  \A tp \in TPs : Settled(tp) /\ entry[tp].status = "READY" => CaughtUp(tp)

(* Produce first, write second (durability.md): the local copy never holds  *)
(* a fact no changelog knows about.  Every row is the record its changelog  *)
(* holds at the row's offset.                                               *)
RowsFromChangelog ==
  \A r \in rows :
    r.off < LogEnd(r.tp) /\ log[r.tp][r.off + 1] = LogRecord("record", r.id)

(* Replay and append may meet the same record, twice or in either order:    *)
(* it still has one row (invariants I2/I4 of _schema.py).                   *)
OneRowPerMessage ==
  \A r1, r2 \in rows : r1.id = r2.id => r1 = r2

(* A partition appears all at once (partition-lifecycle.md): the view shows *)
(* no partition whose replay is under way, and none that an earlier process *)
(* left in _owned and this one has not replayed.                            *)
HiddenUntilReplayed ==
  up => \A tp \in owned : entry[tp].status \in {"READY", "READY_PARTIAL"}

(* At the reveal of a READY partition its lag is zero and the stored        *)
(* checkpoint agrees, however it got there: the fast path, a replay, or a   *)
(* reset with either clamp.  A partition left short of the log end would    *)
(* re-enter the reset path on every assignment.                             *)
ReadyAtLogEnd ==
  cb.pc = "reveal" /\ entry[cb.tp].status = "READY" =>
    /\ Lag(entry[cb.tp]) = 0
    /\ entry[cb.tp].ckpt = ckpt[cb.tp]

(* checkpoint_offset is live (types.md): between the hooks and the appends  *)
(* of a settled READY partition it is the committed checkpoint.             *)
CheckpointIsLive ==
  \A tp \in TPs :
    Settled(tp) /\ entry[tp].status = "READY" /\ AppendsOn(tp) = {} =>
      entry[tp].ckpt = ckpt[tp]

(* The in-memory checkpoint never runs ahead of the committed one.          *)
MemoryNeverAhead == \A tp \in TPs : entry[tp].ckpt <= ckpt[tp]

(* RH-11: the stored checkpoint goes down only when the log end had fallen  *)
(* below it, at the log end captured by the hook that lowers it.            *)
CheckpointFallsOnlyAfterRegression ==
  [][\A tp \in TPs : ckpt'[tp] < ckpt[tp] =>
       tp = cb.tp /\ ckpt[tp] >= cb.leo /\ ckpt'[tp] = cb.leo - 1]_vars

(* A hook that returns normally has revealed what it was given              *)
(* (partition-lifecycle.md: "when the callback returns, the partitions it   *)
(* was given are queryable"), budget spent or not: a partition leaves the   *)
(* hook's work unrevealed only if the hook fails or the process ends.       *)
AssignReveals ==
  [][cb.pc \in AssignPcs =>
       \/ \A tp \in cb.todo : tp \in cb'.todo \/ tp \in owned'
       \/ HookFails \/ Crash]_vars

(* A revoke that returns has hidden what it was given, the partitions after *)
(* the first included; one that fails half-way leaves the rest visible.     *)
RevokeHides ==
  [][cb.pc \in RevokePcs =>
       \/ \A tp \in cb.todo : tp \in cb'.todo \/ tp \notin owned'
       \/ HookFails \/ Crash]_vars

(* What this host holds and no hook is at work on is served: a reveal that  *)
(* fails after mark_ready leaves READY and hidden only a partition of a     *)
(* failed assignment.                                                      *)
HeldIsVisible ==
  \A tp \in claimed \ cb.todo :
    tp \in owned /\ entry[tp].status \in {"READY", "READY_PARTIAL"}

(* The deadline bounds the hook (RH-31/32): however slow the broker, and    *)
(* whatever trims the log, an assignment ends.                              *)
AssignEnds == cb.pc \in AssignPcs ~> cb.pc = "idle"

-----------------------------------------------------------------------------
(* The host keeps every rule (revoke_first is not needed), and no changelog *)
(* loses its tail.                                                          *)
Careful == AllRules \ {"revoke_first"} \subseteq HostRules /\ "regress" \notin Env

(* The strengthening of CheckpointHonest and ReadyComplete that every step  *)
(* preserves when Careful.                                                  *)

(* Every record of tp below offset n is applied; every record from n on is. *)
Materialized(tp, n) == \A o \in LogOffsets(tp) : o < n => Applied(tp, o)
MaterializedFrom(tp, n) == \A o \in LogOffsets(tp) : o >= n => Applied(tp, o)

(* Where the record of message id is. *)
RecordAt(tp, o, id) == log[tp][o + 1] = LogRecord("record", id)

(* Message id has a record in the changelog of tp only. *)
OnlyOn(tp, id) ==
  \A q \in TPs : \A o \in LogOffsets(q) : RecordAt(q, o, id) => q = tp

(* Offsets lie within the log, and a message id belongs to one changelog.   *)
LogInv ==
  /\ \A tp \in TPs :
       /\ logStart[tp] <= LogEnd(tp)
       /\ ckpt[tp] < LogEnd(tp)
       /\ \A o \in LogOffsets(tp) : log[tp][o + 1].kind = "record" => log[tp][o + 1].id <= minted
  /\ \A tp, q \in TPs : \A o \in LogOffsets(tp), x \in LogOffsets(q) :
       log[tp][o + 1].kind = "record" /\ log[q][x + 1] = log[tp][o + 1] => q = tp

(* An append under way is the only one on its partition, which is READY and *)
(* at rest, and its message id is its own.                                  *)
AppInv ==
  \A t \in Tasks : app[t].pc # "idle" =>
    /\ Settled(app[t].tp)
    /\ entry[app[t].tp].status = "READY"
    /\ app[t].id <= minted
    /\ \A u \in Tasks \ {t} :
         app[u].pc # "idle" => app[u].tp # app[t].tp /\ app[u].id # app[t].id
    /\ OnlyOn(app[t].tp, app[t].id)
    /\ app[t].pc \in {"landed", "committed"} =>
         app[t].off < LogEnd(app[t].tp) /\ RecordAt(app[t].tp, app[t].off, app[t].id)

(* The partitions of a hook are claimed or not, as it assigns or revokes. *)
ClaimInv ==
  /\ cb.pc \in AssignPcs => cb.todo \subseteq claimed
  /\ cb.pc \in RevokePcs => cb.todo \cap claimed = {}

(* What a hook has established at each of its awaits.  From the capture of  *)
(* the log end on, only foreign records are added above it.                 *)
HookInv ==
  /\ cb.pc = "logEnd" => Materialized(cb.tp, cb.stored + 1)
  /\ cb.pc \in ReplayPcs => cb.leo <= LogEnd(cb.tp) /\ MaterializedFrom(cb.tp, cb.leo)
  /\ cb.pc = "poll" => Materialized(cb.tp, cb.fetch)
  /\ cb.pc = "resetSeek" => cb.log_start <= logStart[cb.tp]
  /\ cb.pc \in {"commit", "writeBack"} =>
       /\ cb.fetch = cb.lo + Len(cb.batch)
       /\ cb.fetch <= LogEnd(cb.tp)
       /\ \A i \in 1..Len(cb.batch) : cb.batch[i] = log[cb.tp][cb.lo + i]
  /\ cb.pc = "commit" => Materialized(cb.tp, cb.lo)
  /\ cb.pc = "writeBack" => Materialized(cb.tp, cb.fetch)
  /\ cb.pc \in {"clampRead", "clampCommit", "clampBack"} => MaterializedFrom(cb.tp, 0)
  /\ cb.pc = "clampCommit" => cb.target < LogEnd(cb.tp)
  /\ cb.pc = "reveal" /\ entry[cb.tp].status = "READY" => MaterializedFrom(cb.tp, 0)

IInv ==
  /\ TypeOK
  /\ LogInv /\ RowsFromChangelog /\ CheckpointHonest /\ ReadyComplete
  /\ AppInv /\ ClaimInv /\ HookInv
-----------------------------------------------------------------------------
(* The promise to a host that keeps the rules, as a specification, and what *)
(* of this one it speaks of.                                               *)

(* The messages SQLite has a row for. *)
Copied == {[tp |-> r.tp, id |-> r.id] : r \in rows}

(* Where a replay goes on. *)
Frontier == [tp \in TPs |-> NextOffset(ckpt[tp])]

(* The messages of the appends between their produce and their commit. *)
Landed == {[tp |-> app[t].tp, id |-> app[t].id] : t \in {u \in Tasks : app[u].pc = "landed"}}

(* What the host may read and append to: it holds the partition, no hook is *)
(* at work on it, and it waits for no rehydrate.                           *)
Usable == {tp \in TPs : Settled(tp) /\ entry[tp].status = "READY"}

Promise == INSTANCE CheckpointedReplica WITH
  Records <- [kind : Kinds, id : 0..MaxIds], start <- logStart,
  copy <- Copied, frontier <- Frontier, pending <- Landed, ready <- Usable, shown <- owned

(* All of append, of the hooks, of retention, crashes and failures is the   *)
(* promise at work, one step of it at a time: the copy never loses a        *)
(* message, the frontier never falls and never passes what is not copied,   *)
(* and a partition becomes usable only with everything its changelog has.   *)
KeepsPromise == Promise!Spec
=============================================================================
