------------------------ MODULE ReplicaRefinementProofs ------------------------
(***************************************************************************)
(* ChangelogReplica implements CheckpointedReplica when the host is        *)
(* Careful: every step is one of the promise, or changes nothing of what   *)
(* it speaks of.  One lemma for each kind of step, on the invariants of    *)
(* ReplicaSafetyProofs (IInv), ReplicaViewProofs (ViewInv) and             *)
(* ReplicaCheckpointProofs (AboveInv).                                     *)
(***************************************************************************)
EXTENDS ReplicaCheckpointProofs

(* What the promise speaks of, as a tuple. *)
Mapped == <<log, logStart, Copied, Frontier, Landed, Usable, owned>>

(* A step that leaves the mapping alone is a stutter of the promise. *)
LEMMA Stutters ==
  ASSUME UNCHANGED Mapped
  PROVE  [Promise!Next]_Promise!vars
  BY DEF Mapped, Promise!vars

(* An expired, foreign or stored record is covered; at an unknown one no    *)
(* checkpoint gets past.                                                   *)
LEMMA CoveredFromApplied ==
  ASSUME TypeOK', NEW tp \in TPs, NEW n \in Nat, n <= LogEnd(tp)',
         \A o \in LogOffsets(tp)' : o < n => Applied(tp, o)'
  PROVE  Promise!CoveredTo(tp, n, Copied)'
<1> SUFFICES ASSUME NEW i \in ((logStart[tp]' + 1)..n)
             PROVE  log'[tp][i].kind = "foreign" \/ [tp |-> tp, id |-> log'[tp][i].id] \in Copied'
  BY DEF Promise!CoveredTo, Promise!Message
<1>1. logStart'[tp] \in Nat /\ LogEnd(tp)' \in Nat
  BY DEF TypeOK, LogEnd
<1>2. i - 1 \in LogOffsets(tp)' /\ i - 1 < n /\ ~(i - 1 < logStart'[tp]) /\ (i - 1) + 1 = i
  BY <1>1 DEF LogOffsets
<1>3. Applied(tp, i - 1)'
  BY <1>2
<1>4. log'[tp][i].kind = "foreign" \/ \E r \in rows' : r.tp = tp /\ r.id = log'[tp][i].id
  BY <1>2, <1>3 DEF Applied
<1> QED
  BY <1>4 DEF Copied

(* A checkpoint set to off, or kept when it is higher, is a frontier moved  *)
(* up to off + 1, or kept.                                                 *)
LEMMA FrontierMoves ==
  ASSUME TypeOK, NEW tp \in TPs, NEW off \in Int, off >= -1,
         \/ ckpt' = [ckpt EXCEPT ![tp] = UpsertCheckpoint(@, off)]
         \/ ckpt' = [ckpt EXCEPT ![tp] = off] /\ ckpt[tp] <= off
  PROVE  Frontier' = [Frontier EXCEPT ![tp] = IF off + 1 > @ THEN off + 1 ELSE @]
<1>1. /\ ckpt[tp] \in Int /\ ckpt[tp] >= NoOffset
      /\ \A q \in TPs \ {tp} : ckpt'[q] = ckpt[q]
  BY DEF TypeOK, Offsets
<1>2. ckpt'[tp] = IF off > ckpt[tp] THEN off ELSE ckpt[tp]
  BY <1>1 DEF TypeOK, UpsertCheckpoint
<1>3. NextOffset(ckpt'[tp]) =
        IF off + 1 > NextOffset(ckpt[tp]) THEN off + 1 ELSE NextOffset(ckpt[tp])
  BY <1>1, <1>2 DEF NextOffset, NoOffset
<1> QED
  BY <1>1, <1>3 DEF Frontier

(* With the checkpoint honest, what the frontier passes is in the copy.    *)
LEMMA FrontierCovered ==
  ASSUME TypeOK', LogInv', CheckpointHonest', NEW tp \in TPs
  PROVE  Promise!CoveredTo(tp, Frontier[tp], Copied)'
<1>1. ckpt'[tp] \in Int /\ ckpt'[tp] >= NoOffset /\ ckpt'[tp] < LogEnd(tp)' /\ LogEnd(tp)' \in Nat
  BY DEF TypeOK, Offsets, LogInv, LogEnd
<1>2. PICK n \in Nat :
        /\ n = NextOffset(ckpt'[tp]) /\ n <= LogEnd(tp)'
        /\ \A o \in Int : o >= 0 /\ o < n => o <= ckpt'[tp]
  BY <1>1 DEF NextOffset, NoOffset
<1>3. \A o \in LogOffsets(tp)' : o < n => Applied(tp, o)'
  BY <1>1, <1>2 DEF CheckpointHonest, LogOffsets
<1>4. Frontier'[tp] = n
  BY <1>2 DEF Frontier
<1>5. Promise!CoveredTo(tp, n, Copied)'
  BY <1>2, <1>3, CoveredFromApplied
<1> QED
  BY <1>4, <1>5

-----------------------------------------------------------------------------
(* The world and the process *)

(* Steps that keep the host's state and the entries keep what it may use.  *)
LEMMA SameHost ==
  ASSUME UNCHANGED <<entry, cb, claimed, dirty>>
  PROVE  Usable' = Usable
  BY DEF Usable, Settled

(* Others write: to a partition this host holds no KSQLite record.         *)
LEMMA RefineWorld ==
  ASSUME TypeOK, Careful, minted \in 0..MaxIds, World
  PROVE  [Promise!Next]_Promise!vars
<1>1. PICK tp \in TPs :
        \/ ForeignWrites(tp) \/ Trim(tp) \/ Regress(tp)
        \/ \E kind \in {"record", "unknown"} : OtherOwnerWrites(tp, kind)
  BY DEF World
<1>2. UNCHANGED <<rows, ckpt, owned, app, Usable>>
  <2>1. WorldKeeps
    BY <1>1 DEF ForeignWrites, Trim, Regress, OtherOwnerWrites
  <2> QED
    BY <2>1, SameHost DEF WorldKeeps, tableVars, hostVars
<1>3. UNCHANGED <<Copied, Frontier, Landed, Usable, owned>>
  BY <1>2 DEF Copied, Frontier, Landed
<1>4. ASSUME NEW r \in [kind : Kinds, id : 0..MaxIds], tp \in Usable => r.kind = "foreign",
             log' = [log EXCEPT ![tp] = Append(@, r)], logStart' = logStart
      PROVE  Promise!Next
  <2>1. Promise!OthersWrite(tp, r)
    BY <1>3, <1>4 DEF Promise!OthersWrite
  <2> QED
    BY <2>1 DEF Promise!Next
<1>5. CASE ForeignWrites(tp)
  <2>1. LogRecord("foreign", 0) \in [kind : Kinds, id : 0..MaxIds]
    BY BoundsAssumption DEF LogRecord, Kinds
  <2>2. LogRecord("foreign", 0).kind = "foreign"
    BY DEF LogRecord
  <2> QED
    BY <1>4, <1>5, <2>1, <2>2 DEF ForeignWrites
<1>6. CASE Trim(tp)
  <2>1. PICK n \in (logStart[tp] + 1)..LogEnd(tp) : logStart' = [logStart EXCEPT ![tp] = n]
    BY <1>6 DEF Trim
  <2>2. n \in 0..Len(log[tp]) /\ log' = log
    BY <1>6, <2>1 DEF Trim, TypeOK, LogEnd
  <2>3. Promise!Expire(tp, n)
    BY <1>3, <2>1, <2>2 DEF Promise!Expire, LogEnd
  <2> QED
    BY <2>2, <2>3 DEF Promise!Next
<1>7. CASE Regress(tp)
  BY <1>7 DEF Regress, Careful
<1>8. ASSUME NEW kind \in {"record", "unknown"}, OtherOwnerWrites(tp, kind)
      PROVE  Promise!Next
  <2>1. minted < MaxIds /\ minted + 1 \in 0..MaxIds
    BY <1>8, BoundsAssumption DEF OtherOwnerWrites
  <2>2. LogRecord(kind, minted + 1) \in [kind : Kinds, id : 0..MaxIds]
    BY <2>1 DEF LogRecord, Kinds
  <2>3. tp \notin Usable
    BY <1>8 DEF OtherOwnerWrites, Usable, Settled, Careful, AllRules, Rule
  <2> QED
    BY <1>4, <1>8, <2>2, <2>3 DEF OtherOwnerWrites
<1> QED
  BY <1>1, <1>5, <1>6, <1>7, <1>8

(* start() and the end of the process, whose memory is lost.               *)
LEMMA RefineProcess ==
  ASSUME ViewInv, StartStore \/ Crash
  PROVE  Promise!Next
<1>1. CASE StartStore
  <2>1. Usable = {} /\ Usable' = {} /\ UNCHANGED <<rows, ckpt, app>>
    BY <1>1 DEF StartStore, ViewInv, Usable, Settled, appVars
  <2>2. UNCHANGED <<log, logStart, Copied, Frontier, Landed, Usable>> /\ owned' = {}
    BY <1>1, <2>1 DEF StartStore, OwnedAtStart, brokerVars, Copied, Frontier, Landed
  <2>3. Promise!Restart
    BY <2>1, <2>2 DEF Promise!Restart
  <2> QED
    BY <2>3 DEF Promise!Next
<1>2. CASE Crash
  <2>1. Usable' = {} /\ Landed' = {}
    BY <1>2 DEF Crash, Usable, Settled, Landed, IdleApp
  <2>2. UNCHANGED <<log, logStart, Copied, Frontier, owned>>
    BY <1>2 DEF Crash, brokerVars, tableVars, Copied, Frontier
  <2>3. Promise!Crash
    BY <2>1, <2>2 DEF Promise!Crash
  <2> QED
    BY <2>3 DEF Promise!Next
<1> QED
  BY <1>1, <1>2

-----------------------------------------------------------------------------
(* The appends *)

(* A call that begins has written nothing. *)
LEMMA RefineHostAppends ==
  ASSUME TypeOK, NEW t \in Tasks, NEW tp \in TPs, HostAppends(t, tp)
  PROVE  UNCHANGED Mapped
<1>1. UNCHANGED <<log, logStart, rows, ckpt, owned, entry, cb, claimed, dirty>>
  BY DEF HostAppends, StartAppend, brokerVars, tableVars, hostVars
<1>2. /\ app[t].pc = "idle" /\ app'[t].pc = "sending"
      /\ \A u \in Tasks \ {t} : app'[u] = app[u]
  BY DEF HostAppends, StartAppend, TypeOK
<1>3. \A u \in Tasks : (app'[u].pc = "landed" <=> app[u].pc = "landed")
                     /\ (app[u].pc = "landed" => app'[u] = app[u])
  BY <1>2
<1>4. Landed' = Landed
  BY <1>3 DEF Landed
<1>5. Copied' = Copied /\ Frontier' = Frontier /\ Usable' = Usable
  BY <1>1, SameHost DEF Copied, Frontier
<1> QED
  BY <1>1, <1>4, <1>5 DEF Mapped

(* An append under way has a usable partition for itself.                  *)
LEMMA AppendAlone ==
  ASSUME IInv, NEW t \in Tasks, app[t].pc # "idle"
  PROVE  \E p \in TPs, id \in Nat :
           /\ p = app[t].tp /\ id = app[t].id /\ id <= minted /\ p \in Usable /\ OnlyOn(p, id)
           /\ \A u \in Tasks \ {t} : app[u].pc = "landed" => app[u].tp # p
           /\ app[t].pc = "landed" =>
                /\ app[t].off \in Nat /\ app[t].off < LogEnd(p)
                /\ RecordAt(p, app[t].off, id)
<1>1. PICK p \in TPs :
        /\ p = app[t].tp /\ Settled(p) /\ entry[p].status = "READY"
        /\ app[t].id \in Nat /\ app[t].id <= minted /\ OnlyOn(p, app[t].id)
        /\ app[t].pc \in {"landed", "committed"} =>
             /\ app[t].off \in Nat /\ app[t].off < LogEnd(p)
             /\ RecordAt(p, app[t].off, app[t].id)
        /\ \A u \in Tasks \ {t} : app[u].pc # "idle" => app[u].tp # p /\ app[u].id # app[t].id
  BY AppendAtWork DEF IInv
<1> QED
  BY <1>1 DEF Usable

(* The record is in the changelog for all to see, a resend's once more.    *)
LEMMA RefineProduce ==
  ASSUME IInv, minted \in 0..MaxIds, NEW t \in Tasks, Produce(t), UNCHANGED <<cb, hostVars>>
  PROVE  Promise!Next
<1>1. PICK p \in TPs, id \in Nat :
        /\ p = app[t].tp /\ id = app[t].id /\ id <= minted /\ p \in Usable /\ OnlyOn(p, id)
        /\ \A u \in Tasks \ {t} : app[u].pc = "landed" => app[u].tp # p
        /\ app[t].pc = "landed" =>
             app[t].off \in Nat /\ app[t].off < LogEnd(p) /\ RecordAt(p, app[t].off, id)
  BY AppendAlone DEF Produce
<1>2. PICK r : r = LogRecord("record", id)
  OBVIOUS
<1>3. r \in [kind : Kinds, id : 0..MaxIds] /\ r.kind = "record" /\ r.id = id
  BY <1>1, <1>2, BoundsAssumption DEF LogRecord, Kinds
<1>4. log' = [log EXCEPT ![p] = Append(@, r)]
      /\ UNCHANGED <<logStart, rows, ckpt, owned, entry, cb, claimed, dirty>>
  BY <1>1, <1>2 DEF Produce, tableVars, hostVars
<1>5. /\ app'[t].pc = "landed" /\ app'[t].tp = p /\ app'[t].id = id
      /\ \A u \in Tasks \ {t} : app'[u] = app[u]
  BY <1>1 DEF Produce, IInv, TypeOK, AppType
<1>6. Landed' = Landed \cup {[tp |-> p, id |-> id]}
  BY <1>1, <1>5 DEF Landed
<1>7. \A m \in Landed : m.tp = p => m.id = id
  BY <1>1 DEF Landed
<1>8. Copied' = Copied /\ Frontier' = Frontier /\ Usable' = Usable
  BY <1>4, SameHost DEF Copied, Frontier
<1>9. Promise!Produce(p, r)
  BY <1>1, <1>3, <1>4, <1>6, <1>7, <1>8 DEF Promise!Produce, Promise!Message
<1> QED
  BY <1>3, <1>9 DEF Promise!Next

(* The transaction of apply_materialization: the message is in the copy, by *)
(* this row or an earlier one, and the frontier past its offset.           *)
LEMMA RefineCommitAppend ==
  ASSUME IInv, IInv', NEW t \in Tasks, CommitAppend(t), UNCHANGED <<cb, hostVars>>
  PROVE  Promise!Next
<1>1. PICK p \in TPs, id \in Nat :
        /\ p = app[t].tp /\ id = app[t].id /\ id <= minted /\ p \in Usable /\ OnlyOn(p, id)
        /\ \A u \in Tasks \ {t} : app[u].pc = "landed" => app[u].tp # p
        /\ app[t].pc = "landed" =>
             app[t].off \in Nat /\ app[t].off < LogEnd(p) /\ RecordAt(p, app[t].off, id)
  BY AppendAlone DEF CommitAppend
<1>2. PICK off \in Nat : off = app[t].off /\ off < LogEnd(p) /\ RecordAt(p, off, id)
  BY <1>1 DEF CommitAppend
<1>3. PICK n \in Nat : n = off + 1 /\ n - 1 = off
  BY <1>2
<1>4. n \in 1..Len(log[p]) /\ log[p][n].kind = "record" /\ log[p][n].id = id
  BY <1>1, <1>2, <1>3, LogEndNat DEF IInv, LogEnd, RecordAt, LogRecord
<1>5. /\ rows' = InsertRecord(rows, p, id, off)
      /\ ckpt' = [ckpt EXCEPT ![p] = UpsertCheckpoint(@, off)]
      /\ UNCHANGED <<log, logStart, owned, entry, cb, claimed, dirty>>
  BY <1>1, <1>2 DEF CommitAppend, brokerVars, hostVars
<1>6. Promise!Messages(p, n - 1, n) = {[tp |-> p, id |-> id]}
  BY <1>3, <1>4 DEF Promise!Messages, Promise!Message
<1>7. Copied' = Copied \cup {[tp |-> p, id |-> id]}
  <2>1. CASE id \in StoredIds(rows)
    <3>1. \E row \in rows : row.tp = p /\ row.id = id
      BY <1>1, <2>1, StoredThere DEF IInv
    <3> QED
      BY <1>5, <2>1, <3>1 DEF InsertRecord, Copied
  <2>2. CASE id \notin StoredIds(rows)
    <3>1. PICK row : row = Row(p, id, off)
      OBVIOUS
    <3>2. rows' = rows \cup {row} /\ row.tp = p /\ row.id = id
      BY <1>5, <2>2, <3>1 DEF InsertRecord, Row
    <3>3. \A m : m \in Copied' <=> m \in Copied \/ m = [tp |-> p, id |-> id]
      BY <3>2 DEF Copied
    <3> QED
      BY <3>3
  <2> QED
    BY <2>1, <2>2
<1>8. Frontier' = [Frontier EXCEPT ![p] = IF n > @ THEN n ELSE @]
  <2>1. off \in Int /\ off >= -1
    OBVIOUS
  <2>2. Frontier' = [Frontier EXCEPT ![p] = IF off + 1 > @ THEN off + 1 ELSE @]
    BY <1>5, <2>1, FrontierMoves DEF IInv
  <2> QED
    BY <1>3, <2>2
<1>9. Promise!CoveredTo(p, Frontier'[p], Copied')
  <2>1. Promise!CoveredTo(p, Frontier[p], Copied)'
    BY FrontierCovered DEF IInv
  <2> QED
    BY <1>5, <2>1 DEF Promise!CoveredTo
<1>10. /\ app[t].pc = "landed" /\ app'[t].pc = "committed"
       /\ \A u \in Tasks \ {t} : app'[u] = app[u]
  BY DEF CommitAppend, IInv, TypeOK, AppType
<1>11. [tp |-> p, id |-> id] \in Landed
  BY <1>1, <1>10 DEF Landed
<1>12. Landed' = Landed \ {[tp |-> p, id |-> id]}
  BY <1>1, <1>10 DEF Landed
<1>13. Usable' = Usable
  BY <1>5, SameHost
<1>14. Promise!Copies(p, Promise!Messages(p, n - 1, n), n)
  BY <1>4, <1>6, <1>7, <1>8, <1>9 DEF Promise!Copies
<1>15. Promise!Apply(p, n)
  BY <1>4, <1>5, <1>6, <1>11, <1>12, <1>13, <1>14 DEF Promise!Apply, Promise!Message
<1> QED
  BY <1>4, <1>15 DEF Promise!Next

(* The return is seen by no one; a failure leaves the partition unusable,   *)
(* since the host has to rehydrate it.                                     *)
LEMMA RefineAppendEnds ==
  ASSUME IInv, Careful, NEW t \in Tasks,
         \/ AppendReturns(t) /\ UNCHANGED <<cb, hostVars>>
         \/ AppendProduceFails(t) \/ AppendStorageFails(t)
  PROVE  [Promise!Next]_Promise!vars
<1>1. PICK p \in TPs, id \in Nat :
        /\ p = app[t].tp /\ id = app[t].id /\ id <= minted /\ p \in Usable /\ OnlyOn(p, id)
        /\ \A u \in Tasks \ {t} : app[u].pc = "landed" => app[u].tp # p
        /\ app[t].pc = "landed" =>
             app[t].off \in Nat /\ app[t].off < LogEnd(p) /\ RecordAt(p, app[t].off, id)
  BY AppendAlone DEF AppendReturns, AppendProduceFails, ProduceFails, AppendStorageFails,
                     MaterializeFails
<1>2. /\ UNCHANGED <<log, logStart, rows, ckpt, owned, cb, claimed>>
      /\ app'[t].pc = "idle" /\ \A u \in Tasks \ {t} : app'[u] = app[u]
  BY DEF AppendReturns, AppendProduceFails, ProduceFails, AppendStorageFails, MaterializeFails,
         brokerVars, tableVars, hostVars, IInv, TypeOK, IdleApp
<1>3. Copied' = Copied /\ Frontier' = Frontier
  BY <1>2 DEF Copied, Frontier
<1>4. CASE AppendReturns(t) /\ UNCHANGED <<cb, hostVars>>
  <2>1. \A u \in Tasks : (app'[u].pc = "landed" <=> app[u].pc = "landed")
                       /\ (app[u].pc = "landed" => app'[u] = app[u])
    BY <1>2, <1>4 DEF AppendReturns
  <2>2. Landed' = Landed
    BY <2>1 DEF Landed
  <2>3. \A q \in TPs : entry'[q].status = entry[q].status
    <3>1. entry[p].status = "READY" /\ entry[p] \in Entries
      BY <1>1 DEF Usable, IInv, TypeOK
    <3>2. RecordApplied(entry[p], app[t].off).status = "READY"
      BY <3>1 DEF RecordApplied, Touched, Entries
    <3> QED
      BY <1>1, <1>4, <3>1, <3>2 DEF AppendReturns, IInv, TypeOK
  <2>4. Usable' = Usable
    BY <1>2, <1>4, <2>3 DEF Usable, Settled, hostVars
  <2> QED
    BY <1>2, <1>3, <2>2, <2>4, Stutters DEF Mapped
<1>5. CASE AppendProduceFails(t) \/ AppendStorageFails(t)
  <2>1. Landed' = {m \in Landed : m.tp # p}
    BY <1>1, <1>2 DEF Landed
  <2>2. entry' = entry /\ dirty' = dirty \cup {p}
    BY <1>1, <1>5 DEF AppendProduceFails, ProduceFails, AppendStorageFails, MaterializeFails,
                      Careful, AllRules, Rule
  <2>3. Usable' = Usable \ {p}
    BY <1>2, <2>2 DEF Usable, Settled
  <2>4. Promise!GiveUp(p)
    BY <1>1, <1>2, <1>3, <2>1, <2>3 DEF Promise!GiveUp
  <2> QED
    BY <2>4 DEF Promise!Next
<1> QED
  BY <1>4, <1>5

-----------------------------------------------------------------------------
(* The hooks *)

(* A call takes its partitions out of use; no append is under way on one.  *)
LEMMA RefineHookCall ==
  ASSUME TypeOK, Careful, NEW S \in SUBSET TPs, HostAssigns(S) \/ HostRevokes(S)
  PROVE  Promise!Next
<1>1. /\ UNCHANGED <<log, logStart, rows, ckpt, owned, entry, app, dirty>>
      /\ cb.pc = "idle" /\ cb'.todo = S
      /\ claimed' \in {claimed \cup S, claimed \ S}
  BY DEF HostAssigns, HostRevokes, StartAssign, StartRevoke, brokerVars, tableVars, appVars,
         IdleCb
<1>2. cb.todo = {}
  BY <1>1 DEF TypeOK, CbShape
<1>3. Usable' = Usable \ S
  BY <1>1, <1>2 DEF Usable, Settled
<1>4. \A m \in Landed : m.tp \notin S
  BY DEF HostAssigns, HostRevokes, Careful, AllRules, Rule, Quiet, AppendsOn, Landed
<1>5. UNCHANGED <<Copied, Frontier, Landed>>
  BY <1>1 DEF Copied, Frontier, Landed
<1>6. Promise!Withdraw(S)
  BY <1>1, <1>3, <1>4, <1>5 DEF Promise!Withdraw
<1> QED
  BY <1>6 DEF Promise!Next

(* A hook that fails leaves its partitions unclaimed, so as unusable as     *)
(* they were; the clock does nothing to them.                              *)
LEMMA RefineHookPasses ==
  ASSUME TypeOK, HookFails \/ ClockTicks
  PROVE  UNCHANGED Mapped
<1>1. UNCHANGED <<log, logStart, rows, ckpt, owned, entry, app, dirty>>
  BY DEF HookFails, AbortHook, ClockTicks, ClockExpires, brokerVars, tableVars, appVars, hostVars
<1>2. \/ cb'.todo = {} /\ claimed' = claimed \ cb.todo
      \/ cb'.todo = cb.todo /\ claimed' = claimed
  BY DEF HookFails, AbortHook, IdleCb, ClockTicks, ClockExpires, hostVars, TypeOK, CbType
<1>3. Usable' = Usable
  BY <1>1, <1>2 DEF Usable, Settled
<1>4. UNCHANGED <<Copied, Frontier, Landed>>
  BY <1>1 DEF Copied, Frontier, Landed
<1> QED
  BY <1>1, <1>3, <1>4 DEF Mapped

(* Short of a reveal, a hook's own partitions are out of use before and     *)
(* after its step: it works on them still, or has revoked them.            *)
LEMMA HookKeepsUse ==
  ASSUME TypeOK, ClaimInv, HookRuns, cb.pc # "reveal"
  PROVE  UNCHANGED <<log, logStart, Landed, Usable>>
<1>1. HookFrame
  BY HookStepFrame DEF HookRuns
<1>2. UNCHANGED <<log, logStart, app, claimed, dirty>>
  BY <1>1 DEF HookFrame, HookRuns, appVars
<1>3. ASSUME NEW q \in TPs PROVE q \in Usable' <=> q \in Usable
  <2>1. CASE q \notin cb.todo
    BY <1>1, <1>2, <2>1 DEF HookFrame, Usable, Settled
  <2>2. CASE q \in cb.todo
    BY <1>1, <1>2, <2>2 DEF HookFrame, Usable, Settled, ClaimInv
  <2> QED
    BY <2>1, <2>2
<1>4. Usable \subseteq TPs /\ Usable' \subseteq TPs
  BY DEF Usable
<1> QED
  BY <1>2, <1>3, <1>4 DEF Landed

(* A partition left READY has been replayed to its log end, and nothing of  *)
(* KSQLite's has been written there since.                                 *)
LEMMA RefineReveal ==
  ASSUME IInv, TypeOK', HookRuns, cb.pc = "reveal"
  PROVE  Promise!Next
<1>1. cb.tp \in TPs /\ cb.tp \in cb.todo /\ cb \in CbType
  BY WorkingTp DEF IInv, TypeOK
<1>2. PICK p \in TPs : p = cb.tp
  BY <1>1
<1>3. Reveal
  BY DEF HookRuns, HookStep, Replay, EnterPartition, PassOver, ReadCheckpoint, CaptureLogEnd,
         SeekToBeginning, PollBatch, PollEmpty, PollOutOfRange, ReadLogStart, ResetToBeginning,
         CommitBatch, WriteBack, ClampRead, ClampCommit, ClampWriteBack, LateLogEnd,
         LateReadCheckpoint, SkipRevoke, RevokeCommit, RevokeMark
<1>4. cb'.todo = cb.todo \ {p}
  BY <1>1, <1>2, <1>3, DoneShape DEF Reveal
<1>5. /\ owned' = owned \cup {p}
      /\ UNCHANGED <<log, logStart, rows, ckpt, entry, app, claimed>>
  BY <1>2, <1>3 DEF Reveal, HookRuns, brokerVars, appVars
<1>6. p \notin Usable /\ p \in claimed
  BY <1>1, <1>2 DEF Usable, Settled, IInv, ClaimInv, AssignPcs
<1>7. UNCHANGED <<Copied, Frontier, Landed>>
  BY <1>5 DEF Copied, Frontier, Landed
<1>8. CASE entry[p].status = "READY"
  <2>1. dirty' = dirty \ {p}
    BY <1>2, <1>8 DEF HookRuns
  <2>2. Usable' = Usable \cup {p}
    BY <1>4, <1>5, <1>6, <1>8, <2>1 DEF Usable, Settled
  <2>3. MaterializedFrom(p, 0)
    BY <1>2, <1>8 DEF IInv, HookInv
  <2>4. \A o \in LogOffsets(p)' : o < LogEnd(p)' => Applied(p, o)'
    BY <1>5, <2>3 DEF MaterializedFrom, LogOffsets, LogEnd, Applied
  <2>5. LogEnd(p)' = Len(log[p]) /\ LogEnd(p)' \in Nat
    BY <1>5 DEF LogEnd, TypeOK
  <2>6. PICK n \in Nat : n = Len(log[p])
    BY <2>5
  <2>7. Promise!CoveredTo(p, n, Copied)'
    BY <2>4, <2>5, <2>6, CoveredFromApplied
  <2>8. Promise!CoveredTo(p, Len(log[p]), Copied)
    BY <1>5, <1>7, <2>6, <2>7 DEF Promise!CoveredTo
  <2>9. Promise!Reveal(p)
    BY <1>5, <1>6, <1>7, <2>2, <2>8 DEF Promise!Reveal
  <2> QED
    BY <2>9 DEF Promise!Next
<1>9. CASE entry[p].status # "READY"
  <2>1. Usable' = Usable
    BY <1>2, <1>4, <1>5, <1>9 DEF Usable, Settled, HookRuns
  <2>2. Promise!Reveal(p)
    BY <1>5, <1>6, <1>7, <2>1 DEF Promise!Reveal
  <2> QED
    BY <2>2 DEF Promise!Next
<1> QED
  BY <1>8, <1>9

(* A batch is copied, message by message, up to its last record.           *)
LEMMA RefineBatch ==
  ASSUME IInv, IInv', HookRuns, CommitBatch
  PROVE  Promise!Next
<1> USE DEF IInv
<1>0. cb.tp \in TPs /\ cb.lo \in Nat /\ cb.batch \in Seq(LogRecords)
  BY WorkingTp DEF CommitBatch, TypeOK, CbType
<1>1. PICK p \in TPs, lo \in Nat, len \in Nat : p = cb.tp /\ lo = cb.lo /\ len = Len(cb.batch)
  BY <1>0
<1>2. PICK hi \in Nat : hi = lo + len
  BY <1>1
<1>3. /\ p \in cb.todo /\ len >= 1 /\ hi <= Len(log[p]) /\ Len(log[p]) \in Nat
      /\ BatchMax(cb) = hi - 1
  <2>1. p \in cb.todo
    BY <1>1, WorkingTp DEF CommitBatch
  <2>2. cb.batch # <<>>
    BY DEF CommitBatch, TypeOK, CbShape
  <2>3. len >= 1
    BY <1>0, <1>1, <2>2
  <2>4. hi <= Len(log[p])
    BY <1>1, <1>2 DEF HookInv, CommitBatch, LogEnd
  <2>5. Len(log[p]) \in Nat
    BY DEF TypeOK
  <2>6. BatchMax(cb) = hi - 1
    BY <1>1, <1>2 DEF BatchMax
  <2> QED
    BY <2>1, <2>3, <2>4, <2>5, <2>6
<1>4. /\ rows' = InsertBatch(rows, p, lo, cb.batch)
      /\ ckpt' = [ckpt EXCEPT ![p] = UpsertCheckpoint(@, hi - 1)]
      /\ owned' = owned
  BY <1>1, <1>3 DEF CommitBatch
<1>5. UNCHANGED <<log, logStart, Landed, Usable>>
  BY HookKeepsUse DEF CommitBatch
<1>6. ASSUME NEW i \in 1..len
      PROVE  cb.batch[i] = log[p][lo + i] /\ i \in DOMAIN cb.batch
  <2>1. cb.batch[i] = log[p][lo + i]
    BY <1>1, BatchRecords DEF CommitBatch
  <2> QED
    BY <1>0, <1>1, <2>1
<1>7. Copied' \subseteq Copied \cup Promise!Messages(p, lo, hi)
  <2> SUFFICES ASSUME NEW row \in rows', row \notin rows
               PROVE  [tp |-> row.tp, id |-> row.id] \in Promise!Messages(p, lo, hi)
    BY DEF Copied
  <2>1. PICK i \in NewRecords(rows, cb.batch) : row = Row(p, cb.batch[i].id, lo + i - 1)
    BY <1>4 DEF InsertBatch
  <2>2. i \in DOMAIN cb.batch /\ cb.batch[i].kind = "record"
    BY <2>1 DEF NewRecords
  <2>3. i \in 1..len
    BY <1>0, <1>1, <2>2
  <2>4. lo + i \in (lo + 1)..hi /\ log[p][lo + i] = cb.batch[i]
    BY <1>2, <1>6, <2>3
  <2>5. row.tp = p /\ row.id = log[p][lo + i].id /\ log[p][lo + i].kind = "record"
    BY <2>1, <2>2, <2>4 DEF Row
  <2> QED
    BY <2>4, <2>5 DEF Promise!Messages, Promise!Message
<1>8. Copied \cup Promise!Messages(p, lo, hi) \subseteq Copied'
  <2>1. rows \subseteq rows'
    BY <1>4 DEF InsertBatch
  <2>2. Copied \subseteq Copied'
    BY <2>1 DEF Copied
  <2>3. ASSUME NEW j \in (lo + 1)..hi, log[p][j].kind = "record"
        PROVE  [tp |-> p, id |-> log[p][j].id] \in Copied'
    <3>1. PICK i \in 1..len : j = lo + i
      <4>1. j - lo \in 1..len /\ j = lo + (j - lo)
        BY <1>2
      <4> QED
        BY <4>1
    <3>2. cb.batch[i] = log[p][j] /\ i \in 1..Len(cb.batch)
      BY <1>1, <1>6, <3>1
    <3>3. \E row \in rows' : row.tp = p /\ row.id = log[p][j].id
      BY <1>1, <2>3, <3>2, BatchStored
    <3> QED
      BY <3>3 DEF Copied
  <2>4. Promise!Messages(p, lo, hi) \subseteq Copied'
    BY <2>3 DEF Promise!Messages, Promise!Message
  <2> QED
    BY <2>2, <2>4
<1>9. Frontier' = [Frontier EXCEPT ![p] = IF hi > @ THEN hi ELSE @]
  <2>1. hi - 1 \in Int /\ hi - 1 >= -1 /\ (hi - 1) + 1 = hi
    OBVIOUS
  <2>2. Frontier' = [Frontier EXCEPT ![p] = IF (hi - 1) + 1 > @ THEN (hi - 1) + 1 ELSE @]
    BY <1>4, <2>1, FrontierMoves
  <2> QED
    BY <2>1, <2>2
<1>10. Promise!CoveredTo(p, Frontier'[p], Copied')
  <2>1. Promise!CoveredTo(p, Frontier[p], Copied)'
    BY FrontierCovered
  <2> QED
    BY <1>5, <2>1 DEF Promise!CoveredTo
<1>11. Copied' = Copied \cup Promise!Messages(p, lo, hi)
  BY <1>7, <1>8
<1>12. lo \in 0..hi /\ lo \in 0..Len(log[p]) /\ hi \in 0..Len(log[p])
  BY <1>2, <1>3
<1>13. Promise!Copies(p, Promise!Messages(p, lo, hi), hi)
  BY <1>9, <1>10, <1>11, <1>12 DEF Promise!Copies
<1>14. p \notin Usable
  BY <1>3 DEF Usable, Settled
<1>15. Promise!Replay(p, lo, hi)
  BY <1>4, <1>5, <1>12, <1>13, <1>14 DEF Promise!Replay
<1> QED
  BY <1>12, <1>15 DEF Promise!Next

(* A clamp moves the frontier to the captured log end, all below which has  *)
(* been replayed or has expired: a replay of nothing.                      *)
LEMMA RefineClamp ==
  ASSUME IInv, IInv', ClampFalls, AboveInv, HookRuns, ClampCommit
  PROVE  Promise!Next
<1> USE DEF IInv
<1>1. cb.tp \in TPs /\ cb.tp \in cb.todo /\ cb.leo \in Nat /\ cb.target = cb.leo - 1
  BY WorkingTp DEF ClampCommit, ClampFalls, TypeOK, CbShape, ReplayPcs
<1>2. PICK p \in TPs, n \in Nat : p = cb.tp /\ p \in cb.todo /\ n = cb.leo /\ cb.target = n - 1
  BY <1>1
<1>3. ckpt[p] <= n - 1
  BY <1>2 DEF AboveInv, HookAbove, ClampCommit
<1>4. Len(log[p]) \in Nat /\ n <= Len(log[p])
  BY <1>2 DEF HookInv, ClampCommit, LogEnd, TypeOK
<1>5. ckpt' = [ckpt EXCEPT ![p] = n - 1] /\ UNCHANGED <<rows, owned>>
  BY <1>2 DEF ClampCommit
<1>6. UNCHANGED <<log, logStart, Landed, Usable>>
  BY HookKeepsUse DEF ClampCommit
<1>7. Frontier' = [Frontier EXCEPT ![p] = IF n > @ THEN n ELSE @]
  <2>1. n - 1 \in Int /\ n - 1 >= -1 /\ (n - 1) + 1 = n
    OBVIOUS
  <2>2. Frontier' = [Frontier EXCEPT ![p] = IF (n - 1) + 1 > @ THEN (n - 1) + 1 ELSE @]
    BY <1>3, <1>5, <2>1, FrontierMoves
  <2> QED
    BY <2>1, <2>2
<1>8. Promise!CoveredTo(p, Frontier'[p], Copied')
  <2>1. Promise!CoveredTo(p, Frontier[p], Copied)'
    BY FrontierCovered
  <2> QED
    BY <1>6, <2>1 DEF Promise!CoveredTo
<1>9. Promise!Messages(p, n, n) = {}
  BY DEF Promise!Messages
<1>10. Copied' = Copied
  BY <1>5 DEF Copied
<1>11. Promise!Copies(p, Promise!Messages(p, n, n), n)
  BY <1>4, <1>7, <1>8, <1>9, <1>10 DEF Promise!Copies
<1>12. p \notin Usable
  BY <1>2 DEF Usable, Settled
<1>13. Promise!Replay(p, n, n) /\ n \in 0..Len(log[p])
  BY <1>4, <1>5, <1>6, <1>11, <1>12 DEF Promise!Replay
<1> QED
  BY <1>13 DEF Promise!Next

(* What else a hook does is hide a partition, or not seen here.            *)
LEMMA RefineHookElse ==
  ASSUME IInv, HookRuns, cb.pc # "reveal", ~CommitBatch, ~ClampCommit
  PROVE  [Promise!Next]_Promise!vars
<1> USE DEF IInv
<1>1. UNCHANGED <<rows, ckpt>>
  BY DEF HookRuns, HookStep, Replay, EnterPartition, PassOver, ReadCheckpoint, CaptureLogEnd,
         SeekToBeginning, PollBatch, PollEmpty, PollOutOfRange, ReadLogStart, ResetToBeginning,
         WriteBack, ClampRead, ClampWriteBack, LateLogEnd, LateReadCheckpoint, Reveal,
         SkipRevoke, RevokeCommit, RevokeMark, tableVars
<1>2. UNCHANGED <<log, logStart, Copied, Frontier, Landed, Usable>>
  BY <1>1, HookKeepsUse DEF Copied, Frontier
<1>3. HookView
  BY HookViewStep DEF HookRuns
<1>4. CASE owned' = owned
  BY <1>2, <1>4, Stutters DEF Mapped
<1>5. ASSUME NEW p \in cb.todo, owned' = owned \ {p}
      PROVE  Promise!Next
  <2>1. p \in TPs /\ p \notin Usable
    BY <1>5 DEF Usable, Settled, TypeOK, CbType
  <2>2. Promise!Hide(p)
    BY <1>2, <1>5, <2>1 DEF Promise!Hide
  <2> QED
    BY <2>1, <2>2 DEF Promise!Next
<1> QED
  BY <1>3, <1>4, <1>5 DEF HookView

-----------------------------------------------------------------------------
(* Every step *)

(* Message ids are minted up to their bound. *)
MintedInv == minted \in 0..MaxIds

(* An append and another owner check the bound before they mint. *)
LEMMA MintedStep == MintedInv /\ [Next]_vars => MintedInv'
<1> SUFFICES ASSUME MintedInv, [Next]_vars PROVE MintedInv'
  OBVIOUS
<1> DEFINE Mints == minted < MaxIds /\ minted' = minted + 1
<1>1. ASSUME NEW t \in Tasks,
             \/ AppendStep(t) \/ AppendProduceFails(t) \/ AppendStorageFails(t)
             \/ \E tp \in TPs : HostAppends(t, tp)
      PROVE  minted' = minted \/ Mints
  BY <1>1 DEF AppendStep, Produce, CommitAppend, AppendReturns, AppendProduceFails, ProduceFails,
              AppendStorageFails, MaterializeFails, HostAppends, StartAppend
<1>2. ASSUME \/ StartStore \/ Crash \/ HookRuns \/ HookFails \/ ClockTicks \/ UNCHANGED vars
             \/ \E S \in SUBSET TPs : HostAssigns(S) \/ HostRevokes(S)
      PROVE  minted' = minted
  BY <1>2 DEF StartStore, Crash, HookRuns, HookFails, ClockTicks, HostAssigns, HostRevokes,
              appVars, vars
<1>3. ASSUME World
      PROVE  minted' = minted \/ Mints
  BY <1>3 DEF World, ForeignWrites, OtherOwnerWrites, Trim, Regress
<1>4. minted' = minted \/ Mints
  BY <1>1, <1>2, <1>3 DEF Next, Host
<1> QED
  BY <1>4, BoundsAssumption DEF MintedInv

(* Nothing has been written, and nothing is usable. *)
LEMMA RefineInit == Init => Promise!Init
<1> SUFFICES ASSUME Init PROVE Promise!Init
  OBVIOUS
<1>1. Copied = {} /\ Landed = {} /\ Usable = {}
  BY DEF Init, Copied, Landed, Usable, Settled, IdleApp
<1>2. Frontier = [tp \in TPs |-> 0]
  BY DEF Init, Frontier, NextOffset
<1> QED
  BY <1>1, <1>2 DEF Init, Promise!Init

(* The cases of Next, each by its lemma. *)
LEMMA RefineStep ==
  ASSUME Careful, IInv, IInv', ViewInv, ClampFalls, AboveInv, MintedInv, [Next]_vars
  PROVE  [Promise!Next]_Promise!vars
<1> USE DEF IInv
<1>1. CASE UNCHANGED vars
  <2>1. UNCHANGED Mapped
    BY <1>1, SameHost DEF vars, Mapped, Copied, Frontier, Landed
  <2> QED
    BY <2>1, Stutters
<1>2. CASE StartStore \/ Crash
  BY <1>2, RefineProcess
<1>3. CASE Host
  <2>1. CASE \E t \in Tasks, tp \in TPs : HostAppends(t, tp)
    BY <2>1, RefineHostAppends, Stutters
  <2>2. CASE \E t \in Tasks : AppendProduceFails(t) \/ AppendStorageFails(t)
    BY <2>2, RefineAppendEnds
  <2>3. CASE \E S \in SUBSET TPs : HostAssigns(S) \/ HostRevokes(S)
    BY <2>3, RefineHookCall
  <2>4. CASE HookFails
    BY <2>4, RefineHookPasses, Stutters
  <2> QED
    BY <1>3, <2>1, <2>2, <2>3, <2>4 DEF Host
<1>4. ASSUME NEW t \in Tasks, AppendStep(t)
      PROVE  [Promise!Next]_Promise!vars
  <2>1. UNCHANGED <<cb, hostVars>>
    BY <1>4 DEF AppendStep
  <2>2. CASE Produce(t)
    BY <2>1, <2>2, RefineProduce DEF MintedInv
  <2>3. CASE CommitAppend(t)
    BY <2>1, <2>3, RefineCommitAppend
  <2>4. CASE AppendReturns(t)
    BY <2>1, <2>4, RefineAppendEnds
  <2> QED
    BY <1>4, <2>2, <2>3, <2>4 DEF AppendStep
<1>5. CASE HookRuns
  <2>1. CASE cb.pc = "reveal"
    BY <1>5, <2>1, RefineReveal
  <2>2. CASE CommitBatch
    BY <1>5, <2>2, RefineBatch
  <2>3. CASE ClampCommit
    BY <1>5, <2>3, RefineClamp
  <2> QED
    BY <1>5, <2>1, <2>2, <2>3, RefineHookElse
<1>6. CASE ClockTicks
  BY <1>6, RefineHookPasses, Stutters
<1>7. CASE World
  BY <1>7, RefineWorld DEF MintedInv
<1> QED
  BY <1>1, <1>2, <1>3, <1>4, <1>5, <1>6, <1>7 DEF Next

(* A KSQLite whose host follows the rules is the replica it promises to be: *)
(* whatever the interleaving of its appends with its hooks, with crashes,   *)
(* failures and retention, each step of the program is one step of the      *)
(* abstract replica, or none.                                              *)
THEOREM PromiseIsKept ==
  ASSUME Careful
  PROVE  Spec => KeepsPromise
<1>1. Spec => []IInv
  BY Inductive
<1>2. TypeOK /\ BoundsInv /\ ClampFalls /\ [Next]_vars => BoundsInv' /\ ClampFalls'
  BY BoundsStep, ClampFallsStep DEF Careful
<1>3. TypeOK /\ BoundsInv /\ ClampFalls' /\ QuietInv /\ AboveInv /\ [Next]_vars
        => AboveInv' /\ QuietInv'
  BY AboveStep, QuietStep DEF Careful, AllRules, Rule
<1>4. Init => MintedInv
  BY BoundsAssumption DEF Init, MintedInv
<1>5. IInv /\ IInv' /\ ViewInv /\ ClampFalls /\ AboveInv /\ MintedInv /\ [Next]_vars
        => [Promise!Next]_Promise!vars
  BY RefineStep
<1>6. IInv => TypeOK
  BY DEF IInv
<1> QED
  BY <1>1, <1>2, <1>3, <1>4, <1>5, <1>6, MemInit, MintedStep, ViewSafety, RefineInit, PTL
  DEF Spec, KeepsPromise, Promise!Spec
=============================================================================
