------------------------ MODULE ReplicaSafetyProofs ------------------------
(***************************************************************************)
(* CheckpointHonest, ReadyComplete and RowsFromChangelog as theorems of    *)
(* ChangelogReplica, for every set of partitions, tasks and bounds, when   *)
(* the host is Careful: IInv is an invariant, by one lemma for each action.*)
(***************************************************************************)
EXTENDS ChangelogReplicaProofs, WellFoundedInduction

-----------------------------------------------------------------------------
(* What survives when changelogs and tables only grow. *)

(* In this step the changelog of tp keeps its records and at most gains r,  *)
(* retention may drop some, and no row is lost.                            *)
Longer(tp, r) ==
  /\ log'[tp] \in {log[tp], Append(log[tp], r)}
  /\ logStart[tp] <= logStart'[tp]
  /\ rows \subseteq rows'

(* The record gained, if any, is not KSQLite's. *)
Grows(tp) == \E r \in LogRecords : r.kind = "foreign" /\ Longer(tp, r)

(* An append to a changelog leaves every record at its offset (LogRecord    *)
(* positions are broker offsets), and puts the new one at the log end.     *)
LEMMA LongerLog ==
  ASSUME TypeOK, NEW tp \in TPs, NEW r \in LogRecords, Longer(tp, r)
  PROVE  /\ LogEnd(tp) \in Nat /\ LogEnd(tp)' \in Nat
         /\ LogEnd(tp) <= LogEnd(tp)'
         /\ \A o \in LogOffsets(tp) : o \in LogOffsets(tp)' /\ log'[tp][o + 1] = log[tp][o + 1]
         /\ \A o \in LogOffsets(tp)' \ LogOffsets(tp) : log'[tp][o + 1] = r
<1>1. log[tp] \in Seq(LogRecords)
  BY DEF TypeOK
<1>2. CASE log'[tp] = log[tp]
  BY <1>1, <1>2 DEF LogEnd, LogOffsets
<1>3. CASE log'[tp] = Append(log[tp], r)
  <2>1. Len(log'[tp]) = Len(log[tp]) + 1 /\ Len(log[tp]) \in Nat
    BY <1>1, <1>3
  <2>2. \A i \in 1..Len(log[tp]) : log'[tp][i] = log[tp][i]
    BY <1>1, <1>3
  <2>3. log'[tp][Len(log[tp]) + 1] = r
    BY <1>1, <1>3
  <2>4. \A o \in LogOffsets(tp)' \ LogOffsets(tp) : o + 1 = Len(log[tp]) + 1
    BY <2>1 DEF LogEnd, LogOffsets
  <2>5. \A o \in LogOffsets(tp) : o \in LogOffsets(tp)' /\ o + 1 \in 1..Len(log[tp])
    BY <2>1 DEF LogEnd, LogOffsets
  <2> QED
    BY <2>1, <2>2, <2>3, <2>4, <2>5 DEF LogEnd
<1> QED
  BY <1>2, <1>3 DEF Longer

(* An applied record stays applied: rows are only added (ON CONFLICT DO     *)
(* NOTHING deletes none) and the log start only rises.                     *)
LEMMA AppliedKept ==
  ASSUME TypeOK, TypeOK', NEW tp \in TPs, NEW r \in LogRecords, Longer(tp, r)
  PROVE  \A o \in LogOffsets(tp) : Applied(tp, o) => Applied(tp, o)'
<1> SUFFICES ASSUME NEW o \in LogOffsets(tp), Applied(tp, o)
             PROVE  Applied(tp, o)'
  OBVIOUS
<1>1. log'[tp][o + 1] = log[tp][o + 1]
  BY LongerLog
<1>2. logStart[tp] \in Nat /\ logStart'[tp] \in Nat /\ o \in Int
  BY DEF TypeOK, LogOffsets
<1> QED
  BY <1>1, <1>2 DEF Applied, Longer

(* What a replay has established holds on while others append records that *)
(* are not KSQLite's and retention trims.                                  *)
LEMMA GrowsKept ==
  ASSUME TypeOK, TypeOK', NEW tp \in TPs, Grows(tp)
  PROVE  /\ \A n : Materialized(tp, n) => Materialized(tp, n)'
         /\ \A n : MaterializedFrom(tp, n) => MaterializedFrom(tp, n)'
         /\ app' = app /\ CaughtUp(tp) => CaughtUp(tp)'
         /\ LogEnd(tp) \in Nat /\ LogEnd(tp)' \in Nat /\ LogEnd(tp) <= LogEnd(tp)'
<1>1. PICK r \in LogRecords : r.kind = "foreign" /\ Longer(tp, r)
  BY DEF Grows
<1>2. \A o \in LogOffsets(tp) : log'[tp][o + 1] = log[tp][o + 1]
  BY <1>1, LongerLog
<1>3. \A o \in LogOffsets(tp) : Applied(tp, o) => Applied(tp, o)'
  BY <1>1, AppliedKept
<1>4. \A o \in LogOffsets(tp)' \ LogOffsets(tp) : Applied(tp, o)'
  <2>1. \A o \in LogOffsets(tp)' \ LogOffsets(tp) : log'[tp][o + 1] = r
    BY <1>1, LongerLog
  <2> QED
    BY <1>1, <2>1 DEF Applied
<1>5. \A n : Materialized(tp, n) => Materialized(tp, n)'
  BY <1>3, <1>4 DEF Materialized
<1>6. \A n : MaterializedFrom(tp, n) => MaterializedFrom(tp, n)'
  BY <1>3, <1>4 DEF MaterializedFrom
<1>7. app' = app /\ CaughtUp(tp) => CaughtUp(tp)'
  BY <1>2, <1>3, <1>4 DEF CaughtUp, AppendsOn
<1>8. LogEnd(tp) \in Nat /\ LogEnd(tp)' \in Nat /\ LogEnd(tp) <= LogEnd(tp)'
  BY <1>1, LongerLog
<1> QED
  BY <1>5, <1>6, <1>7, <1>8

(* A partition complete in SQLite is caught up. *)
LEMMA CompleteIsCaughtUp ==
  ASSUME NEW tp \in TPs, MaterializedFrom(tp, 0)
  PROVE  CaughtUp(tp)
  BY DEF MaterializedFrom, CaughtUp, LogOffsets

(* A hook's knowledge outlasts the steps others take between its awaits. *)
LEMMA HookKept ==
  ASSUME TypeOK, TypeOK', HookInv, cb' = cb,
         cb.pc \in AssignPcs /\ cb.tp \in TPs => Grows(cb.tp) /\ entry'[cb.tp] = entry[cb.tp]
  PROVE  HookInv'
<1>1. CASE cb.pc \notin AssignPcs \/ cb.pc = "ensure"
  BY <1>1 DEF HookInv, AssignPcs, ReplayPcs
<1>2. CASE cb.pc \in AssignPcs /\ cb.pc # "ensure"
  <2>1. PICK tp \in TPs : tp = cb.tp
    BY <1>2, WorkingTp DEF AssignPcs, ReplayPcs
  <2>2. Grows(tp) /\ entry'[tp] = entry[tp]
    BY <1>2, <2>1
  <2>3. PICK r \in LogRecords : Longer(tp, r)
    BY <2>2 DEF Grows
  <2>4. LogEnd(tp) \in Nat /\ LogEnd(tp)' \in Nat /\ LogEnd(tp) <= LogEnd(tp)'
    BY <2>1, <2>3, LongerLog
  <2>5. logStart[tp] \in Nat /\ logStart'[tp] \in Nat /\ logStart[tp] <= logStart'[tp]
    BY <2>1, <2>3 DEF Longer, TypeOK
  <2>6. cb.pc \in ReplayPcs => cb.leo <= LogEnd(tp)'
    BY <2>1, <2>4 DEF HookInv, TypeOK, CbShape, LogEnd
  <2>7. cb.pc = "resetSeek" => cb.log_start <= logStart'[tp]
    BY <2>1, <2>5 DEF HookInv, TypeOK, CbType
  <2>8. cb.pc = "clampCommit" => cb.target < LogEnd(tp)'
    BY <2>1, <2>4 DEF HookInv, TypeOK, CbType, Offsets, LogEnd
  <2>9. cb.pc \in {"commit", "writeBack"} =>
          /\ cb.fetch <= LogEnd(tp)'
          /\ \A i \in 1..Len(cb.batch) : cb.batch[i] = log'[tp][cb.lo + i]
    <3> SUFFICES ASSUME cb.pc \in {"commit", "writeBack"}
                 PROVE  /\ cb.fetch <= LogEnd(tp)'
                        /\ \A i \in 1..Len(cb.batch) : cb.batch[i] = log'[tp][cb.lo + i]
      OBVIOUS
    <3>1. cb.lo \in Nat /\ cb.fetch \in Nat /\ Len(cb.batch) \in Nat
      BY DEF TypeOK, CbType
    <3>2. /\ cb.fetch = cb.lo + Len(cb.batch) /\ cb.fetch <= LogEnd(tp)
          /\ \A i \in 1..Len(cb.batch) : cb.batch[i] = log[tp][cb.lo + i]
      BY <2>1 DEF HookInv, LogEnd
    <3>3. \A i \in 1..Len(cb.batch) :
            cb.lo + i - 1 \in LogOffsets(tp) /\ (cb.lo + i - 1) + 1 = cb.lo + i
      BY <2>4, <3>1, <3>2 DEF LogOffsets
    <3>4. \A i \in 1..Len(cb.batch) : log'[tp][cb.lo + i] = log[tp][cb.lo + i]
      BY <2>1, <2>3, <3>3, LongerLog
    <3> QED
      BY <2>4, <3>1, <3>2, <3>4, SMTT(60)
  <2>10. /\ Materialized(tp, cb.stored + 1) => Materialized(tp, cb.stored + 1)'
         /\ Materialized(tp, cb.fetch) => Materialized(tp, cb.fetch)'
         /\ Materialized(tp, cb.lo) => Materialized(tp, cb.lo)'
         /\ MaterializedFrom(tp, cb.leo) => MaterializedFrom(tp, cb.leo)'
         /\ MaterializedFrom(tp, 0) => MaterializedFrom(tp, 0)'
    BY <2>1, <2>2, GrowsKept
  <2> QED
    BY <2>1, <2>2, <2>6, <2>7, <2>8, <2>9, <2>10 DEF HookInv
<1> QED
  BY <1>1, <1>2

(* A message id stays with its changelog: a record appended elsewhere has   *)
(* another id, since every id is minted once (new_message_id is a uuid).    *)
LEMMA OnlyOnKept ==
  ASSUME TypeOK, TypeOK', NEW tp \in TPs, NEW id, OnlyOn(tp, id),
         NEW p \in TPs, NEW r \in LogRecords, r = LogRecord("record", id) => p = tp,
         log' \in {log, [log EXCEPT ![p] = Append(@, r)]}
  PROVE  OnlyOn(tp, id)'
<1> SUFFICES ASSUME NEW q \in TPs, NEW o \in LogOffsets(q)', RecordAt(q, o, id)'
             PROVE  q = tp
  BY DEF OnlyOn
<1>1. CASE log' = log
  BY <1>1 DEF OnlyOn, RecordAt, LogOffsets, LogEnd
<1>2. CASE log' = [log EXCEPT ![p] = Append(@, r)] /\ q # p
  <2>1. log'[q] = log[q]
    BY <1>2 DEF TypeOK
  <2> QED
    BY <2>1 DEF OnlyOn, RecordAt, LogOffsets, LogEnd
<1>3. CASE log' = [log EXCEPT ![p] = Append(@, r)] /\ q = p
  <2>1. log'[p] = Append(log[p], r) /\ log[p] \in Seq(LogRecords)
    BY <1>3 DEF TypeOK
  <2>2. CASE o \in LogOffsets(p)
    <3>1. o + 1 \in 1..Len(log[p])
      BY <2>1, <2>2 DEF LogOffsets, LogEnd
    <3>2. log'[p][o + 1] = log[p][o + 1]
      BY <2>1, <3>1
    <3> QED
      BY <1>3, <2>2, <3>2 DEF OnlyOn, RecordAt
  <2>3. CASE o \notin LogOffsets(p)
    <3>1. o \in Int /\ o >= 0 /\ o <= Len(log[p])
      BY <1>3, <2>1 DEF LogOffsets, LogEnd
    <3>2. o + 1 = Len(log[p]) + 1
      BY <2>1, <2>3, <3>1 DEF LogOffsets, LogEnd
    <3>3. log'[p][o + 1] = r
      BY <2>1, <3>2
    <3> QED
      BY <1>3, <3>3 DEF RecordAt
  <2> QED
    BY <2>2, <2>3
<1> QED
  BY <1>1, <1>2, <1>3

(* What an append to a changelog leaves of the invariants of the broker and *)
(* the tables, the tables themselves unchanged.                             *)
LEMMA TablesAfterAppend ==
  ASSUME TypeOK, TypeOK', LogInv, RowsFromChangelog, CheckpointHonest,
         NEW p \in TPs, NEW r \in LogRecords,
         log' = [log EXCEPT ![p] = Append(@, r)], UNCHANGED <<logStart, rows, ckpt>>,
         minted <= minted',
         r.kind = "record" => r.id <= minted' /\ OnlyOn(p, r.id)
  PROVE  LogInv' /\ RowsFromChangelog' /\ CheckpointHonest'
<1>1. \A tp \in TPs : Longer(tp, r)
  BY DEF TypeOK, Longer
<1>2. \A tp \in TPs :
        /\ LogEnd(tp) \in Nat /\ LogEnd(tp)' \in Nat /\ LogEnd(tp) <= LogEnd(tp)'
        /\ \A o \in LogOffsets(tp) : o \in LogOffsets(tp)' /\ log'[tp][o + 1] = log[tp][o + 1]
        /\ \A o \in LogOffsets(tp)' \ LogOffsets(tp) : log'[tp][o + 1] = r
  BY <1>1, LongerLog
<1>3. LogInv'
  <2>1. ASSUME NEW tp \in TPs
        PROVE  logStart'[tp] <= LogEnd(tp)' /\ ckpt'[tp] < LogEnd(tp)'
    BY <1>2 DEF LogInv, TypeOK, Offsets
  <2>2. ASSUME NEW tp \in TPs, NEW o \in LogOffsets(tp)', log'[tp][o + 1].kind = "record"
        PROVE  log'[tp][o + 1].id <= minted'
    <3>1. CASE o \in LogOffsets(tp)
      <4>1. log[tp][o + 1].kind = "record" /\ log'[tp][o + 1].id = log[tp][o + 1].id
        BY <1>2, <2>2, <3>1
      <4>2. log[tp][o + 1] \in LogRecords
        BY <1>2, <3>1 DEF TypeOK, LogOffsets, LogEnd
      <4>3. log[tp][o + 1].id <= minted
        BY <3>1, <4>1 DEF LogInv
      <4>4. log[tp][o + 1].id \in Nat /\ minted \in Nat /\ minted' \in Nat
        BY <4>2 DEF TypeOK, LogRecords
      <4>5. log[tp][o + 1].id <= minted'
        BY <4>3, <4>4
      <4> QED
        BY <4>1, <4>5
    <3>2. CASE o \notin LogOffsets(tp)
      BY <1>2, <2>2, <3>2
    <3> QED
      BY <3>1, <3>2
  <2>3. ASSUME NEW tp \in TPs, NEW q \in TPs,
               NEW o \in LogOffsets(tp)', NEW x \in LogOffsets(q)',
               log'[tp][o + 1].kind = "record", log'[q][x + 1] = log'[tp][o + 1], q # tp
        PROVE  FALSE
    <3>1. CASE o \in LogOffsets(tp) /\ x \in LogOffsets(q)
      <4>1. log[tp][o + 1] = log'[tp][o + 1] /\ log[q][x + 1] = log'[q][x + 1]
        BY <1>2, <3>1
      <4> QED
        BY <2>3, <3>1, <4>1 DEF LogInv
    <3>2. r.kind = "record" => r = LogRecord("record", r.id)
      BY DEF LogRecord, LogRecords
    <3>3. CASE o \notin LogOffsets(tp)
      <4>1. tp = p /\ x \in LogOffsets(q)
        BY <2>3, <3>3 DEF TypeOK, LogOffsets, LogEnd
      <4>2. r.kind = "record" /\ RecordAt(q, x, r.id)
        BY <1>2, <2>3, <3>2, <3>3, <4>1 DEF RecordAt
      <4> QED
        BY <2>3, <4>1, <4>2 DEF OnlyOn
    <3>4. CASE x \notin LogOffsets(q)
      <4>1. q = p /\ o \in LogOffsets(tp)
        BY <2>3, <3>4 DEF TypeOK, LogOffsets, LogEnd
      <4>2. r.kind = "record" /\ RecordAt(tp, o, r.id)
        BY <1>2, <2>3, <3>2, <3>4, <4>1 DEF RecordAt
      <4> QED
        BY <2>3, <4>1, <4>2 DEF OnlyOn
    <3> QED
      BY <3>1, <3>3, <3>4
  <2> QED
    BY <2>1, <2>2, <2>3 DEF LogInv
<1>4. RowsFromChangelog'
  <2> SUFFICES ASSUME NEW row \in rows
               PROVE  (row.off < LogEnd(row.tp) /\ log[row.tp][row.off + 1] = LogRecord("record", row.id))'
    BY DEF RowsFromChangelog
  <2>1. PICK tp \in TPs : tp = row.tp /\ row.off \in Nat
    BY DEF TypeOK
  <2>2. row.off < LogEnd(tp) /\ log[tp][row.off + 1] = LogRecord("record", row.id)
    BY <2>1 DEF RowsFromChangelog
  <2>3. row.off \in LogOffsets(tp)
    BY <1>2, <2>1, <2>2 DEF LogOffsets
  <2>4. row.off < LogEnd(tp)' /\ log'[tp][row.off + 1] = LogRecord("record", row.id)
    <3>1. LogEnd(tp) \in Nat /\ LogEnd(tp)' \in Nat /\ LogEnd(tp) <= LogEnd(tp)'
      BY <1>2
    <3>2. log'[tp][row.off + 1] = log[tp][row.off + 1]
      BY <1>2, <2>3
    <3>3. row.off < LogEnd(tp)'
      BY <2>1, <2>2, <3>1
    <3> QED
      BY <2>2, <3>2, <3>3
  <2> QED
    BY <2>1, <2>4
<1>5. CheckpointHonest'
  <2> SUFFICES ASSUME NEW tp \in TPs, NEW o \in LogOffsets(tp)', o <= ckpt[tp]
               PROVE  Applied(tp, o)'
    BY DEF CheckpointHonest
  <2>1. o \in LogOffsets(tp)
    BY <1>2 DEF LogInv, TypeOK, LogOffsets, Offsets
  <2>2. Applied(tp, o)
    BY <2>1 DEF CheckpointHonest
  <2> QED
    BY <1>1, <2>1, <2>2, AppliedKept
<1> QED
  BY <1>3, <1>4, <1>5

(* Appends under way are not disturbed by steps that change no call, let    *)
(* their partitions grow, and keep them at rest.                           *)
LEMMA AppKept ==
  ASSUME TypeOK, TypeOK', AppInv, app' = app, minted <= minted',
         \A t \in Tasks : app[t].pc # "idle" =>
           /\ Settled(app[t].tp)'
           /\ entry'[app[t].tp].status = "READY"
           /\ \E r \in LogRecords : Longer(app[t].tp, r)
           /\ OnlyOn(app[t].tp, app[t].id)'
  PROVE  AppInv'
<1> SUFFICES ASSUME NEW t \in Tasks, app[t].pc # "idle"
             PROVE  /\ app[t].id <= minted'
                    /\ \A u \in Tasks \ {t} :
                         app[u].pc # "idle" => app[u].tp # app[t].tp /\ app[u].id # app[t].id
                    /\ app[t].pc \in {"landed", "committed"} =>
                         /\ app[t].off < LogEnd(app[t].tp)'
                         /\ RecordAt(app[t].tp, app[t].off, app[t].id)'
  BY DEF AppInv
<1>1. PICK tp \in TPs : tp = app[t].tp
  BY DEF TypeOK, AppShape
<1>2. PICK r \in LogRecords : Longer(tp, r)
  BY <1>1
<1>3. app[t].id <= minted'
  <2>1. app[t].id \in Nat /\ minted \in Nat /\ minted' \in Nat
    BY DEF TypeOK, AppType
  <2>2. app[t].id <= minted
    BY DEF AppInv
  <2> QED
    BY <2>1, <2>2
<1>4. app[t].pc \in {"landed", "committed"} =>
        app[t].off < LogEnd(tp)' /\ RecordAt(tp, app[t].off, app[t].id)'
  <2> SUFFICES ASSUME app[t].pc \in {"landed", "committed"}
               PROVE  app[t].off < LogEnd(tp)' /\ RecordAt(tp, app[t].off, app[t].id)'
    OBVIOUS
  <2>1. app[t].off \in Nat
    BY DEF TypeOK, AppShape
  <2>2. app[t].off < LogEnd(tp) /\ RecordAt(tp, app[t].off, app[t].id)
    BY <1>1 DEF AppInv
  <2>3. LogEnd(tp) \in Nat /\ LogEnd(tp)' \in Nat /\ LogEnd(tp) <= LogEnd(tp)'
    BY <1>2, LongerLog
  <2>4. app[t].off \in LogOffsets(tp)
    BY <2>1, <2>2, <2>3 DEF LogOffsets
  <2>5. log'[tp][app[t].off + 1] = log[tp][app[t].off + 1]
    BY <1>2, <2>4, LongerLog
  <2> QED
    BY <2>1, <2>2, <2>3, <2>5 DEF RecordAt
<1> QED
  BY <1>1, <1>3, <1>4 DEF AppInv

(* A record no append can mistake for its own has an id not yet minted. *)
LEMMA FreshId ==
  ASSUME TypeOK, LogInv, NEW tp \in TPs
  PROVE  OnlyOn(tp, minted + 1)
<1> SUFFICES ASSUME NEW q \in TPs, NEW o \in LogOffsets(q), RecordAt(q, o, minted + 1)
             PROVE  FALSE
  BY DEF OnlyOn
<1>1. log[q][o + 1].kind = "record" /\ log[q][o + 1].id = minted + 1
  BY DEF RecordAt, LogRecord
<1>2. log[q][o + 1].id <= minted
  BY <1>1 DEF LogInv
<1> QED
  BY <1>1, <1>2 DEF TypeOK

-----------------------------------------------------------------------------
(* The rest of the world. *)

(* While retention trims and others write, what is at work here goes on:    *)
(* the partitions this host holds get foreign records only.                *)
LEMMA WorldKeepsRest ==
  ASSUME IInv, TypeOK', WorldKeeps, minted <= minted',
         \A tp \in claimed : Grows(tp),
         \A t \in Tasks : app[t].pc # "idle" => OnlyOn(app[t].tp, app[t].id)'
  PROVE  ReadyComplete' /\ AppInv' /\ ClaimInv' /\ HookInv'
<1> USE DEF IInv
<1>1. /\ app' = app /\ cb' = cb /\ entry' = entry /\ rows' = rows /\ ckpt' = ckpt
      /\ claimed' = claimed /\ dirty' = dirty
  BY DEF WorldKeeps, tableVars, hostVars
<1>2. \A tp : Settled(tp)' <=> Settled(tp)
  BY <1>1 DEF Settled
<1>3. claimed \subseteq TPs
  BY DEF TypeOK
<1>4. ReadyComplete'
  <2> SUFFICES ASSUME NEW tp \in TPs, Settled(tp), entry[tp].status = "READY"
               PROVE  CaughtUp(tp)'
    BY <1>1, <1>2 DEF ReadyComplete
  <2>1. CaughtUp(tp) /\ Grows(tp)
    BY DEF ReadyComplete, Settled
  <2> QED
    BY <1>1, <2>1, GrowsKept
<1>5. AppInv'
  <2> SUFFICES ASSUME NEW t \in Tasks, app[t].pc # "idle"
               PROVE  /\ Settled(app[t].tp)'
                      /\ entry'[app[t].tp].status = "READY"
                      /\ \E r \in LogRecords : Longer(app[t].tp, r)
                      /\ OnlyOn(app[t].tp, app[t].id)'
    BY <1>1, AppKept
  <2>1. Settled(app[t].tp) /\ entry[app[t].tp].status = "READY"
    BY DEF AppInv
  <2>2. \E r \in LogRecords : Longer(app[t].tp, r)
    BY <2>1 DEF Settled, Grows
  <2>3. Settled(app[t].tp)'
    BY <1>1, <2>1 DEF Settled
  <2> QED
    BY <1>1, <2>1, <2>2, <2>3
<1>6. ClaimInv'
  BY <1>1 DEF ClaimInv
<1>7. HookInv'
  <2>1. cb.pc \in AssignPcs /\ cb.tp \in TPs /\ cb.pc # "ensure" => cb.tp \in claimed
    BY WorkingTp DEF ClaimInv, AssignPcs, ReplayPcs
  <2>2. CASE cb.pc = "ensure"
    BY <1>1, <2>2 DEF HookInv, ReplayPcs
  <2>3. CASE cb.pc # "ensure"
    BY <1>1, <2>1, <2>3, HookKept
  <2> QED
    BY <2>2, <2>3
<1> QED
  BY <1>4, <1>5, <1>6, <1>7

(* Foreign records, another owner's appends to partitions not held here,    *)
(* and retention: the steps of the world a careful host may meet.          *)
LEMMA WorldStep ==
  ASSUME IInv, TypeOK', Careful, World
  PROVE  IInv'
<1> USE DEF IInv
<1>1. \A t \in Tasks : app[t].pc # "idle" =>
        app[t].tp \in TPs /\ app[t].id <= minted /\ OnlyOn(app[t].tp, app[t].id)
  BY DEF AppInv, TypeOK, AppShape
<1>2. ASSUME NEW p \in TPs, ForeignWrites(p)
      PROVE  IInv'
  <2> DEFINE r == LogRecord("foreign", 0)
  <2>1. r \in LogRecords /\ r.kind = "foreign"
    BY DEF LogRecord, LogRecords, Kinds
  <2>2. log' = [log EXCEPT ![p] = Append(@, r)] /\ UNCHANGED <<logStart, minted>> /\ WorldKeeps
    BY <1>2 DEF ForeignWrites
  <2> HIDE DEF r
  <2>3. UNCHANGED <<rows, ckpt>> /\ minted <= minted'
    BY <2>2 DEF WorldKeeps, tableVars, TypeOK
  <2>4. LogInv' /\ RowsFromChangelog' /\ CheckpointHonest'
    BY <2>1, <2>2, <2>3, TablesAfterAppend
  <2>5. \A tp \in claimed : Grows(tp)
    <3> TAKE tp \in claimed
    <3>1. log'[tp] \in {log[tp], Append(log[tp], r)}
      BY <2>2 DEF TypeOK
    <3>2. logStart[tp] <= logStart'[tp] /\ rows \subseteq rows'
      BY <2>2, <2>3 DEF TypeOK
    <3> QED
      BY <2>1, <3>1, <3>2 DEF Grows, Longer
  <2>6. \A id : r # LogRecord("record", id)
    BY <2>1 DEF LogRecord
  <2>7. \A t \in Tasks : app[t].pc # "idle" => OnlyOn(app[t].tp, app[t].id)'
    <3> TAKE t \in Tasks
    <3> HAVE app[t].pc # "idle"
    <3>1. PICK tp \in TPs, id \in {app[t].id} : tp = app[t].tp /\ OnlyOn(tp, id)
      BY <1>1
    <3>2. OnlyOn(tp, id)'
      BY <2>1, <2>2, <2>6, <3>1, OnlyOnKept
    <3>3. app' = app
      BY <2>2 DEF WorldKeeps
    <3> QED
      BY <3>1, <3>2, <3>3
  <2> QED
    BY <2>2, <2>3, <2>4, <2>5, <2>7, WorldKeepsRest
<1>3. ASSUME NEW p \in TPs, NEW kind \in {"record", "unknown"}, OtherOwnerWrites(p, kind)
      PROVE  IInv'
  <2> DEFINE r == LogRecord(kind, minted + 1)
  <2>1. r \in LogRecords /\ r.id = minted + 1
    BY DEF LogRecord, LogRecords, Kinds, TypeOK
  <2>2. /\ log' = [log EXCEPT ![p] = Append(@, r)] /\ UNCHANGED logStart /\ WorldKeeps
        /\ minted' = minted + 1
    BY <1>3 DEF OtherOwnerWrites
  <2> HIDE DEF r
  <2>3. UNCHANGED <<rows, ckpt>> /\ minted <= minted'
    BY <2>2 DEF WorldKeeps, tableVars, TypeOK
  <2>4. OnlyOn(p, r.id)
    BY <2>1, FreshId
  <2>5. LogInv' /\ RowsFromChangelog' /\ CheckpointHonest'
    <3>1. r.id <= minted'
      BY <2>1, <2>2 DEF TypeOK
    <3> QED
      BY <2>1, <2>2, <2>3, <2>4, <3>1, TablesAfterAppend
  <2>6. p \notin claimed
    BY <1>3 DEF OtherOwnerWrites, Careful, AllRules, Rule
  <2>7. \A tp \in claimed : Grows(tp)
    <3> TAKE tp \in claimed
    <3>1. log'[tp] = log[tp] /\ logStart'[tp] = logStart[tp] /\ logStart[tp] \in Nat
      BY <2>2, <2>6 DEF TypeOK
    <3>2. LogRecord("foreign", 0) \in LogRecords /\ LogRecord("foreign", 0).kind = "foreign"
      BY DEF LogRecord, LogRecords, Kinds
    <3> QED
      BY <2>3, <3>1, <3>2 DEF Grows, Longer
  <2>8. \A t \in Tasks : app[t].pc # "idle" => OnlyOn(app[t].tp, app[t].id)'
    <3> TAKE t \in Tasks
    <3> HAVE app[t].pc # "idle"
    <3>1. PICK tp \in TPs, id \in {app[t].id} : tp = app[t].tp /\ OnlyOn(tp, id)
      BY <1>1
    <3>2. r # LogRecord("record", id)
      <4>1. id \in Nat /\ id <= minted /\ minted \in Nat
        BY <1>1, <3>1 DEF TypeOK, AppType
      <4> QED
        BY <2>1, <4>1 DEF LogRecord
    <3>3. OnlyOn(tp, id)'
      BY <2>1, <2>2, <3>1, <3>2, OnlyOnKept
    <3>4. app' = app
      BY <2>2 DEF WorldKeeps
    <3> QED
      BY <3>1, <3>3, <3>4
  <2> QED
    BY <2>2, <2>3, <2>5, <2>7, <2>8, WorldKeepsRest
<1>4. ASSUME NEW p \in TPs, Trim(p)
      PROVE  IInv'
  <2>1. PICK start \in (logStart[p] + 1)..LogEnd(p) : logStart' = [logStart EXCEPT ![p] = start]
    BY <1>4 DEF Trim
  <2>2. UNCHANGED <<log, minted, rows, ckpt>> /\ WorldKeeps /\ minted <= minted'
    BY <1>4 DEF Trim, WorldKeeps, tableVars, TypeOK
  <2>3. \A tp \in TPs : logStart[tp] <= logStart'[tp] /\ logStart'[tp] <= LogEnd(tp)
    BY <2>1 DEF TypeOK, LogInv, LogEnd
  <2>4. LogRecord("foreign", 0) \in LogRecords /\ LogRecord("foreign", 0).kind = "foreign"
    BY DEF LogRecord, LogRecords, Kinds
  <2>5. \A tp \in TPs : Longer(tp, LogRecord("foreign", 0)) /\ Grows(tp)
    BY <2>2, <2>3, <2>4 DEF Grows, Longer
  <2>6. LogInv'
    BY <2>2, <2>3 DEF LogInv, LogOffsets, LogEnd
  <2>7. RowsFromChangelog'
    BY <2>2 DEF RowsFromChangelog, LogEnd
  <2>8. CheckpointHonest'
    <3> SUFFICES ASSUME NEW tp \in TPs, NEW o \in LogOffsets(tp), o <= ckpt[tp]
                 PROVE  Applied(tp, o)'
      BY <2>2 DEF CheckpointHonest, LogOffsets, LogEnd
    <3>1. Applied(tp, o)
      BY DEF CheckpointHonest
    <3> QED
      BY <2>4, <2>5, <3>1, AppliedKept
  <2>9. \A t \in Tasks : app[t].pc # "idle" => OnlyOn(app[t].tp, app[t].id)'
    BY <1>1, <2>2 DEF WorldKeeps, OnlyOn, LogOffsets, LogEnd, RecordAt
  <2> QED
    BY <2>2, <2>5, <2>6, <2>7, <2>8, <2>9, WorldKeepsRest DEF TypeOK
<1>5. \A p \in TPs : ~Regress(p)
  BY DEF Regress, Careful
<1> QED
  BY <1>2, <1>3, <1>4, <1>5 DEF World

-----------------------------------------------------------------------------
(* What a hook leaves alone. *)

(* A step of a hook: the changelogs stand still, SQLite loses no row, only  *)
(* entries of the hook's own partitions change, an assigning hook keeps     *)
(* assigning and a revoking one revoking, and a partition is done with at   *)
(* its reveal or by its revocation.                                        *)
HookFrame ==
  /\ log' = log /\ logStart' = logStart /\ rows \subseteq rows'
  /\ \A tp \in TPs \ cb.todo : entry'[tp] = entry[tp]
  /\ cb'.todo \subseteq cb.todo
  /\ cb'.pc \in AssignPcs => cb.pc \in AssignPcs
  /\ cb'.pc \in RevokePcs => cb.pc \in RevokePcs
  /\ \A tp \in cb.todo \ cb'.todo :
       \/ cb.pc = "reveal" /\ tp = cb.tp /\ entry' = entry
       \/ cb.pc \in RevokePcs

(* The steps that end in the loop condition, a reveal or the next await of  *)
(* the same partition stay within the frame.                               *)
LEMMA FrameOfReplay ==
  ASSUME TypeOK, cb.pc \in AssignPcs, cb.tp \in cb.todo, NEW e,
         log' = log, logStart' = logStart, rows \subseteq rows',
         entry' = entry \/ SetEntry(e),
         cb'.todo = cb.todo, cb'.pc \in AssignPcs
  PROVE  HookFrame
<1>1. \A tp \in TPs \ cb.todo : entry'[tp] = entry[tp]
  BY DEF TypeOK, SetEntry
<1>2. cb'.pc \notin RevokePcs
  BY DEF AssignPcs, ReplayPcs, RevokePcs
<1> QED
  BY <1>1, <1>2 DEF HookFrame

(* Where the loop condition, mark_ready and _force_stop lead. *)
LEMMA LoopHeadGoes ==
  ASSUME NEW c \in CbType, NEW e, LoopHead(c, e) \/ Finish(c, e) \/ ForceStop(c, e)
  PROVE  /\ cb'.todo = c.todo /\ cb'.tp = c.tp
         /\ cb'.pc \in {"poll", "clampRead", "reveal"} /\ cb'.pc \in AssignPcs
         /\ \E f : SetEntry(f)
<1>1. \E s \in {"poll", "clampRead", "reveal"} : cb' = [c EXCEPT !.pc = s]
  BY DEF LoopHead, Finish, ForceStop
<1>2. \E f : SetEntry(f)
  BY DEF LoopHead, Finish, ForceStop
<1> QED
  BY <1>1, <1>2 DEF CbType, AssignPcs, ReplayPcs

(* Every step of a hook stays within the frame. *)
LEMMA HookStepFrame ==
  ASSUME TypeOK, HookStep
  PROVE  HookFrame
<1> USE DEF brokerVars, tableVars
<1>0. cb \in CbType
  BY DEF TypeOK
<1>1. ASSUME NEW tp \in TPs, EnterPartition(tp) \/ PassOver(tp)
      PROVE  HookFrame
  BY <1>1 DEF EnterPartition, PassOver, Begin, IdleCb, HookFrame, AssignPcs, ReplayPcs, RevokePcs
<1>2. CASE ReadCheckpoint \/ LateLogEnd
  <2>1. cb.tp \in cb.todo /\ cb.pc \in AssignPcs
    BY <1>2, WorkingTp DEF ReadCheckpoint, LateLogEnd, AssignPcs, ReplayPcs
  <2>2. /\ cb'.todo = cb.todo /\ cb'.pc \in AssignPcs
        /\ log' = log /\ logStart' = logStart /\ rows \subseteq rows' /\ \E e : SetEntry(e)
    BY <1>0, <1>2 DEF ReadCheckpoint, LateLogEnd, CbType, AssignPcs, ReplayPcs
  <2> QED
    BY <2>1, <2>2, FrameOfReplay
<1>3. CASE CaptureLogEnd \/ SeekToBeginning \/ ResetToBeginning \/ WriteBack
           \/ LateReadCheckpoint \/ ClampWriteBack
  <2>1. cb.tp \in cb.todo /\ cb.pc \in AssignPcs
    BY <1>3, WorkingTp DEF CaptureLogEnd, SeekToBeginning, ResetToBeginning, WriteBack,
                           LateReadCheckpoint, ClampWriteBack, AssignPcs, ReplayPcs
  <2>2. log' = log /\ logStart' = logStart /\ rows \subseteq rows'
    BY <1>3 DEF CaptureLogEnd, SeekToBeginning, ResetToBeginning, WriteBack,
                LateReadCheckpoint, ClampWriteBack
  <2>3. \/ \E e : SetEntry(e) /\ cb' = [cb EXCEPT !.leo = LogEnd(cb.tp), !.pc = "seek"]
        \/ \E c, e : /\ c.todo = cb.todo /\ c \in CbType
                     /\ LoopHead(c, e) \/ Finish(c, e) \/ ForceStop(c, e)
    <3>1. CASE CaptureLogEnd
      <4> DEFINE e == Marked(RecordLogEnd(entry[cb.tp], LogEnd(cb.tp)), "RESTORING")
                 d == [cb EXCEPT !.leo = LogEnd(cb.tp), !.position = cb.stored + 1,
                                 !.fetch = cb.stored + 1]
      <4>1. CASE cb.stored = NoOffset
        BY <3>1, <4>1, <1>0 DEF CaptureLogEnd, CbType
      <4>2. CASE cb.stored # NoOffset
        <5>1. LoopHead(d, e)
          BY <3>1, <4>2, <1>0 DEF CaptureLogEnd, CbType
        <5>2. LogEnd(cb.tp) \in Offsets /\ cb.stored + 1 \in Nat
          BY <1>0, <2>1, <4>2, LogEndNat, NatIsOffset, SMTT(60) DEF TypeOK, CbType, Offsets, NoOffset
        <5>3. d \in CbType /\ d.todo = cb.todo
          BY <1>0, <5>2 DEF CbType
        <5> QED
          BY <5>1, <5>3
      <4> QED
        BY <4>1, <4>2
    <3>2. CASE SeekToBeginning
      <4> DEFINE c == [cb EXCEPT !.position = 0, !.fetch = logStart[cb.tp]]
      <4>1. c \in CbType /\ c.todo = cb.todo
        BY <1>0, <2>1 DEF TypeOK, CbType
      <4>2. LoopHead(c, entry[cb.tp])
        BY <3>2 DEF SeekToBeginning
      <4> QED
        BY <4>1, <4>2
    <3>3. CASE ResetToBeginning
      <4> DEFINE c == [cb EXCEPT !.fetch = logStart[cb.tp], !.position = cb.log_start,
                                 !.reset = TRUE, !.replayed = FALSE]
      <4>1. c \in CbType /\ c.todo = cb.todo
        BY <1>0, <2>1 DEF TypeOK, CbType
      <4>2. LoopHead(c, entry[cb.tp]) \/ ForceStop(c, entry[cb.tp])
        BY <3>3 DEF ResetToBeginning
      <4> QED
        BY <4>1, <4>2
    <3>4. CASE WriteBack
      <4> DEFINE e == RecordApplied(entry[cb.tp], BatchMax(cb))
                 c == [cb EXCEPT !.position = BatchMax(cb) + 1, !.replayed = TRUE,
                                 !.lo = 0, !.batch = <<>>]
      <4>1. BatchMax(cb) + 1 \in Nat /\ <<>> \in Seq(LogRecords)
        BY <3>4, BatchMaxNat DEF WriteBack
      <4>2. c \in CbType /\ c.todo = cb.todo
        BY <1>0, <4>1 DEF CbType
      <4>3. LoopHead(c, e) \/ ForceStop(c, e)
        BY <3>4 DEF WriteBack
      <4> QED
        BY <4>2, <4>3
    <3>5. CASE LateReadCheckpoint \/ ClampWriteBack
      BY <1>0, <3>5 DEF LateReadCheckpoint, ClampWriteBack
    <3> QED
      BY <1>3, <3>1, <3>2, <3>3, <3>4, <3>5
  <2>4. cb'.todo = cb.todo /\ cb'.pc \in AssignPcs /\ \E f : SetEntry(f)
    <3>1. ASSUME NEW e, SetEntry(e), cb' = [cb EXCEPT !.leo = LogEnd(cb.tp), !.pc = "seek"]
          PROVE  cb'.todo = cb.todo /\ cb'.pc \in AssignPcs
      BY <1>0, <3>1 DEF CbType, AssignPcs, ReplayPcs
    <3> QED
      BY <2>3, <3>1, LoopHeadGoes
  <2> QED
    BY <2>1, <2>2, <2>4, FrameOfReplay
<1>4. CASE (\E n \in 1..BatchSize : PollBatch(n)) \/ PollOutOfRange \/ ReadLogStart
           \/ CommitBatch \/ ClampCommit
  <2>1. cb.tp \in cb.todo /\ cb.pc \in AssignPcs
    BY <1>4, WorkingTp DEF PollBatch, PollOutOfRange, ReadLogStart, CommitBatch, ClampCommit,
                           AssignPcs, ReplayPcs
  <2>2. /\ cb'.todo = cb.todo /\ cb'.pc \in AssignPcs /\ entry' = entry
        /\ log' = log /\ logStart' = logStart
    BY <1>0, <1>4 DEF PollBatch, PollOutOfRange, ReadLogStart, CommitBatch, ClampCommit,
                      CbType, AssignPcs, ReplayPcs
  <2>3. rows \subseteq rows'
    BY <1>4 DEF PollBatch, PollOutOfRange, ReadLogStart, CommitBatch, ClampCommit, InsertBatch
  <2> QED
    BY <2>1, <2>2, <2>3, FrameOfReplay
<1>5. CASE PollEmpty
  <2>1. cb.tp \in cb.todo /\ cb.pc \in AssignPcs
    BY <1>5, WorkingTp DEF PollEmpty, AssignPcs, ReplayPcs
  <2>2. log' = log /\ logStart' = logStart /\ rows \subseteq rows'
    BY <1>5 DEF PollEmpty
  <2>3. CASE ForceStop(cb, entry[cb.tp])
    BY <1>0, <2>1, <2>2, <2>3, LoopHeadGoes, FrameOfReplay
  <2>4. CASE UNCHANGED <<cb, entry>>
    BY <2>1, <2>2, <2>4, FrameOfReplay
  <2> QED
    BY <1>5, <2>3, <2>4 DEF PollEmpty
<1>6. CASE ClampRead
  <2>1. cb.tp \in cb.todo /\ cb.pc \in AssignPcs
    BY <1>6, WorkingTp DEF ClampRead, AssignPcs, ReplayPcs
  <2>2. log' = log /\ logStart' = logStart /\ rows \subseteq rows'
    BY <1>6 DEF ClampRead
  <2>3. CASE Finish(cb, entry[cb.tp])
    BY <1>0, <2>1, <2>2, <2>3, LoopHeadGoes, FrameOfReplay
  <2>4. CASE /\ entry' = entry
             /\ cb' = [cb EXCEPT !.pc = "clampCommit", !.target = ClampTarget(cb, ckpt[cb.tp])]
    <3>1. cb'.todo = cb.todo /\ cb'.pc \in AssignPcs
      BY <1>0, <2>4 DEF CbType, AssignPcs, ReplayPcs
    <3> QED
      BY <2>1, <2>2, <2>4, <3>1, FrameOfReplay
  <2> QED
    BY <1>6, <2>3, <2>4 DEF ClampRead
<1>7. CASE Reveal
  <2>1. cb.tp \in cb.todo /\ cb.pc = "reveal"
    BY <1>7, WorkingTp DEF Reveal
  <2>2. cb'.todo = cb.todo \ {cb.tp} /\ cb'.pc \in {"idle", "ensure"}
    BY <1>0, <1>7, <2>1, DoneShape DEF Reveal
  <2> QED
    BY <1>7, <2>1, <2>2 DEF Reveal, HookFrame, AssignPcs, ReplayPcs, RevokePcs
<1>8. ASSUME NEW tp \in TPs, SkipRevoke(tp)
      PROVE  HookFrame
  <2>1. [cb EXCEPT !.tp = tp] \in CbType /\ tp \in cb.todo
    BY <1>0, <1>8 DEF CbType, SkipRevoke
  <2>2. [cb EXCEPT !.tp = tp].tp = tp /\ [cb EXCEPT !.tp = tp].todo = cb.todo
    BY <1>0 DEF CbType
  <2>3. cb'.todo = cb.todo \ {tp} /\ cb'.pc \in {"idle", "revoke"}
    BY <1>8, <2>1, <2>2, DoneShape DEF SkipRevoke
  <2> QED
    BY <1>8, <2>3 DEF SkipRevoke, HookFrame, AssignPcs, ReplayPcs, RevokePcs
<1>9. ASSUME NEW tp \in TPs, RevokeCommit(tp)
      PROVE  HookFrame
  BY <1>0, <1>9 DEF RevokeCommit, HookFrame, CbType, AssignPcs, ReplayPcs, RevokePcs
<1>10. CASE RevokeMark
  <2>1. cb.tp \in cb.todo /\ cb.pc = "revokeMark"
    BY <1>10, WorkingTp DEF RevokeMark
  <2>2. cb'.todo = cb.todo \ {cb.tp} /\ cb'.pc \in {"idle", "revoke"}
    BY <1>0, <1>10, <2>1, DoneShape DEF RevokeMark
  <2> QED
    BY <1>10, <2>1, <2>2 DEF RevokeMark, SetEntry, TypeOK, HookFrame, AssignPcs, ReplayPcs, RevokePcs
<1> QED
  BY <1>1, <1>2, <1>3, <1>4, <1>5, <1>6, <1>7, <1>8, <1>9, <1>10 DEF HookStep, Replay

-----------------------------------------------------------------------------
(* What each step of a hook establishes. *)

(* At these points nothing is owed to the partition in hand. *)
LEMMA HookRests ==
  ASSUME cb'.pc \in {"idle", "ensure", "checkpoint", "lateEnd", "lateRead", "revoke", "revokeMark"}
  PROVE  HookInv'
  BY DEF HookInv, ReplayPcs

(* A forced stop owes nothing either: the partition is READY_PARTIAL. *)
LEMMA ForceStopInv ==
  ASSUME TypeOK, cb.tp \in TPs, NEW c \in CbType, c.tp = cb.tp, NEW e \in Entries, ForceStop(c, e)
  PROVE  HookInv'
<1>1. cb'.pc = "reveal" /\ cb'.tp = cb.tp
  BY DEF ForceStop, CbType
<1>2. entry'[cb.tp].status = "READY_PARTIAL"
  BY DEF ForceStop, SetEntry, Marked, TypeOK, Entries
<1> QED
  BY <1>1, <1>2 DEF HookInv, ReplayPcs

(* At the loop condition, a replay that has applied all below its position, *)
(* with everything from the captured log end on applied too, has the whole  *)
(* changelog once the two meet.                                            *)
LEMMA LoopHeadInv ==
  ASSUME TypeOK, cb.tp \in TPs, NEW c \in CbType, c.tp = cb.tp, NEW e,
         log' = log, logStart' = logStart, rows' = rows,
         c.leo \in Nat, c.leo <= LogEnd(cb.tp), MaterializedFrom(cb.tp, c.leo),
         Materialized(cb.tp, c.position), Materialized(cb.tp, c.fetch),
         LoopHead(c, e)
  PROVE  HookInv'
<1> PICK tp \in TPs : tp = cb.tp
  OBVIOUS
<1>1. \A n : (MaterializedFrom(tp, n) => MaterializedFrom(tp, n)')
             /\ (Materialized(tp, n) => Materialized(tp, n)')
  BY DEF Materialized, MaterializedFrom, LogOffsets, LogEnd, Applied
<1>2. LogEnd(tp)' = LogEnd(tp)
  BY DEF LogEnd
<1>3. CASE cb' = [c EXCEPT !.pc = "poll"]
  <2>1. cb'.pc = "poll" /\ cb'.tp = tp /\ cb'.leo = c.leo /\ cb'.fetch = c.fetch
    BY <1>3 DEF CbType
  <2>2. MaterializedFrom(tp, c.leo)' /\ Materialized(tp, c.fetch)' /\ c.leo <= LogEnd(tp)'
    BY <1>1, <1>2
  <2> QED
    BY <2>1, <2>2 DEF HookInv
<1>4. CASE c.position = c.leo /\ cb' \in {[c EXCEPT !.pc = "clampRead"], [c EXCEPT !.pc = "reveal"]}
  <2>1. cb'.pc \in {"clampRead", "reveal"} /\ cb'.tp = tp /\ cb'.leo = c.leo
    BY <1>4 DEF CbType
  <2>2. MaterializedFrom(tp, 0)
    BY <1>4 DEF Materialized, MaterializedFrom, LogOffsets
  <2>3. MaterializedFrom(tp, c.leo)' /\ MaterializedFrom(tp, 0)' /\ c.leo <= LogEnd(tp)'
    BY <2>2, <1>1, <1>2
  <2> QED
    BY <2>1, <2>3 DEF HookInv
<1> QED
  BY <1>3, <1>4 DEF LoopHead, Finish

(* The seek past a stored checkpoint is right because the checkpoint is     *)
(* honest (_read_checkpoint: position = checkpoint + 1).                    *)
LEMMA ReadCheckpointInv ==
  ASSUME TypeOK, CheckpointHonest, ReadCheckpoint
  PROVE  HookInv'
<1>1. PICK tp \in TPs : tp = cb.tp
  BY WorkingTp DEF ReadCheckpoint
<1>2. /\ cb'.pc = "logEnd" /\ cb'.tp = tp /\ cb'.stored = ckpt[tp]
      /\ log' = log /\ logStart' = logStart /\ rows' = rows
  BY <1>1 DEF ReadCheckpoint, TypeOK, CbType, brokerVars, tableVars
<1>3. Materialized(tp, ckpt[tp] + 1)
  BY DEF Materialized, CheckpointHonest, TypeOK, Offsets, LogOffsets
<1>4. \A n : Materialized(tp, n) => Materialized(tp, n)'
  BY <1>2 DEF Materialized, LogOffsets, LogEnd, Applied
<1>5. Materialized(tp, ckpt[tp] + 1)'
  <2>1. PICK n : n = ckpt[tp] + 1
    OBVIOUS
  <2>2. Materialized(tp, n)'
    BY <1>3, <1>4, <2>1
  <2>3. ckpt'[tp] = ckpt[tp]
    BY DEF ReadCheckpoint, tableVars
  <2> QED
    BY <2>1, <2>2, <2>3
<1> QED
  BY <1>2, <1>5 DEF HookInv, ReplayPcs, ReadCheckpoint, tableVars

(* end_offsets: what lies from the captured log end on is nothing yet. *)
LEMMA CaptureLogEndInv ==
  ASSUME TypeOK, HookInv, CaptureLogEnd
  PROVE  HookInv'
<1> DEFINE e == Marked(RecordLogEnd(entry[cb.tp], LogEnd(cb.tp)), "RESTORING")
           d == [cb EXCEPT !.leo = LogEnd(cb.tp), !.position = cb.stored + 1,
                           !.fetch = cb.stored + 1]
<1>0. cb \in CbType
  BY DEF TypeOK
<1>1. cb.tp \in TPs
  BY WorkingTp DEF CaptureLogEnd
<1>2. log' = log /\ logStart' = logStart /\ rows' = rows
  BY DEF CaptureLogEnd, brokerVars, tableVars
<1>3. LogEnd(cb.tp) \in Nat /\ LogEnd(cb.tp) \in Offsets
  BY <1>1, LogEndNat, NatIsOffset
<1>4. MaterializedFrom(cb.tp, LogEnd(cb.tp))
  BY <1>3 DEF MaterializedFrom, LogOffsets
<1>5. CASE cb.stored = NoOffset
  <2>1. PICK tp \in TPs : tp = cb.tp
    BY <1>1
  <2>2. cb'.pc = "seek" /\ cb'.tp = tp /\ cb'.leo = LogEnd(tp)
    BY <1>0, <1>5, <2>1 DEF CaptureLogEnd, CbType
  <2>3. LogEnd(tp)' = LogEnd(tp)
    BY <1>2 DEF LogEnd
  <2>4. MaterializedFrom(tp, LogEnd(tp))'
    BY <1>2, <1>4, <2>1 DEF MaterializedFrom, LogOffsets, LogEnd, Applied
  <2> QED
    BY <1>3, <2>1, <2>2, <2>3, <2>4 DEF HookInv
<1>6. CASE cb.stored # NoOffset
  <2>1. LoopHead(d, e)
    BY <1>0, <1>6 DEF CaptureLogEnd, CbType
  <2>2. d \in CbType /\ d.tp = cb.tp /\ d.leo = LogEnd(cb.tp)
        /\ d.position = cb.stored + 1 /\ d.fetch = cb.stored + 1
    <3>1. cb.stored + 1 \in Nat
      BY <1>0, <1>6 DEF CbType, Offsets, NoOffset
    <3> QED
      BY <1>0, <1>3, <3>1 DEF CbType
  <2>3. Materialized(cb.tp, cb.stored + 1)
    BY DEF HookInv, CaptureLogEnd
  <2> HIDE DEF d, e
  <2> QED
    BY <1>1, <1>2, <1>3, <1>4, <2>1, <2>2, <2>3, LoopHeadInv
<1> QED
  BY <1>5, <1>6

(* seek_to_beginning: below the log start there is nothing left to apply. *)
LEMMA SeekInv ==
  ASSUME TypeOK, HookInv, SeekToBeginning \/ ResetToBeginning
  PROVE  HookInv'
<1>0. cb \in CbType
  BY DEF TypeOK
<1>1. cb.tp \in TPs /\ entry[cb.tp] \in Entries
  BY WorkingTp DEF SeekToBeginning, ResetToBeginning, TypeOK
<1>2. log' = log /\ logStart' = logStart /\ rows' = rows
  BY DEF SeekToBeginning, ResetToBeginning, brokerVars, tableVars
<1>3. cb.leo \in Nat /\ cb.leo <= LogEnd(cb.tp) /\ MaterializedFrom(cb.tp, cb.leo)
  BY DEF TypeOK, CbShape, HookInv, ReplayPcs, SeekToBeginning, ResetToBeginning
<1>4. logStart[cb.tp] \in Nat /\ \A n \in Nat : n <= logStart[cb.tp] => Materialized(cb.tp, n)
  BY <1>1 DEF TypeOK, Materialized, Applied, LogOffsets
<1>5. CASE SeekToBeginning
  <2> DEFINE c == [cb EXCEPT !.position = 0, !.fetch = logStart[cb.tp]]
  <2>1. c \in CbType /\ c.tp = cb.tp /\ c.leo = cb.leo /\ c.position = 0 /\ c.fetch = logStart[cb.tp]
    BY <1>0, <1>4 DEF CbType
  <2>2. LoopHead(c, entry[cb.tp])
    BY <1>5 DEF SeekToBeginning
  <2>3. Materialized(cb.tp, 0) /\ Materialized(cb.tp, logStart[cb.tp])
    BY <1>4
  <2> HIDE DEF c
  <2> QED
    BY <1>1, <1>2, <1>3, <2>1, <2>2, <2>3, LoopHeadInv
<1>6. CASE ResetToBeginning
  <2> DEFINE c == [cb EXCEPT !.fetch = logStart[cb.tp], !.position = cb.log_start,
                             !.reset = TRUE, !.replayed = FALSE]
  <2>1. c \in CbType /\ c.tp = cb.tp /\ c.leo = cb.leo /\ c.position = cb.log_start
        /\ c.fetch = logStart[cb.tp]
    BY <1>0, <1>4 DEF CbType
  <2>2. LoopHead(c, entry[cb.tp]) \/ ForceStop(c, entry[cb.tp])
    BY <1>6 DEF ResetToBeginning
  <2>3. cb.log_start \in Nat /\ cb.log_start <= logStart[cb.tp]
    BY <1>0, <1>6 DEF CbType, HookInv, ResetToBeginning
  <2>4. Materialized(cb.tp, cb.log_start) /\ Materialized(cb.tp, logStart[cb.tp])
    BY <1>4, <2>3
  <2> HIDE DEF c
  <2> QED
    BY <1>1, <1>2, <1>3, <2>1, <2>2, <2>4, LoopHeadInv, ForceStopInv
<1> QED
  BY <1>5, <1>6

(* With changelogs and rows as they were, a hook's knowledge stays true. *)
LEMMA SameKnowledge ==
  ASSUME NEW tp \in TPs, log' = log, logStart' = logStart, rows' = rows
  PROVE  /\ \A n : Materialized(tp, n) => Materialized(tp, n)'
         /\ \A n : MaterializedFrom(tp, n) => MaterializedFrom(tp, n)'
         /\ LogEnd(tp)' = LogEnd(tp)
  BY DEF Materialized, MaterializedFrom, LogOffsets, LogEnd, Applied

(* getmany: the batch is the records from the fetch position on. *)
LEMMA PollBatchInv ==
  ASSUME TypeOK, HookInv, NEW n \in 1..BatchSize, PollBatch(n)
  PROVE  HookInv'
<1>1. PICK tp \in TPs, f \in Nat, leo \in Nat : tp = cb.tp /\ f = cb.fetch /\ leo = cb.leo
  BY WorkingTp DEF PollBatch, TypeOK, CbType, CbShape, ReplayPcs
<1>2. log[tp] \in Seq(LogRecords) /\ n \in Nat \ {0} /\ f + n <= Len(log[tp])
  BY <1>1 DEF TypeOK, PollBatch, LogEnd
<1> DEFINE batch == SubSeq(log[tp], f + 1, f + n)
<1>3. Len(batch) = n /\ \A i \in 1..n : batch[i] = log[tp][f + i]
  BY <1>2
<1>4. cb' = [cb EXCEPT !.pc = "commit", !.lo = f, !.fetch = f + n, !.batch = batch]
  BY <1>1 DEF PollBatch
<1> HIDE DEF batch
<1>5. /\ cb'.pc = "commit" /\ cb'.tp = tp /\ cb'.lo = f /\ cb'.fetch = f + n
      /\ cb'.batch = batch /\ cb'.leo = leo
  BY <1>1, <1>4 DEF TypeOK, CbType
<1>6. log' = log /\ logStart' = logStart /\ rows' = rows
  BY DEF PollBatch, brokerVars, tableVars
<1>7. Materialized(tp, f) /\ MaterializedFrom(tp, leo) /\ leo <= LogEnd(tp)
  BY <1>1 DEF HookInv, ReplayPcs, PollBatch
<1>8. Materialized(tp, f)' /\ MaterializedFrom(tp, leo)' /\ LogEnd(tp)' = LogEnd(tp)
  BY <1>6, <1>7, SameKnowledge
<1>9. LogEnd(tp)' = Len(log[tp])
  BY <1>6 DEF LogEnd
<1> QED
  BY <1>2, <1>3, <1>5, <1>6, <1>7, <1>8, <1>9 DEF HookInv

(* An empty fetch, OffsetOutOfRangeError and beginning_offsets change no    *)
(* table, and a log start read now is not above a later one.               *)
LEMMA PollNothingInv ==
  ASSUME TypeOK, HookInv, PollEmpty \/ PollOutOfRange \/ ReadLogStart
  PROVE  HookInv'
<1>0. cb \in CbType
  BY DEF TypeOK
<1>1. PICK tp \in TPs, leo \in Nat : tp = cb.tp /\ leo = cb.leo
  BY WorkingTp DEF PollEmpty, PollOutOfRange, ReadLogStart, TypeOK, CbType, CbShape, ReplayPcs
<1>2. log' = log /\ logStart' = logStart /\ rows' = rows
  BY DEF PollEmpty, PollOutOfRange, ReadLogStart, brokerVars, tableVars
<1>3. MaterializedFrom(tp, leo)' /\ leo <= LogEnd(tp)'
  <2>1. MaterializedFrom(tp, leo) /\ leo <= LogEnd(tp)
    BY <1>1 DEF HookInv, ReplayPcs, PollEmpty, PollOutOfRange, ReadLogStart
  <2> QED
    BY <1>2, <2>1, SameKnowledge
<1>4. CASE PollEmpty /\ cb.expired
  BY <1>0, <1>1, <1>4, ForceStopInv DEF PollEmpty, TypeOK
<1>5. CASE PollEmpty /\ ~cb.expired
  <2>1. cb' = cb /\ cb.pc = "poll"
    BY <1>5 DEF PollEmpty
  <2>2. PICK f : f = cb.fetch
    OBVIOUS
  <2>3. Materialized(tp, f)
    BY <1>1, <2>1, <2>2 DEF HookInv
  <2>4. Materialized(tp, f)'
    BY <1>2, <2>3, SameKnowledge
  <2> QED
    BY <1>1, <1>3, <2>1, <2>2, <2>4 DEF HookInv
<1>6. CASE PollOutOfRange
  <2>1. cb'.pc = "resetStart" /\ cb'.tp = tp /\ cb'.leo = leo
    BY <1>0, <1>1, <1>6 DEF PollOutOfRange, CbType
  <2> QED
    BY <1>3, <2>1 DEF HookInv
<1>7. CASE ReadLogStart
  <2>1. cb'.pc = "resetSeek" /\ cb'.tp = tp /\ cb'.leo = leo /\ cb'.log_start = logStart[tp]
    BY <1>0, <1>1, <1>7 DEF ReadLogStart, CbType
  <2>2. logStart[tp] \in Nat
    BY DEF TypeOK
  <2> QED
    BY <1>2, <1>3, <2>1, <2>2 DEF HookInv
<1> QED
  BY <1>4, <1>5, <1>6, <1>7

-----------------------------------------------------------------------------
(* The transaction of a replayed batch. *)

(* A set of naturals has a least element. *)
LEMMA LeastNatural ==
  ASSUME NEW S \in SUBSET Nat, S # {}
  PROVE  \E m \in S : \A n \in S : m <= n
<1> DEFINE R == OpToRel(<, Nat)
<1>1. \A m, n \in Nat : m < n => <<m, n>> \in R
  BY DEF OpToRel
<1>2. IsWellFoundedOn(R, Nat)
  BY NatLessThanWellFounded, Zenon
<1> HIDE DEF R
<1>3. PICK m \in S : \A n \in S : <<n, m>> \notin R
  BY <1>2, WFMin
<1>4. \A n \in S : ~(n < m)
  BY <1>1, <1>3
<1>5. \A n \in S : n \in Nat /\ m \in Nat
  OBVIOUS
<1>6. \A n \in S : m <= n
  BY <1>4, <1>5
<1> QED
  BY <1>6

(* A stored message has its row on the partition whose changelog it is in. *)
LEMMA StoredThere ==
  ASSUME TypeOK, RowsFromChangelog, NEW tp \in TPs, NEW id, OnlyOn(tp, id),
         id \in StoredIds(rows)
  PROVE  \E row \in rows : row.tp = tp /\ row.id = id
<1>1. PICK row \in rows : row.id = id
  BY DEF StoredIds
<1>2. PICK q \in TPs, off \in Nat : q = row.tp /\ off = row.off
  BY DEF TypeOK
<1>3. off < LogEnd(q) /\ RecordAt(q, off, id)
  BY <1>1, <1>2 DEF RowsFromChangelog, RecordAt
<1>4. off \in LogOffsets(q)
  BY <1>2, <1>3, LogEndNat DEF LogOffsets
<1>5. q = tp
  BY <1>2, <1>3, <1>4 DEF OnlyOn
<1> QED
  BY <1>1, <1>2, <1>5

(* The records of the batch, as they lie in the changelog. *)
LEMMA BatchRecords ==
  ASSUME TypeOK, HookInv, CommitBatch, NEW i \in 1..Len(cb.batch)
  PROVE  /\ cb.batch[i] = log[cb.tp][cb.lo + i] /\ cb.batch[i] \in LogRecords
         /\ cb.batch[i].kind # "unknown"
         /\ cb.lo + i - 1 \in LogOffsets(cb.tp)
         /\ cb.tp \in TPs /\ i \in Nat /\ cb.lo \in Nat
<1>1. cb.tp \in TPs /\ cb.batch \in Seq(LogRecords) /\ cb.lo \in Nat
  BY WorkingTp DEF CommitBatch, TypeOK, CbType
<1>2. i \in DOMAIN cb.batch /\ Len(cb.batch) \in Nat
  BY <1>1
<1>3. cb.batch[i] \in LogRecords /\ cb.batch[i].kind # "unknown"
  BY <1>1, <1>2 DEF CommitBatch, Unreadable
<1>4. cb.batch[i] = log[cb.tp][cb.lo + i]
  BY DEF HookInv, CommitBatch
<1>5. cb.lo + Len(cb.batch) <= LogEnd(cb.tp) /\ LogEnd(cb.tp) \in Nat
  BY <1>1, LogEndNat DEF HookInv, CommitBatch
<1>6. cb.lo + i - 1 \in LogOffsets(cb.tp)
  BY <1>1, <1>2, <1>5 DEF LogOffsets
<1> QED
  BY <1>1, <1>3, <1>4, <1>6

(* After the loop of INSERTs every KSQLite record of the batch has its row: *)
(* by this INSERT, by an earlier one of the batch with the same message id, *)
(* or from before, and then it is a row of this partition.                  *)
LEMMA BatchStored ==
  ASSUME TypeOK, LogInv, RowsFromChangelog, HookInv, CommitBatch, NEW i \in 1..Len(cb.batch),
         cb.batch[i].kind = "record"
  PROVE  \E row \in rows' : row.tp = cb.tp /\ row.id = cb.batch[i].id
<1>1. PICK tp \in TPs, lo \in Nat, rec \in LogRecords :
        tp = cb.tp /\ lo = cb.lo /\ rec = cb.batch[i] /\ i \in Nat
  BY BatchRecords
<1>2. rec = log[tp][lo + i] /\ lo + i - 1 \in LogOffsets(tp) /\ (lo + i - 1) + 1 = lo + i
  BY <1>1, BatchRecords
<1>3. rec = LogRecord("record", rec.id)
  BY <1>1 DEF LogRecord, LogRecords
<1>4. CASE rec.id \in StoredIds(rows)
  <2>1. OnlyOn(tp, rec.id)
    BY <1>1, <1>2, <1>3 DEF OnlyOn, RecordAt, LogInv
  <2>2. rows \subseteq rows'
    BY DEF CommitBatch, InsertBatch
  <2> QED
    BY <1>1, <1>4, <2>1, <2>2, StoredThere
<1>5. CASE rec.id \notin StoredIds(rows)
  <2> DEFINE S == {j \in 1..i : cb.batch[j].kind = "record" /\ cb.batch[j].id = rec.id}
  <2>1. i \in S /\ S \in SUBSET Nat
    BY <1>1
  <2>2. PICK m \in S : \A n \in S : m <= n
    <3> HIDE DEF S
    <3> QED
      BY <2>1, LeastNatural
  <2>3. m \in 1..i /\ m \in 1..Len(cb.batch) /\ m \in Nat
        /\ cb.batch[m].kind = "record" /\ cb.batch[m].id = rec.id
    BY <1>1, <2>2 DEF TypeOK, CbType
  <2>4. \A j \in 1..(m - 1) : cb.batch[j].kind = "record" => cb.batch[j].id # rec.id
    <3>1. \A j \in 1..(m - 1) : j \in 1..i /\ ~(m <= j)
      BY <1>1, <2>3
    <3> QED
      BY <2>2, <3>1
  <2>5. m \in DOMAIN cb.batch
    BY <2>3 DEF TypeOK, CbType
  <2>6. m \in NewRecords(rows, cb.batch)
    BY <1>5, <2>3, <2>4, <2>5 DEF NewRecords
  <2>7. Row(tp, rec.id, lo + m - 1) \in rows'
    BY <1>1, <2>3, <2>6 DEF CommitBatch, InsertBatch
  <2> QED
    BY <1>1, <2>7 DEF Row
<1> QED
  BY <1>4, <1>5

(* So nothing of the batch is left to materialize.                          *)
LEMMA BatchApplied ==
  ASSUME TypeOK, LogInv, RowsFromChangelog, HookInv, CommitBatch, NEW i \in 1..Len(cb.batch)
  PROVE  Applied(cb.tp, cb.lo + i - 1)'
<1>1. PICK tp \in TPs, lo \in Nat, rec \in LogRecords :
        tp = cb.tp /\ lo = cb.lo /\ rec = cb.batch[i] /\ i \in Nat
  BY BatchRecords
<1>2. rec = log[tp][lo + i] /\ rec.kind # "unknown" /\ lo + i - 1 \in LogOffsets(tp)
      /\ (lo + i - 1) + 1 = lo + i
  BY <1>1, BatchRecords
<1>3. cb'.tp = tp /\ cb'.lo = lo /\ log' = log
  BY <1>1 DEF CommitBatch, TypeOK, CbType, brokerVars
<1>4. CASE rec.kind = "foreign"
  BY <1>2, <1>3, <1>4 DEF Applied
<1>5. CASE rec.kind = "record"
  <2>1. \E row \in rows' : row.tp = tp /\ row.id = rec.id
    BY <1>1, <1>5, BatchStored
  <2> QED
    BY <1>2, <1>3, <2>1 DEF Applied
<1> QED
  BY <1>2, <1>4, <1>5 DEF LogRecords, Kinds

(* In memory the transaction is a batch below the log end, in the tables    *)
(* its rows and a checkpoint at its last record: _materialize_batch writes  *)
(* both in one transaction, so the checkpoint stays honest.                 *)
LEMMA CommitBatchTables ==
  ASSUME IInv, TypeOK', CommitBatch, minted' = minted
  PROVE  /\ LogInv' /\ RowsFromChangelog' /\ CheckpointHonest' /\ HookInv'
         /\ \A tp \in TPs : Grows(tp)
<1> USE DEF IInv
<1>1. PICK tp \in TPs, lo \in Nat, n \in Nat, leo \in Nat :
        /\ tp = cb.tp /\ lo = cb.lo /\ n = Len(cb.batch) /\ leo = cb.leo
        /\ n # 0 /\ LogEnd(tp) \in Nat
  <2>1. cb.tp \in TPs /\ cb.lo \in Nat /\ cb.leo \in Nat
    BY WorkingTp DEF CommitBatch, TypeOK, CbType, CbShape, ReplayPcs
  <2>2. cb.batch \in Seq(LogRecords) /\ cb.batch # <<>>
    BY DEF CommitBatch, TypeOK, CbType, CbShape
  <2>3. Len(cb.batch) \in Nat /\ Len(cb.batch) # 0
    BY <2>2
  <2> QED
    BY <2>1, <2>3, LogEndNat
<1>2. /\ log' = log /\ logStart' = logStart
      /\ rows \subseteq rows'
      /\ ckpt' = [ckpt EXCEPT ![tp] = UpsertCheckpoint(@, lo + n - 1)]
  BY <1>1 DEF CommitBatch, BatchMax, InsertBatch, brokerVars
<1>3. /\ cb'.pc = "writeBack" /\ cb'.tp = tp /\ cb'.lo = lo /\ cb'.batch = cb.batch
      /\ cb'.fetch = cb.fetch /\ cb'.leo = leo /\ cb.fetch = lo + n /\ lo + n <= LogEnd(tp)
  BY <1>1 DEF CommitBatch, TypeOK, CbType, HookInv
<1>4. \A q \in TPs : Grows(q)
  <2>1. LogRecord("foreign", 0) \in LogRecords /\ LogRecord("foreign", 0).kind = "foreign"
    BY DEF LogRecord, LogRecords, Kinds
  <2> QED
    <3> TAKE q \in TPs
    <3>1. log'[q] = log[q] /\ logStart[q] <= logStart'[q]
      BY <1>2 DEF TypeOK
    <3> QED
      BY <1>2, <2>1, <3>1 DEF Grows, Longer
<1>5. Materialized(tp, lo + n)'
  <2> SUFFICES ASSUME NEW o \in LogOffsets(tp), o < lo + n
               PROVE  Applied(tp, o)'
    BY <1>2, <1>3 DEF Materialized, LogOffsets, LogEnd
  <2>1. CASE o < lo
    <3>1. Applied(tp, o)
      BY <1>1, <2>1 DEF HookInv, CommitBatch, Materialized
    <3> QED
      BY <1>2, <3>1 DEF Applied
  <2>2. CASE ~(o < lo)
    <3>1. o - lo + 1 \in 1..n /\ o = lo + (o - lo + 1) - 1
      BY <1>1, <2>2 DEF LogOffsets
    <3>2. PICK i \in 1..n : o = lo + i - 1
      BY <3>1
    <3>3. Applied(cb.tp, cb.lo + i - 1)'
      BY <1>1, <3>2, BatchApplied
    <3> QED
      BY <1>1, <1>3, <3>2, <3>3
  <2> QED
    BY <2>1, <2>2
<1>6. LogInv'
  <2>1. ckpt[tp] < LogEnd(tp) /\ ckpt[tp] \in Int /\ lo + n - 1 < LogEnd(tp)
    <3>1. ckpt[tp] < LogEnd(tp)
      BY DEF LogInv
    <3>2. ckpt[tp] \in Int
      BY DEF TypeOK, Offsets
    <3>3. lo + n <= LogEnd(tp) /\ LogEnd(tp) \in Nat
      BY <1>3, LogEndNat
    <3> HIDE DEF IInv, LogEnd
    <3>4. lo + n - 1 < LogEnd(tp)
      BY <3>3, SMTT(30)
    <3> QED
      BY <3>1, <3>2, <3>4
  <2>2. \A q \in TPs : ckpt'[q] < LogEnd(q)
    BY <1>2, <2>1 DEF LogInv, TypeOK, UpsertCheckpoint
  <2> QED
    BY <1>2, <2>2 DEF LogInv, LogOffsets, LogEnd
<1>7. RowsFromChangelog'
  <2> SUFFICES ASSUME NEW row \in rows'
               PROVE  row.off < LogEnd(row.tp) /\ log[row.tp][row.off + 1] = LogRecord("record", row.id)
    BY <1>2 DEF RowsFromChangelog, LogEnd
  <2>1. CASE row \in rows
    BY <2>1 DEF RowsFromChangelog
  <2>2. CASE row \notin rows
    <3>1. PICK i \in NewRecords(rows, cb.batch) : row = Row(tp, cb.batch[i].id, lo + i - 1)
      BY <1>1, <2>2 DEF CommitBatch, InsertBatch
    <3>2. i \in 1..n /\ cb.batch[i].kind = "record"
      <4>1. cb.batch \in Seq(LogRecords) /\ i \in DOMAIN cb.batch /\ cb.batch[i].kind = "record"
        BY <3>1 DEF NewRecords, TypeOK, CbType
      <4>2. DOMAIN cb.batch = 1..Len(cb.batch)
        BY <4>1
      <4> QED
        BY <1>1, <4>1, <4>2
    <3>3. cb.batch[i] = log[tp][lo + i] /\ cb.batch[i] \in LogRecords /\ lo + i - 1 \in LogOffsets(tp)
      BY <1>1, <3>2, BatchRecords
    <3>4. cb.batch[i] = LogRecord("record", cb.batch[i].id)
      BY <3>2, <3>3 DEF LogRecord, LogRecords
    <3>5. (lo + i - 1) + 1 = lo + i /\ lo + i - 1 < LogEnd(tp)
      BY <1>1, <3>2, <3>3 DEF LogOffsets
    <3> QED
      BY <3>1, <3>3, <3>4, <3>5 DEF Row
  <2> QED
    BY <2>1, <2>2
<1>8. CheckpointHonest'
  <2> SUFFICES ASSUME NEW q \in TPs, NEW o \in LogOffsets(q), o <= ckpt'[q]
               PROVE  Applied(q, o)'
    BY <1>2 DEF CheckpointHonest, LogOffsets, LogEnd
  <2>1. CASE o <= ckpt[q]
    <3>1. Applied(q, o)
      BY <2>1 DEF CheckpointHonest
    <3> QED
      BY <1>2, <3>1 DEF Applied
  <2>2. CASE ~(o <= ckpt[q])
    <3>1. q = tp /\ o <= lo + n - 1
      BY <1>2, <2>2 DEF TypeOK, UpsertCheckpoint
    <3>2. o < lo + n /\ o \in LogOffsets(tp)'
      BY <1>1, <1>2, <3>1 DEF LogOffsets, LogEnd
    <3> QED
      BY <1>5, <3>1, <3>2 DEF Materialized
  <2> QED
    BY <2>1, <2>2
<1>9. HookInv'
  <2>1. MaterializedFrom(tp, leo)' /\ leo <= LogEnd(tp)'
    <3>1. MaterializedFrom(tp, leo) /\ leo <= LogEnd(tp)
      BY <1>1 DEF HookInv, ReplayPcs, CommitBatch
    <3> QED
      BY <1>1, <1>4, <3>1, GrowsKept
  <2>2. \A i \in 1..n : cb.batch[i] = log'[tp][lo + i]
    BY <1>1, <1>2 DEF HookInv, CommitBatch
  <2>3. LogEnd(tp)' = LogEnd(tp)
    BY <1>2 DEF LogEnd
  <2>4. PICK f, b : f = cb.fetch /\ b = cb.batch /\ f = lo + n
    BY <1>3
  <2>5. Materialized(tp, f)'
    BY <1>5, <2>4
  <2>6. cb'.fetch = f /\ cb'.batch = b /\ n = Len(b) /\ \A i \in 1..n : b[i] = log'[tp][lo + i]
    BY <1>1, <1>3, <2>2, <2>4
  <2> QED
    BY <1>1, <1>3, <2>1, <2>3, <2>4, <2>5, <2>6 DEF HookInv
<1> QED
  BY <1>4, <1>6, <1>7, <1>8, <1>9

(* record_applied and position = batch_max + 1: the batch just committed is *)
(* where the replay stands.                                                *)
LEMMA WriteBackInv ==
  ASSUME TypeOK, HookInv, WriteBack
  PROVE  HookInv'
<1> DEFINE e == RecordApplied(entry[cb.tp], BatchMax(cb))
           c == [cb EXCEPT !.position = BatchMax(cb) + 1, !.replayed = TRUE,
                           !.lo = 0, !.batch = <<>>]
<1>0. cb \in CbType
  BY DEF TypeOK
<1>1. cb.tp \in TPs /\ BatchMax(cb) \in Nat
  BY WorkingTp, BatchMaxNat DEF WriteBack
<1>2. e \in Entries
  BY <1>1, EntryRecorded, NatIsOffset DEF TypeOK
<1>3. cb.leo \in Nat /\ cb.leo <= LogEnd(cb.tp) /\ MaterializedFrom(cb.tp, cb.leo)
  BY DEF TypeOK, CbShape, HookInv, ReplayPcs, WriteBack
<1>4. Materialized(cb.tp, cb.fetch) /\ cb.fetch = BatchMax(cb) + 1
  <2>1. cb.lo \in Nat /\ Len(cb.batch) \in Nat
    BY <1>0 DEF CbType
  <2> QED
    BY <2>1 DEF HookInv, WriteBack, BatchMax
<1>5. c \in CbType /\ c.tp = cb.tp /\ c.leo = cb.leo
      /\ c.position = BatchMax(cb) + 1 /\ c.fetch = cb.fetch
  <2>1. BatchMax(cb) + 1 \in Nat /\ <<>> \in Seq(LogRecords)
    BY <1>1
  <2> QED
    BY <1>0, <2>1 DEF CbType
<1>6. LoopHead(c, e) \/ ForceStop(c, e)
  BY DEF WriteBack
<1>7. log' = log /\ logStart' = logStart /\ rows' = rows
  BY DEF WriteBack, brokerVars, tableVars
<1> HIDE DEF c, e
<1> QED
  BY <1>1, <1>2, <1>3, <1>4, <1>5, <1>6, <1>7, LoopHeadInv, ForceStopInv

(* _apply_post_reset_clamps runs with the whole changelog applied, and      *)
(* moves the checkpoint below the log end only.                            *)
LEMMA ClampInv ==
  ASSUME IInv, ClampRead \/ ClampCommit \/ ClampWriteBack
  PROVE  HookInv'
<1> USE DEF IInv
<1>0. cb \in CbType
  BY DEF TypeOK
<1>1. PICK tp \in TPs, leo \in Nat : tp = cb.tp /\ leo = cb.leo
  BY WorkingTp DEF ClampRead, ClampCommit, ClampWriteBack, TypeOK, CbType, CbShape, ReplayPcs
<1>2. log' = log /\ logStart' = logStart /\ rows' = rows
  BY DEF ClampRead, ClampCommit, ClampWriteBack, brokerVars, tableVars
<1>3. MaterializedFrom(tp, leo) /\ leo <= LogEnd(tp) /\ MaterializedFrom(tp, 0)
  BY <1>1 DEF HookInv, ReplayPcs, ClampRead, ClampCommit, ClampWriteBack
<1>4. MaterializedFrom(tp, leo)' /\ leo <= LogEnd(tp)' /\ MaterializedFrom(tp, 0)'
  BY <1>2, <1>3, SameKnowledge
<1>5. /\ cb'.tp = tp /\ cb'.leo = leo /\ cb'.pc \in {"reveal", "clampCommit", "clampBack"}
      /\ cb'.pc = "clampCommit" => cb'.target = ClampTarget(cb, ckpt[tp]) /\ cb'.target # NoOffset
  BY <1>0, <1>1 DEF ClampRead, ClampCommit, ClampWriteBack, Finish, CbType
<1>6. cb'.pc = "clampCommit" => cb'.target < LogEnd(tp)'
  <2>1. LogEnd(tp) \in Nat /\ LogEnd(tp)' = LogEnd(tp)
    BY <1>2, LogEndNat DEF LogEnd
  <2>2. cb.log_start \in Nat /\ ckpt[tp] \in Int /\ cb.leo \in Nat
    BY <1>0, <1>1 DEF TypeOK, CbType, Offsets
  <2> QED
    BY <1>1, <1>3, <1>5, <2>1, <2>2 DEF ClampTarget, NoOffset
<1> QED
  BY <1>4, <1>5, <1>6 DEF HookInv, ReplayPcs

-----------------------------------------------------------------------------
(* A hook's steps and the rest of the replica. *)

(* A hook disturbs neither the partitions it does not work on nor their     *)
(* appends, and hands over as READY only what is complete.                 *)
LEMMA HookKeepsRest ==
  ASSUME IInv, TypeOK', log' = log, logStart' = logStart, rows \subseteq rows',
         app' = app, minted' = minted,
         \A tp \in TPs \ cb.todo : entry'[tp] = entry[tp],
         cb'.todo \subseteq cb.todo,
         claimed' \subseteq claimed, claimed \ cb.todo \subseteq claimed',
         dirty' \subseteq dirty, \A tp \in TPs \ cb.todo : tp \in dirty => tp \in dirty',
         \A tp \in cb.todo \ cb'.todo :
           tp \in claimed' /\ entry'[tp].status = "READY" => MaterializedFrom(tp, 0)
  PROVE  ReadyComplete' /\ AppInv'
<1> USE DEF IInv
<1>1. \A tp \in TPs : Grows(tp) /\ Longer(tp, LogRecord("foreign", 0))
  <2>1. LogRecord("foreign", 0) \in LogRecords /\ LogRecord("foreign", 0).kind = "foreign"
    BY DEF LogRecord, LogRecords, Kinds
  <2> TAKE tp \in TPs
  <2>2. log'[tp] = log[tp] /\ logStart[tp] <= logStart'[tp]
    BY DEF TypeOK
  <2> QED
    BY <2>1, <2>2 DEF Grows, Longer
<1>2. ReadyComplete'
  <2> SUFFICES ASSUME NEW tp \in TPs, Settled(tp)', entry'[tp].status = "READY"
               PROVE  CaughtUp(tp)'
    BY DEF ReadyComplete
  <2>1. CASE tp \notin cb.todo
    <3>1. Settled(tp) /\ entry[tp].status = "READY"
      BY <2>1 DEF Settled
    <3>2. CaughtUp(tp)
      BY <3>1 DEF ReadyComplete
    <3> QED
      BY <1>1, <3>2, GrowsKept
  <2>2. CASE tp \in cb.todo
    <3>1. MaterializedFrom(tp, 0)
      BY <2>2 DEF Settled
    <3>2. MaterializedFrom(tp, 0)'
      BY <1>1, <3>1, GrowsKept
    <3> QED
      BY <3>2 DEF MaterializedFrom, CaughtUp, LogOffsets
  <2> QED
    BY <2>1, <2>2
<1>3. AppInv'
  <2> SUFFICES ASSUME NEW t \in Tasks, app[t].pc # "idle"
               PROVE  /\ Settled(app[t].tp)'
                      /\ entry'[app[t].tp].status = "READY"
                      /\ \E r \in LogRecords : Longer(app[t].tp, r)
                      /\ OnlyOn(app[t].tp, app[t].id)'
    <3>1. minted <= minted'
      BY DEF TypeOK
    <3> QED
      BY <3>1, AppKept
  <2>1. PICK tp \in TPs : tp = app[t].tp
    BY DEF TypeOK, AppShape
  <2>2. Settled(tp) /\ entry[tp].status = "READY" /\ OnlyOn(tp, app[t].id)
    BY <2>1 DEF AppInv
  <2>3. Settled(tp)' /\ entry'[tp].status = "READY"
    BY <2>2 DEF Settled
  <2>4. OnlyOn(tp, app[t].id)'
    BY <2>2 DEF OnlyOn, RecordAt, LogOffsets, LogEnd
  <2>5. \E r \in LogRecords : Longer(tp, r)
    BY <1>1 DEF Grows
  <2> QED
    BY <2>1, <2>3, <2>4, <2>5
<1> QED
  BY <1>2, <1>3

(* Steps that touch neither changelog nor table keep what holds of them. *)
LEMMA SameTables ==
  ASSUME LogInv, RowsFromChangelog, CheckpointHonest,
         UNCHANGED <<log, logStart, rows, ckpt, minted>>
  PROVE  LogInv' /\ RowsFromChangelog' /\ CheckpointHonest'
<1>1. LogInv'
  BY DEF LogInv, LogOffsets, LogEnd
<1>2. RowsFromChangelog'
  BY DEF RowsFromChangelog, LogEnd
<1>3. CheckpointHonest'
  BY DEF CheckpointHonest, LogOffsets, LogEnd, Applied
<1> QED
  BY <1>1, <1>2, <1>3

(* The clamp's transaction: whatever it writes, the whole changelog is      *)
(* applied and the checkpoint stays below its end.                         *)
LEMMA ClampCommitTables ==
  ASSUME IInv, ClampCommit, minted' = minted
  PROVE  LogInv' /\ RowsFromChangelog' /\ CheckpointHonest'
<1> USE DEF IInv
<1>1. PICK tp \in TPs : tp = cb.tp
  BY WorkingTp DEF ClampCommit
<1>2. /\ log' = log /\ logStart' = logStart /\ rows' = rows
      /\ ckpt' = [ckpt EXCEPT ![tp] = cb.target]
  BY <1>1 DEF ClampCommit, brokerVars
<1>3. cb.target < LogEnd(tp) /\ MaterializedFrom(tp, 0)
  BY <1>1 DEF HookInv, ClampCommit
<1>4. LogInv'
  <2>1. \A q \in TPs : ckpt'[q] < LogEnd(q)
    BY <1>2, <1>3 DEF LogInv, TypeOK
  <2> QED
    BY <1>2, <2>1 DEF LogInv, LogOffsets, LogEnd
<1>5. RowsFromChangelog'
  BY <1>2 DEF RowsFromChangelog, LogEnd
<1>6. CheckpointHonest'
  <2> SUFFICES ASSUME NEW q \in TPs, NEW o \in LogOffsets(q), o <= ckpt'[q]
               PROVE  Applied(q, o)
    BY <1>2 DEF CheckpointHonest, LogOffsets, LogEnd, Applied
  <2>1. CASE q = tp
    BY <1>3, <2>1 DEF MaterializedFrom, LogOffsets
  <2>2. CASE q # tp
    BY <1>2, <2>2 DEF CheckpointHonest, TypeOK
  <2> QED
    BY <2>1, <2>2
<1> QED
  BY <1>4, <1>5, <1>6

(* What a step of a hook establishes, whichever it is. *)
LEMMA HookStepInv ==
  ASSUME IInv, TypeOK', HookStep, minted' = minted
  PROVE  LogInv' /\ RowsFromChangelog' /\ CheckpointHonest' /\ HookInv'
<1> USE DEF IInv
<1> USE DEF brokerVars, tableVars
<1>1. ASSUME NEW tp \in TPs, EnterPartition(tp) \/ PassOver(tp)
      PROVE  HookInv' /\ UNCHANGED <<log, logStart, rows, ckpt>>
  <2>1. cb'.pc \in {"checkpoint", "lateEnd"}
    BY <1>1 DEF EnterPartition, PassOver, Begin, IdleCb
  <2> QED
    BY <1>1, <2>1, HookRests DEF EnterPartition, PassOver
<1>2. CASE ReadCheckpoint
  BY <1>2, ReadCheckpointInv, SameTables DEF ReadCheckpoint
<1>3. CASE CaptureLogEnd
  BY <1>3, CaptureLogEndInv, SameTables DEF CaptureLogEnd
<1>4. CASE SeekToBeginning \/ ResetToBeginning
  BY <1>4, SeekInv, SameTables DEF SeekToBeginning, ResetToBeginning
<1>5. ASSUME NEW n \in 1..BatchSize, PollBatch(n)
      PROVE  HookInv' /\ UNCHANGED <<log, logStart, rows, ckpt>>
  BY <1>5, PollBatchInv DEF PollBatch
<1>6. CASE PollEmpty \/ PollOutOfRange \/ ReadLogStart
  BY <1>6, PollNothingInv, SameTables DEF PollEmpty, PollOutOfRange, ReadLogStart
<1>7. CASE CommitBatch
  BY <1>7, CommitBatchTables
<1>8. CASE WriteBack
  BY <1>8, WriteBackInv, SameTables DEF WriteBack
<1>9. CASE ClampRead \/ ClampWriteBack
  BY <1>9, ClampInv, SameTables DEF ClampRead, ClampWriteBack
<1>10. CASE ClampCommit
  BY <1>10, ClampInv, ClampCommitTables
<1>11. CASE Reveal
  <2>1. cb'.pc \in {"idle", "ensure"}
    BY <1>11, WorkingTp, DoneShape DEF Reveal, TypeOK
  <2> QED
    BY <1>11, <2>1, HookRests, SameTables DEF Reveal
<1>12. CASE LateLogEnd
  <2>1. cb'.pc = "lateRead"
    BY <1>12 DEF LateLogEnd, TypeOK, CbType
  <2> QED
    BY <1>12, <2>1, HookRests, SameTables DEF LateLogEnd
<1>13. CASE LateReadCheckpoint
  <2>1. cb.tp \in TPs /\ entry[cb.tp] \in Entries /\ ckpt[cb.tp] \in Offsets
    BY <1>13, WorkingTp DEF LateReadCheckpoint, TypeOK
  <2>2. SeedEntry(entry[cb.tp], ckpt[cb.tp]) \in Entries
    BY <2>1, EntryRecorded
  <2> QED
    BY <1>13, <2>1, <2>2, ForceStopInv, SameTables DEF LateReadCheckpoint, TypeOK
<1>14. ASSUME NEW tp \in TPs, SkipRevoke(tp) \/ RevokeCommit(tp)
       PROVE  HookInv' /\ UNCHANGED <<log, logStart, rows, ckpt>>
  <2>1. CASE SkipRevoke(tp)
    <3>1. [cb EXCEPT !.tp = tp] \in CbType
          /\ [cb EXCEPT !.tp = tp].tp \in [cb EXCEPT !.tp = tp].todo
      BY <2>1 DEF TypeOK, CbType, SkipRevoke
    <3>2. cb'.pc \in {"idle", "revoke"}
      BY <2>1, <3>1, DoneShape DEF SkipRevoke
    <3> QED
      BY <2>1, <3>2, HookRests DEF SkipRevoke
  <2>2. CASE RevokeCommit(tp)
    <3>1. cb'.pc = "revokeMark"
      BY <2>2 DEF RevokeCommit, TypeOK, CbType
    <3> QED
      BY <2>2, <3>1, HookRests DEF RevokeCommit
  <2> QED
    BY <1>14, <2>1, <2>2
<1>15. CASE RevokeMark
  <2>1. cb'.pc \in {"idle", "revoke"}
    BY <1>15, WorkingTp, DoneShape DEF RevokeMark, TypeOK
  <2> QED
    BY <1>15, <2>1, HookRests, SameTables DEF RevokeMark
<1> QED
  BY <1>1, <1>2, <1>3, <1>4, <1>5, <1>6, <1>7, <1>8, <1>9, <1>10, <1>11, <1>12, <1>13,
     <1>14, <1>15, SameTables DEF HookStep, Replay

(* A hook runs on: the partition it reveals as READY is complete, and clean *)
(* of failed appends from then on.                                         *)
LEMMA HookRunsStep ==
  ASSUME IInv, TypeOK', HookRuns
  PROVE  IInv'
<1> USE DEF IInv
<1>1. HookStep /\ HookFrame /\ app' = app /\ minted' = minted /\ claimed' = claimed
  BY HookStepFrame DEF HookRuns, appVars
<1>2. LogInv' /\ RowsFromChangelog' /\ CheckpointHonest' /\ HookInv'
  BY <1>1, HookStepInv
<1>3. ClaimInv'
  BY <1>1 DEF HookFrame, ClaimInv
<1>4. ReadyComplete' /\ AppInv'
  <2>1. dirty' \subseteq dirty
    BY DEF HookRuns
  <2>2. \A tp \in TPs \ cb.todo : tp \in dirty => tp \in dirty'
    <3>1. cb.pc = "reveal" => cb.tp \in cb.todo
      BY WorkingTp
    <3> QED
      BY <3>1 DEF HookRuns
  <2>3. \A tp \in cb.todo \ cb'.todo :
          tp \in claimed' /\ entry'[tp].status = "READY" => MaterializedFrom(tp, 0)
    <3> TAKE tp \in cb.todo \ cb'.todo
    <3>1. CASE cb.pc = "reveal" /\ tp = cb.tp /\ entry' = entry
      BY <3>1 DEF HookInv
    <3>2. CASE cb.pc \in RevokePcs
      BY <1>1, <3>2 DEF ClaimInv
    <3> QED
      BY <1>1, <3>1, <3>2 DEF HookFrame
  <2> QED
    BY <1>1, <2>1, <2>2, <2>3, HookKeepsRest DEF HookFrame
<1> QED
  BY <1>2, <1>3, <1>4

-----------------------------------------------------------------------------
(* The host's calls of hooks, the clock, and failures. *)

(* on_partitions_assigned and on_partitions_revoked take their partitions   *)
(* out of rest, once no append is under way on them.                       *)
LEMMA HookCallStep ==
  ASSUME IInv, TypeOK', Careful, NEW S \in SUBSET TPs, HostAssigns(S) \/ HostRevokes(S)
  PROVE  IInv'
<1> USE DEF IInv
<1>1. /\ UNCHANGED <<log, logStart, rows, ckpt, owned, entry, app, minted, dirty>>
      /\ cb.pc = "idle" /\ cb.todo = {}
  BY DEF HostAssigns, HostRevokes, StartAssign, StartRevoke, brokerVars, tableVars, appVars,
         TypeOK, CbShape
<1>2. /\ cb'.todo = S
      /\ \/ cb'.pc = "ensure" /\ claimed' = claimed \cup S
         \/ cb'.pc = "revoke" /\ claimed' = claimed \ S
  BY DEF HostAssigns, HostRevokes, StartAssign, StartRevoke, IdleCb
<1>3. \A tp \in S : \A t \in Tasks : app[t].tp # tp
  BY DEF HostAssigns, HostRevokes, Careful, AllRules, Rule, Quiet, AppendsOn
<1>4. \A tp \in TPs \ S : Settled(tp)' <=> Settled(tp)
  BY <1>1, <1>2 DEF Settled
<1>5. LogInv' /\ RowsFromChangelog' /\ CheckpointHonest'
  BY <1>1, SameTables
<1>6. ReadyComplete'
  <2>1. \A tp \in S : ~Settled(tp)'
    BY <1>2 DEF Settled
  <2>2. \A tp \in TPs : CaughtUp(tp) => CaughtUp(tp)'
    BY <1>1 DEF CaughtUp, LogOffsets, LogEnd, Applied, AppendsOn
  <2> QED
    BY <1>1, <1>4, <2>1, <2>2 DEF ReadyComplete
<1>7. AppInv'
  <2> SUFFICES ASSUME NEW t \in Tasks, app[t].pc # "idle"
               PROVE  /\ Settled(app[t].tp)'
                      /\ entry'[app[t].tp].status = "READY"
                      /\ \E r \in LogRecords : Longer(app[t].tp, r)
                      /\ OnlyOn(app[t].tp, app[t].id)'
    <3>1. app' = app /\ minted <= minted'
      BY <1>1 DEF TypeOK
    <3> QED
      BY <3>1, AppKept
  <2>1. PICK tp \in TPs : tp = app[t].tp /\ tp \notin S
    BY <1>3 DEF TypeOK, AppShape
  <2>2. Settled(tp) /\ entry[tp].status = "READY" /\ OnlyOn(tp, app[t].id)
    BY <2>1 DEF AppInv
  <2>3. OnlyOn(tp, app[t].id)'
    BY <1>1, <2>2 DEF OnlyOn, RecordAt, LogOffsets, LogEnd
  <2>4. \E r \in LogRecords : Longer(tp, r)
    <3>1. LogRecord("foreign", 0) \in LogRecords
      BY DEF LogRecord, LogRecords, Kinds
    <3>2. Longer(tp, LogRecord("foreign", 0))
      BY <1>1 DEF Longer, TypeOK
    <3> QED
      BY <3>1, <3>2
  <2>5. Settled(tp)'
    BY <1>4, <2>1, <2>2
  <2> QED
    BY <1>1, <2>1, <2>2, <2>3, <2>4, <2>5
<1>8. ClaimInv' /\ HookInv'
  <2>1. ClaimInv'
    BY <1>2 DEF ClaimInv, AssignPcs, ReplayPcs, RevokePcs
  <2> QED
    BY <1>2, <2>1, HookRests
<1> QED
  BY <1>5, <1>6, <1>7, <1>8

(* A hook that raises leaves what it committed, and its unfinished          *)
(* partitions are no longer this host's.                                   *)
LEMMA HookFailsStep ==
  ASSUME IInv, TypeOK', HookFails
  PROVE  IInv'
<1> USE DEF IInv
<1>1. /\ UNCHANGED <<log, logStart, rows, ckpt, entry, app, minted, dirty>>
      /\ cb' = IdleCb /\ claimed' = claimed \ cb.todo
  BY DEF HookFails, AbortHook, brokerVars, tableVars, appVars
<1>2. cb'.pc = "idle" /\ cb'.todo = {}
  BY <1>1 DEF IdleCb
<1>3. LogInv' /\ RowsFromChangelog' /\ CheckpointHonest'
  BY <1>1, SameTables
<1>4. ReadyComplete' /\ AppInv'
  BY <1>1, <1>2, HookKeepsRest
<1>5. ClaimInv' /\ HookInv'
  BY <1>2, HookRests DEF ClaimInv, AssignPcs, ReplayPcs, RevokePcs
<1> QED
  BY <1>3, <1>4, <1>5

(* The deadline passing changes nothing but what the next steps may do. *)
LEMMA ClockTicksStep ==
  ASSUME IInv, TypeOK', ClockTicks
  PROVE  IInv'
<1> USE DEF IInv
<1>1. /\ UNCHANGED <<log, logStart, rows, ckpt, entry, app, minted, claimed, dirty>>
      /\ cb' = [cb EXCEPT !.expired = TRUE]
  BY DEF ClockTicks, ClockExpires, brokerVars, tableVars, appVars, hostVars
<1>2. /\ cb'.pc = cb.pc /\ cb'.todo = cb.todo /\ cb'.tp = cb.tp /\ cb'.stored = cb.stored
      /\ cb'.leo = cb.leo /\ cb'.fetch = cb.fetch /\ cb'.lo = cb.lo /\ cb'.batch = cb.batch
      /\ cb'.log_start = cb.log_start /\ cb'.target = cb.target
  BY <1>1 DEF TypeOK, CbType
<1>3. LogInv' /\ RowsFromChangelog' /\ CheckpointHonest'
  BY <1>1, SameTables
<1>4. ReadyComplete' /\ AppInv'
  BY <1>1, <1>2, HookKeepsRest
<1>5. ClaimInv'
  BY <1>1, <1>2 DEF ClaimInv
<1>6. HookInv'
  BY <1>1, <1>2 DEF HookInv, Materialized, MaterializedFrom, LogOffsets, LogEnd, Applied
<1> QED
  BY <1>3, <1>4, <1>5, <1>6

(* start() and the end of the process: the tables are what survives. *)
LEMMA ProcessStep ==
  ASSUME IInv, TypeOK', StartStore \/ Crash
  PROVE  IInv'
<1> USE DEF IInv
<1>1. UNCHANGED <<log, logStart, rows, ckpt, minted>>
  BY DEF StartStore, Crash, brokerVars, tableVars, appVars
<1>2. LogInv' /\ RowsFromChangelog' /\ CheckpointHonest'
  BY <1>1, SameTables
<1>3. CASE StartStore
  <2>1. UNCHANGED <<entry, app, cb, claimed, dirty>>
    BY <1>3 DEF StartStore, appVars
  <2>2. ReadyComplete' /\ AppInv'
    BY <1>1, <2>1, HookKeepsRest
  <2>3. ClaimInv'
    BY <2>1 DEF ClaimInv
  <2>4. HookInv'
    BY <1>1, <2>1 DEF HookInv, Materialized, MaterializedFrom, LogOffsets, LogEnd, Applied
  <2> QED
    BY <1>2, <2>2, <2>3, <2>4
<1>4. CASE Crash
  <2>1. app' = [t \in Tasks |-> IdleApp] /\ cb' = IdleCb /\ claimed' = {}
    BY <1>4 DEF Crash
  <2>2. ReadyComplete'
    BY <2>1 DEF ReadyComplete, Settled
  <2>3. AppInv'
    BY <2>1 DEF AppInv, IdleApp
  <2>4. cb'.pc = "idle"
    BY <2>1 DEF IdleCb
  <2>5. ClaimInv' /\ HookInv'
    BY <2>4, HookRests DEF ClaimInv, AssignPcs, ReplayPcs, RevokePcs
  <2> QED
    BY <1>2, <2>2, <2>3, <2>5
<1> QED
  BY <1>3, <1>4

-----------------------------------------------------------------------------
(* Appends. *)

(* A step of one append, on partition p at rest, leaves the other appends   *)
(* and every hook as they were.                                            *)
LEMMA AppendKeepsRest ==
  ASSUME IInv, TypeOK', NEW t \in Tasks, NEW p \in TPs, NEW r \in LogRecords,
         \A u \in Tasks \ {t} : app'[u] = app[u] /\ (app[u].pc # "idle" => app[u].tp # p),
         app[t].pc = "idle" \/ app[t].tp = p,
         Longer(p, r), \A q \in TPs \ {p} : log'[q] = log[q],
         logStart' = logStart, rows \subseteq rows', minted <= minted',
         cb' = cb, claimed' = claimed, p \notin cb.todo,
         \A q \in TPs \ {p} : entry'[q] = entry[q] /\ (q \in dirty' <=> q \in dirty),
         \A u \in Tasks \ {t} : app[u].pc # "idle" =>
           OnlyOn(app[u].tp, app[u].id)' /\ (app'[t].pc # "idle" => app[u].id # app'[t].id),
         app'[t].pc # "idle" =>
           /\ (Settled(p) /\ entry[p].status = "READY" /\ OnlyOn(p, app[t].id))'
           /\ app'[t].tp = p /\ app'[t].id <= minted'
           /\ app'[t].pc \in {"landed", "committed"} =>
                (app[t].off < LogEnd(p) /\ RecordAt(p, app[t].off, app[t].id))',
         Settled(p)' /\ entry'[p].status = "READY" => CaughtUp(p)'
  PROVE  ReadyComplete' /\ AppInv' /\ ClaimInv' /\ HookInv'
<1> USE DEF IInv
<1>1. \A q \in TPs \ {p} : Longer(q, r) /\ Grows(q)
  <2>1. LogRecord("foreign", 0) \in LogRecords /\ LogRecord("foreign", 0).kind = "foreign"
    BY DEF LogRecord, LogRecords, Kinds
  <2> TAKE q \in TPs \ {p}
  <2>2. log'[q] = log[q] /\ logStart[q] <= logStart'[q]
    BY DEF TypeOK
  <2> QED
    BY <2>1, <2>2 DEF Grows, Longer
<1>2. ReadyComplete'
  <2> SUFFICES ASSUME NEW q \in TPs \ {p}, Settled(q)', entry'[q].status = "READY"
               PROVE  CaughtUp(q)'
    BY DEF ReadyComplete
  <2>1. CaughtUp(q)
    BY DEF ReadyComplete, Settled
  <2>2. \A o \in LogOffsets(q) : Applied(q, o) => Applied(q, o)'
    BY <1>1, AppliedKept
  <2>3. \A u \in AppendsOn(q) : app[u].pc = "landed" => u \in AppendsOn(q)' /\ app'[u] = app[u]
    BY DEF AppendsOn
  <2>4. log'[q] = log[q] /\ LogOffsets(q)' = LogOffsets(q)
    BY DEF LogOffsets, LogEnd
  <2> QED
    BY <2>1, <2>2, <2>3, <2>4 DEF CaughtUp
<1>3. AppInv'
  <2>1. ASSUME NEW u \in Tasks \ {t}, app[u].pc # "idle"
        PROVE  /\ (Settled(app[u].tp) /\ entry[app[u].tp].status = "READY")'
               /\ app[u].id <= minted'
               /\ \A v \in Tasks \ {u} :
                    app'[v].pc # "idle" => app'[v].tp # app[u].tp /\ app'[v].id # app[u].id
               /\ OnlyOn(app[u].tp, app[u].id)'
               /\ app[u].pc \in {"landed", "committed"} =>
                    (app[u].off < LogEnd(app[u].tp) /\ RecordAt(app[u].tp, app[u].off, app[u].id))'
    <3>1. PICK q \in TPs : q = app[u].tp /\ q # p
      BY <2>1 DEF TypeOK, AppShape
    <3>2. app'[u] = app[u]
      OBVIOUS
    <3>3. Settled(q) /\ entry[q].status = "READY"
      BY <2>1, <3>1 DEF AppInv
    <3>4. Settled(q)' /\ entry'[q].status = "READY"
      BY <3>1, <3>3 DEF Settled
    <3>5. app[u].id <= minted'
      <4>1. app[u].id \in Nat /\ minted \in Nat /\ minted' \in Nat /\ app[u].id <= minted
        BY <2>1 DEF TypeOK, AppType, AppInv
      <4> QED
        BY <4>1
    <3>6. \A v \in Tasks \ {u} :
            app'[v].pc # "idle" => app'[v].tp # app[u].tp /\ app'[v].id # app[u].id
      <4>1. \A v \in Tasks \ {u, t} :
              app[v].pc # "idle" => app[v].tp # app[u].tp /\ app[v].id # app[u].id
        BY <2>1 DEF AppInv
      <4> QED
        BY <2>1, <3>1, <4>1
    <3>7. app[u].pc \in {"landed", "committed"} =>
            app[u].off < LogEnd(q)' /\ RecordAt(q, app[u].off, app[u].id)'
      <4>1. app[u].pc \in {"landed", "committed"} =>
              app[u].off < LogEnd(q) /\ RecordAt(q, app[u].off, app[u].id)
        BY <2>1, <3>1 DEF AppInv
      <4>2. log'[q] = log[q]
        BY <3>1
      <4> QED
        BY <3>2, <4>1, <4>2 DEF LogEnd, RecordAt
    <3> QED
      BY <2>1, <3>1, <3>2, <3>4, <3>5, <3>6, <3>7
  <2>2. \A u \in Tasks \ {t} : app'[u].pc # "idle" /\ app'[t].pc # "idle" =>
          app'[u].tp # app'[t].tp /\ app'[u].id # app'[t].id
    OBVIOUS
  <2> QED
    BY <2>1, <2>2 DEF AppInv
<1>4. ClaimInv'
  BY DEF ClaimInv
<1>5. HookInv'
  <2>1. CASE cb.pc \in {"idle", "ensure", "revoke"}
    BY <2>1, HookRests
  <2>2. CASE cb.pc \notin {"idle", "ensure", "revoke"}
    <3>1. cb.tp \in TPs /\ cb.tp # p
      BY <2>2, WorkingTp
    <3> QED
      BY <1>1, <3>1, HookKept
  <2> QED
    BY <2>1, <2>2
<1> QED
  BY <1>2, <1>3, <1>4, <1>5

(* What AppInv says of the append of task t, its partition named p. *)
LEMMA AppendAtWork ==
  ASSUME TypeOK, AppInv, ReadyComplete, NEW t \in Tasks, app[t].pc # "idle"
  PROVE  \E p \in TPs :
           /\ p = app[t].tp /\ Settled(p) /\ p \notin cb.todo /\ entry[p].status = "READY"
           /\ CaughtUp(p) /\ AppendsOn(p) = {t}
           /\ app[t].id \in Nat /\ app[t].id <= minted /\ OnlyOn(p, app[t].id)
           /\ app[t].pc \in {"landed", "committed"} =>
                /\ app[t].off \in Nat /\ app[t].off < LogEnd(p)
                /\ RecordAt(p, app[t].off, app[t].id)
           /\ \A u \in Tasks \ {t} :
                app[u].pc # "idle" => app[u].tp # p /\ app[u].id # app[t].id
<1>1. PICK p \in TPs : p = app[t].tp
  BY DEF TypeOK, AppShape
<1>2. \A u \in Tasks \ {t} : app[u].pc # "idle" => app[u].tp # p /\ app[u].id # app[t].id
  BY <1>1 DEF AppInv
<1>3. AppendsOn(p) = {t}
  <2>1. \A u \in Tasks : app[u].tp = p => app[u].pc # "idle"
    BY DEF TypeOK, AppShape
  <2> QED
    BY <1>1, <1>2, <2>1 DEF AppendsOn
<1>4. Settled(p) /\ entry[p].status = "READY" /\ app[t].id <= minted /\ OnlyOn(p, app[t].id)
  BY <1>1 DEF AppInv
<1>5. CaughtUp(p) /\ p \notin cb.todo
  BY <1>4 DEF ReadyComplete, Settled
<1>6. app[t].pc \in {"landed", "committed"} =>
        /\ app[t].off \in Nat /\ app[t].off < LogEnd(p)
        /\ RecordAt(p, app[t].off, app[t].id)
  BY <1>1 DEF AppInv, TypeOK, AppShape
<1>7. app[t].id \in Nat
  BY DEF TypeOK, AppType
<1> QED
  BY <1>1, <1>2, <1>3, <1>4, <1>5, <1>6, <1>7

(* In a step that writes no changelog, the other appends' ids stay theirs. *)
LEMMA OthersKeepIds ==
  ASSUME AppInv, NEW t \in Tasks, log' = log, \A u \in Tasks \ {t} : app'[u] = app[u]
  PROVE  \A u \in Tasks \ {t} : app[u].pc # "idle" => OnlyOn(app[u].tp, app[u].id)'
<1> TAKE u \in Tasks \ {t}
<1> HAVE app[u].pc # "idle"
<1>1. OnlyOn(app[u].tp, app[u].id)
  BY DEF AppInv
<1>2. app'[u] = app[u]
  OBVIOUS
<1> QED
  BY <1>1, <1>2 DEF OnlyOn, RecordAt, LogOffsets, LogEnd

(* append() begins on a READY partition at rest, with a fresh id. *)
LEMMA HostAppendsStep ==
  ASSUME IInv, TypeOK', Careful, NEW t \in Tasks, NEW p \in TPs, HostAppends(t, p)
  PROVE  IInv'
<1> USE DEF IInv
<1>1. /\ UNCHANGED <<log, logStart, rows, ckpt, entry, cb, claimed, dirty>>
      /\ app[t].pc = "idle" /\ minted' = minted + 1
      /\ app' = [app EXCEPT ![t] = [pc |-> "sending", tp |-> p, id |-> minted + 1, off |-> NoOffset]]
  BY DEF HostAppends, StartAppend, brokerVars, tableVars, hostVars
<1>2. Settled(p) /\ entry[p].status = "READY" /\ AppendsOn(p) = {} /\ p \notin cb.todo
  BY DEF HostAppends, Careful, AllRules, Rule, Settled
<1>3. /\ app'[t] = [pc |-> "sending", tp |-> p, id |-> minted + 1, off |-> NoOffset]
      /\ \A u \in Tasks \ {t} : app'[u] = app[u]
  BY <1>1 DEF TypeOK
<1>4. PICK id \in Nat : id = minted + 1
  BY DEF TypeOK
<1>5. OnlyOn(p, id)'
  <2>1. OnlyOn(p, id)
    BY <1>4, FreshId
  <2> QED
    BY <1>1, <2>1 DEF OnlyOn, RecordAt, LogOffsets, LogEnd
<1>6. /\ (Settled(p) /\ entry[p].status = "READY" /\ OnlyOn(p, app[t].id))'
      /\ app'[t].pc = "sending" /\ app'[t].tp = p /\ app'[t].id = id /\ id <= minted'
  BY <1>1, <1>2, <1>3, <1>4, <1>5 DEF Settled
<1>7. \A u \in Tasks \ {t} : app[u].pc # "idle" =>
        /\ OnlyOn(app[u].tp, app[u].id)' /\ app[u].tp # p /\ app[u].id # id
  <2> TAKE u \in Tasks \ {t}
  <2> HAVE app[u].pc # "idle"
  <2>1. OnlyOn(app[u].tp, app[u].id)'
    BY <1>1, <1>3, OthersKeepIds
  <2>2. app[u].tp # p
    BY <1>2 DEF AppendsOn
  <2>3. app[u].id \in Nat /\ app[u].id <= minted /\ minted \in Nat
    BY DEF AppInv, TypeOK, AppType
  <2> QED
    BY <1>4, <2>1, <2>2, <2>3
<1>8. CaughtUp(p)'
  <2>1. CaughtUp(p)
    BY <1>2 DEF ReadyComplete
  <2>2. \A o \in LogOffsets(p) : Applied(p, o)
    BY <1>2, <2>1 DEF CaughtUp
  <2> QED
    BY <1>1, <2>2 DEF CaughtUp, LogOffsets, LogEnd, Applied
<1>9. LogInv'
  <2>1. \A tp \in TPs : \A o \in LogOffsets(tp) :
          log[tp][o + 1].kind = "record" => log[tp][o + 1].id <= minted'
    <3> SUFFICES ASSUME NEW tp \in TPs, NEW o \in LogOffsets(tp), log[tp][o + 1].kind = "record"
                 PROVE  log[tp][o + 1].id <= minted + 1
      BY <1>1
    <3>1. log[tp] \in Seq(LogRecords) /\ o + 1 \in 1..Len(log[tp]) /\ minted \in Nat
      BY DEF TypeOK, LogOffsets, LogEnd
    <3>2. log[tp][o + 1].id \in Nat /\ log[tp][o + 1].id <= minted
      <4>1. log[tp][o + 1] \in LogRecords
        BY <3>1
      <4>2. log[tp][o + 1].id <= minted
        BY DEF LogInv
      <4> QED
        BY <4>1, <4>2 DEF LogRecords
    <3> QED
      BY <3>1, <3>2
  <2> QED
    BY <1>1, <2>1 DEF LogInv, LogOffsets, LogEnd
<1>10. RowsFromChangelog' /\ CheckpointHonest'
  BY <1>1 DEF RowsFromChangelog, CheckpointHonest, LogOffsets, LogEnd, Applied
<1>11. ReadyComplete' /\ AppInv' /\ ClaimInv' /\ HookInv'
  <2>1. PICK r \in LogRecords : r = LogRecord("foreign", 0)
    BY DEF LogRecord, LogRecords, Kinds
  <2>2. Longer(p, r) /\ minted <= minted'
    BY <1>1 DEF Longer, TypeOK
  <2> QED
    BY <1>1, <1>2, <1>3, <1>6, <1>7, <1>8, <2>2, AppendKeepsRest
<1> QED
  BY <1>9, <1>10, <1>11

(* send_and_wait: the broker has the record, the tables not yet. *)
LEMMA ProduceStep ==
  ASSUME IInv, TypeOK', NEW t \in Tasks, Produce(t), UNCHANGED <<cb, hostVars>>
  PROVE  IInv'
<1> USE DEF IInv
<1>1. PICK p \in TPs :
        /\ p = app[t].tp /\ Settled(p) /\ p \notin cb.todo /\ entry[p].status = "READY"
        /\ CaughtUp(p) /\ AppendsOn(p) = {t}
        /\ app[t].id \in Nat /\ app[t].id <= minted /\ OnlyOn(p, app[t].id)
        /\ \A u \in Tasks \ {t} :
             app[u].pc # "idle" => app[u].tp # p /\ app[u].id # app[t].id
  BY AppendAtWork DEF Produce
<1>2. PICK id \in Nat, r \in LogRecords, end \in Nat :
        id = app[t].id /\ r = LogRecord("record", id) /\ end = LogEnd(p)
  BY <1>1, LogEndNat DEF LogRecord, LogRecords, Kinds
<1>3. /\ log' = [log EXCEPT ![p] = Append(@, r)]
      /\ app' = [app EXCEPT ![t].pc = "landed", ![t].off = end]
      /\ UNCHANGED <<logStart, rows, ckpt, entry, minted, cb, claimed, dirty>>
  BY <1>1, <1>2 DEF Produce, tableVars, hostVars
<1>4. /\ app'[t].pc = "landed" /\ app'[t].tp = p /\ app'[t].id = id /\ app'[t].off = end
      /\ \A u \in Tasks \ {t} : app'[u] = app[u]
  BY <1>1, <1>2, <1>3 DEF TypeOK, AppType
<1>5. \A q \in TPs : Longer(q, r)
  BY <1>3 DEF Longer, TypeOK
<1>6. r.kind = "record" /\ r.id = id
  BY <1>2 DEF LogRecord
<1>7. LogInv' /\ RowsFromChangelog' /\ CheckpointHonest'
  <2>1. minted <= minted' /\ r.id <= minted' /\ OnlyOn(p, r.id)
    BY <1>1, <1>2, <1>3, <1>6 DEF TypeOK
  <2> QED
    BY <1>3, <2>1, TablesAfterAppend
<1>8. OnlyOn(p, id)'
  BY <1>1, <1>2, <1>3, OnlyOnKept
<1>9. \A u \in Tasks \ {t} : app[u].pc # "idle" => OnlyOn(app[u].tp, app[u].id)'
  <2> TAKE u \in Tasks \ {t}
  <2> HAVE app[u].pc # "idle"
  <2>1. PICK q \in TPs, x \in Nat : q = app[u].tp /\ x = app[u].id /\ OnlyOn(q, x) /\ x # id
    BY <1>1, <1>2 DEF AppInv, TypeOK, AppShape, AppType
  <2>2. r # LogRecord("record", x)
    BY <1>2, <2>1 DEF LogRecord
  <2>3. OnlyOn(q, x)'
    BY <1>3, <2>1, <2>2, OnlyOnKept
  <2> QED
    BY <1>4, <2>1, <2>3
<1>10. end < LogEnd(p)' /\ RecordAt(p, end, id)'
  <2>1. log'[p] = Append(log[p], r) /\ log[p] \in Seq(LogRecords) /\ end = Len(log[p])
    BY <1>2, <1>3 DEF TypeOK, LogEnd
  <2>2. Len(log'[p]) = end + 1 /\ log'[p][end + 1] = r
    BY <2>1
  <2> QED
    BY <1>2, <2>2 DEF LogEnd, RecordAt
<1>11. CaughtUp(p)'
  <2> SUFFICES ASSUME NEW o \in LogOffsets(p)'
               PROVE  Applied(p, o)' \/ log'[p][o + 1].id = id
    BY <1>4 DEF CaughtUp, AppendsOn
  <2>1. CASE o \in LogOffsets(p)
    <3>1. Applied(p, o) \/ log[p][o + 1].id = id
      BY <1>1, <1>2, <2>1 DEF CaughtUp
    <3>2. log'[p][o + 1] = log[p][o + 1] /\ (Applied(p, o) => Applied(p, o)')
      BY <1>5, <2>1, LongerLog, AppliedKept
    <3> QED
      BY <3>1, <3>2
  <2>2. CASE o \notin LogOffsets(p)
    BY <1>5, <1>6, <2>2, LongerLog
  <2> QED
    BY <2>1, <2>2
<1>12. ReadyComplete' /\ AppInv' /\ ClaimInv' /\ HookInv'
  <2>1. (Settled(p) /\ entry[p].status = "READY" /\ OnlyOn(p, app[t].id))'
    BY <1>1, <1>3, <1>4, <1>8 DEF Settled
  <2>2. (app[t].off < LogEnd(p) /\ RecordAt(p, app[t].off, app[t].id))'
    BY <1>4, <1>10
  <2>3. app'[t].id <= minted' /\ minted <= minted'
    BY <1>1, <1>2, <1>3, <1>4 DEF TypeOK
  <2>4. \A u \in Tasks \ {t} : app[u].pc # "idle" => app[u].id # app'[t].id
    BY <1>1, <1>2, <1>4
  <2>5. \A q \in TPs \ {p} : log'[q] = log[q]
    BY <1>3 DEF TypeOK
  <2> QED
    BY <1>1, <1>3, <1>4, <1>5, <1>9, <1>11, <2>1, <2>2, <2>3, <2>4, <2>5, AppendKeepsRest
<1> QED
  BY <1>7, <1>12

(* The transaction of an append: with its row the partition is complete, so *)
(* the checkpoint may stand at its offset.  A row already there under the   *)
(* message id is the same record, replayed before.                         *)
LEMMA CommitAppendStep ==
  ASSUME IInv, TypeOK', NEW t \in Tasks, CommitAppend(t), UNCHANGED <<cb, hostVars>>
  PROVE  IInv'
<1> USE DEF IInv
<1>1. PICK p \in TPs :
        /\ p = app[t].tp /\ Settled(p) /\ p \notin cb.todo /\ entry[p].status = "READY"
        /\ CaughtUp(p) /\ AppendsOn(p) = {t}
        /\ app[t].id \in Nat /\ app[t].id <= minted /\ OnlyOn(p, app[t].id)
        /\ app[t].off \in Nat /\ app[t].off < LogEnd(p) /\ RecordAt(p, app[t].off, app[t].id)
        /\ \A u \in Tasks \ {t} :
             app[u].pc # "idle" => app[u].tp # p /\ app[u].id # app[t].id
  BY AppendAtWork DEF CommitAppend
<1>2. PICK id \in Nat, off \in Nat : id = app[t].id /\ off = app[t].off
  BY <1>1
<1>3. /\ rows' = InsertRecord(rows, p, id, off)
      /\ ckpt' = [ckpt EXCEPT ![p] = UpsertCheckpoint(@, off)]
      /\ app' = [app EXCEPT ![t].pc = "committed"]
      /\ UNCHANGED <<log, logStart, entry, minted, cb, claimed, dirty>>
  BY <1>1, <1>2 DEF CommitAppend, brokerVars, hostVars
<1>4. /\ app'[t].pc = "committed" /\ app'[t].tp = p /\ app'[t].id = id /\ app'[t].off = off
      /\ \A u \in Tasks \ {t} : app'[u] = app[u]
  BY <1>1, <1>2, <1>3 DEF TypeOK, AppType
<1>5. rows \subseteq rows' /\ LogEnd(p) \in Nat
  BY <1>3, LogEndNat DEF InsertRecord
<1>6. \E row \in rows' : row.tp = p /\ row.id = id
  <2>1. CASE id \in StoredIds(rows)
    BY <1>1, <1>2, <1>5, <2>1, StoredThere
  <2>2. CASE id \notin StoredIds(rows)
    <3>1. Row(p, id, off) \in rows'
      BY <1>3, <2>2 DEF InsertRecord
    <3>2. Row(p, id, off).tp = p /\ Row(p, id, off).id = id
      BY DEF Row
    <3> QED
      BY <3>1, <3>2
  <2> QED
    BY <2>1, <2>2
<1>7. \A o \in LogOffsets(p) : Applied(p, o)'
  <2> TAKE o \in LogOffsets(p)
  <2>1. Applied(p, o) \/ log[p][o + 1].id = id
    BY <1>1, <1>2 DEF CaughtUp
  <2> QED
    BY <1>3, <1>5, <1>6, <2>1 DEF Applied
<1>8. LogInv'
  <2>1. \A q \in TPs : ckpt'[q] < LogEnd(q)
    BY <1>1, <1>2, <1>3, <1>5 DEF LogInv, TypeOK, UpsertCheckpoint
  <2> QED
    BY <1>3, <2>1 DEF LogInv, LogOffsets, LogEnd
<1>9. RowsFromChangelog'
  <2>1. \A row \in rows' : row \in rows \/ row = Row(p, id, off)
    BY <1>3 DEF InsertRecord
  <2>2. off < LogEnd(p) /\ log[p][off + 1] = LogRecord("record", id)
    BY <1>1, <1>2 DEF RecordAt
  <2> QED
    BY <1>3, <2>1, <2>2 DEF RowsFromChangelog, LogEnd, Row
<1>10. CheckpointHonest'
  <2> SUFFICES ASSUME NEW q \in TPs \ {p}, NEW o \in LogOffsets(q), o <= ckpt[q]
               PROVE  Applied(q, o)'
    BY <1>3, <1>7 DEF CheckpointHonest, LogOffsets, LogEnd, TypeOK
  <2>1. Applied(q, o)
    BY DEF CheckpointHonest
  <2> QED
    BY <1>3, <1>5, <2>1 DEF Applied
<1>11. ReadyComplete' /\ AppInv' /\ ClaimInv' /\ HookInv'
  <2>1. PICK r \in LogRecords : r = LogRecord("foreign", 0)
    BY DEF LogRecord, LogRecords, Kinds
  <2>2. Longer(p, r) /\ minted <= minted'
    BY <1>3, <1>5 DEF Longer, TypeOK
  <2>3. CaughtUp(p)'
    BY <1>3, <1>7 DEF CaughtUp, LogOffsets, LogEnd
  <2>4. (Settled(p) /\ entry[p].status = "READY")' /\ app'[t].id <= minted'
    BY <1>1, <1>2, <1>3, <1>4 DEF Settled
  <2>5. OnlyOn(p, app[t].id)'
    <3>1. OnlyOn(p, id)'
      BY <1>1, <1>2, <1>3 DEF OnlyOn, RecordAt, LogOffsets, LogEnd
    <3> QED
      BY <1>4, <3>1
  <2>6. (app[t].off < LogEnd(p) /\ RecordAt(p, app[t].off, app[t].id))'
    BY <1>1, <1>2, <1>3, <1>4 DEF LogEnd, RecordAt
  <2>7. \A u \in Tasks \ {t} : app[u].pc # "idle" => OnlyOn(app[u].tp, app[u].id)'
    BY <1>3, <1>4, OthersKeepIds
  <2>8. \A u \in Tasks \ {t} : app[u].pc # "idle" => app[u].id # app'[t].id
    BY <1>1, <1>2, <1>4
  <2> QED
    BY <1>1, <1>3, <1>4, <1>5, <2>2, <2>3, <2>4, <2>5, <2>6, <2>7, <2>8, AppendKeepsRest
<1> QED
  BY <1>8, <1>9, <1>10, <1>11

(* The end of an append, by its return or by a failure: after a failure the *)
(* host rehydrates the partition before it appends to it again.            *)
LEMMA AppendEndsStep ==
  ASSUME IInv, TypeOK', Careful, NEW t \in Tasks,
         \/ AppendReturns(t) /\ UNCHANGED <<cb, hostVars>>
         \/ AppendProduceFails(t) \/ AppendStorageFails(t)
  PROVE  IInv'
<1> USE DEF IInv
<1>1. PICK p \in TPs :
        /\ p = app[t].tp /\ Settled(p) /\ p \notin cb.todo /\ entry[p].status = "READY"
        /\ CaughtUp(p) /\ AppendsOn(p) = {t}
        /\ \A u \in Tasks \ {t} :
             app[u].pc # "idle" => app[u].tp # p /\ app[u].id # app[t].id
  BY AppendAtWork DEF AppendReturns, AppendProduceFails, ProduceFails, AppendStorageFails,
                      MaterializeFails
<1>2. /\ UNCHANGED <<log, logStart, rows, ckpt, minted, cb, claimed>>
      /\ app' = [app EXCEPT ![t] = IdleApp]
  BY DEF AppendReturns, AppendProduceFails, ProduceFails, AppendStorageFails, MaterializeFails,
         brokerVars, tableVars, hostVars
<1>3. app'[t].pc = "idle" /\ \A u \in Tasks \ {t} : app'[u] = app[u]
  BY <1>2 DEF TypeOK, IdleApp
<1>4. /\ \A q \in TPs \ {p} : entry'[q] = entry[q] /\ (q \in dirty' <=> q \in dirty)
      /\ app[t].pc = "committed" \/ p \in dirty'
  BY <1>1 DEF AppendReturns, AppendProduceFails, ProduceFails, AppendStorageFails,
              MaterializeFails, hostVars, TypeOK, Careful, AllRules, Rule
<1>5. Settled(p)' => CaughtUp(p)'
  <2> SUFFICES ASSUME Settled(p)' PROVE CaughtUp(p)'
    OBVIOUS
  <2>1. app[t].pc = "committed"
    BY <1>4 DEF Settled
  <2>2. \A o \in LogOffsets(p) : Applied(p, o)
    BY <1>1, <2>1 DEF CaughtUp
  <2> QED
    BY <1>2, <2>2 DEF CaughtUp, LogOffsets, LogEnd, Applied
<1>6. LogInv' /\ RowsFromChangelog' /\ CheckpointHonest'
  BY <1>2, SameTables
<1>7. ReadyComplete' /\ AppInv' /\ ClaimInv' /\ HookInv'
  <2>1. PICK r \in LogRecords : r = LogRecord("foreign", 0)
    BY DEF LogRecord, LogRecords, Kinds
  <2>2. Longer(p, r) /\ minted <= minted'
    BY <1>2 DEF Longer, TypeOK
  <2>3. \A u \in Tasks \ {t} : app[u].pc # "idle" => OnlyOn(app[u].tp, app[u].id)'
    BY <1>2, <1>3, OthersKeepIds
  <2> QED
    BY <1>1, <1>2, <1>3, <1>4, <1>5, <2>2, <2>3, AppendKeepsRest
<1> QED
  BY <1>6, <1>7

-----------------------------------------------------------------------------
(* The whole. *)

(* start() on an empty world: nothing is stored, so nothing is missing. *)
LEMMA InitIInv == Init => IInv
<1> SUFFICES ASSUME Init PROVE IInv
  OBVIOUS
<1>1. TypeOK
  BY InitTypeOK
<1>2. \A tp \in TPs : LogEnd(tp) = 0 /\ LogOffsets(tp) = {}
  BY DEF Init, LogEnd, LogOffsets
<1>3. LogInv /\ RowsFromChangelog /\ CheckpointHonest
  BY <1>2 DEF Init, LogInv, RowsFromChangelog, CheckpointHonest, NoOffset
<1>4. ReadyComplete /\ AppInv /\ ClaimInv /\ HookInv
  BY DEF Init, ReadyComplete, Settled, AppInv, ClaimInv, HookInv, IdleApp, IdleCb,
         AssignPcs, ReplayPcs, RevokePcs
<1> QED
  BY <1>1, <1>3, <1>4 DEF IInv

(* Every step of the program, its host and the world preserves IInv. *)
LEMMA StepIInv ==
  ASSUME Careful, IInv, [Next]_vars
  PROVE  IInv'
<1>1. TypeOK'
  BY TypeStep DEF IInv
<1>2. CASE StartStore \/ Crash
  BY <1>1, <1>2, ProcessStep
<1>3. ASSUME NEW t \in Tasks, NEW tp \in TPs, HostAppends(t, tp)
      PROVE  IInv'
  BY <1>1, <1>3, HostAppendsStep
<1>4. ASSUME NEW t \in Tasks, AppendProduceFails(t) \/ AppendStorageFails(t)
      PROVE  IInv'
  BY <1>1, <1>4, AppendEndsStep
<1>5. ASSUME NEW S \in SUBSET TPs, HostAssigns(S) \/ HostRevokes(S)
      PROVE  IInv'
  BY <1>1, <1>5, HookCallStep
<1>6. CASE HookFails
  BY <1>1, <1>6, HookFailsStep
<1>7. ASSUME NEW t \in Tasks, AppendStep(t)
      PROVE  IInv'
  BY <1>1, <1>7, ProduceStep, CommitAppendStep, AppendEndsStep DEF AppendStep
<1>8. CASE HookRuns
  BY <1>1, <1>8, HookRunsStep
<1>9. CASE ClockTicks
  BY <1>1, <1>9, ClockTicksStep
<1>10. CASE World
  BY <1>1, <1>10, WorldStep
<1>11. CASE UNCHANGED vars
  <2> USE DEF IInv
  <2>1. UNCHANGED <<log, logStart, rows, ckpt, entry, app, minted, cb, claimed, dirty>>
    BY <1>11 DEF vars
  <2>2. LogInv' /\ RowsFromChangelog' /\ CheckpointHonest'
    BY <2>1, SameTables
  <2>3. ReadyComplete' /\ AppInv'
    BY <1>1, <2>1, HookKeepsRest
  <2>4. ClaimInv'
    BY <2>1 DEF ClaimInv
  <2>5. HookInv'
    BY <2>1 DEF HookInv, Materialized, MaterializedFrom, LogOffsets, LogEnd, Applied
  <2> QED
    BY <1>1, <2>2, <2>3, <2>4, <2>5
<1> QED
  BY <1>2, <1>3, <1>4, <1>5, <1>6, <1>7, <1>8, <1>9, <1>10, <1>11 DEF Next, Host

(* The strengthening is an invariant of every instance with a careful host  *)
(* and no lost tail: the inductive argument behind the theorems below.      *)
THEOREM Inductive ==
  ASSUME Careful
  PROVE  Spec => []IInv
<1>1. IInv /\ [Next]_vars => IInv'
  BY StepIInv
<1> QED
  BY InitIInv, <1>1, PTL DEF Spec

(* partition_checkpoint never promises a record SQLite lacks               *)
(* (partition-lifecycle.md, "applied everything up to here"), through       *)
(* crashes, failed and cancelled calls, resets and clamps.                  *)
THEOREM CheckpointIsHonest ==
  ASSUME Careful
  PROVE  Spec => []CheckpointHonest
<1>1. IInv => CheckpointHonest
  BY DEF IInv
<1> QED
  BY <1>1, Inductive, PTL

(* A READY partition this host holds is a complete copy of its changelog    *)
(* (check-partition-readiness.md, "replayed fully"), however it became so.  *)
THEOREM ReadyIsComplete ==
  ASSUME Careful
  PROVE  Spec => []ReadyComplete
<1>1. IInv => ReadyComplete
  BY DEF IInv
<1> QED
  BY <1>1, Inductive, PTL

(* No row without its record in the changelog, at the row's offset          *)
(* (durability.md, produce first).                                         *)
THEOREM RowsAreRecords ==
  ASSUME Careful
  PROVE  Spec => []RowsFromChangelog
<1>1. IInv => RowsFromChangelog
  BY DEF IInv
<1> QED
  BY <1>1, Inductive, PTL
=============================================================================
