---------------------------- MODULE Transactions ----------------------------
(***************************************************************************)
(* The connection pool and the calls that borrow from it: write            *)
(* transactions (TransactionRunner.run) with their bounded busy retry, and *)
(* queries (QueryRunner.query) under PRAGMA query_only. Every statement    *)
(* is an await on the worker thread of its connection, so calls interleave *)
(* between statements, a cancelled call leaves behind the statement it was *)
(* waiting for, and the connection goes on to the next call.               *)
(*                                                                         *)
(* SQLite in WAL mode: one connection at most holds the write lock, a      *)
(* connection reads what is committed plus what it has written itself.     *)
(***************************************************************************)
EXTENDS Naturals, FiniteSets

CONSTANTS
  Writers,      \* calls of TransactionRunner.run()
  Readers,      \* calls of QueryRunner.query()
  Conns,        \* connections of the pool (pool_size)
  NoConn,
  MaxAttempts,  \* BUSY_RETRY_MAX_ATTEMPTS
  Faults        \* what may go wrong, a subset of AllFaults

AllFaults ==
  {"outsider",   \* another process takes and frees the write lock
   "error",      \* a statement fails for another reason than a busy lock
   "cancel",     \* the host cancels a call
   "spurious",   \* a retried BEGIN IMMEDIATE succeeds without the lock
   "stray"}      \* a pooled connection is found with an open transaction

ASSUME CallsAssumption == Writers \cap Readers = {}
ASSUME NoConnAssumption == NoConn \notin Conns /\ "outsider" \notin Conns /\ NoConn # "outsider"
ASSUME AttemptsAssumption == MaxAttempts \in Nat \ {0}
ASSUME FaultsAssumption == Faults \subseteq AllFaults

VARIABLES
  store,  \* per call and statement, how often it has been committed
  lock,   \* who holds the write lock: a connection, "outsider" or NoConn
  conn,   \* per connection, its open transaction and its query_only flag
  task,   \* per call, where it is
  seen    \* per query, the store its rows came from

vars == <<store, lock, conn, task, seen>>

Tasks == Writers \cup Readers
Stmts == 1..2  \* the statements of a work function: record, checkpoint
Empty == [t \in Tasks |-> [s \in Stmts |-> 0]]
Clean == [txn |-> FALSE, pend |-> {}, queryOnly |-> FALSE]

Init ==
  /\ store = Empty
  /\ lock = NoConn
  /\ conn = [c \in Conns |-> Clean]
  /\ task = [t \in Tasks |-> [pc |-> "start", conn |-> NoConn, stmt |-> 1,
                              attempt |-> 1, why |-> "none"]]
  /\ seen = [t \in Tasks |-> Empty]

-----------------------------------------------------------------------------
(* SQLite *)

InUse == {task[t].conn : t \in Tasks}
Mine(t) == conn[task[t].conn]

Freed(c) == IF lock = c THEN NoConn ELSE lock

(* What connection c has written and not committed, added to s. *)
With(s, c) ==
  [t \in Tasks |-> [n \in Stmts |-> s[t][n] + (IF <<t, n>> \in conn[c].pend THEN 1 ELSE 0)]]

(* The effect of a statement of call t, whether or not t still waits. *)
BeginTakes(t) ==
  /\ lock = NoConn /\ ~Mine(t).txn
  /\ lock' = task[t].conn
  /\ conn' = [conn EXCEPT ![task[t].conn].txn = TRUE]
  /\ UNCHANGED store

WriteTakes(t) ==
  /\ lock = task[t].conn /\ ~Mine(t).queryOnly
  /\ conn' = [conn EXCEPT ![task[t].conn].pend = @ \cup {<<t, task[t].stmt>>}]
  /\ UNCHANGED <<store, lock>>

CommitTakes(t) ==
  /\ store' = With(store, task[t].conn)
  /\ conn' = [conn EXCEPT ![task[t].conn].txn = FALSE, ![task[t].conn].pend = {}]
  /\ lock' = Freed(task[t].conn)

RollbackTakes(c) ==
  /\ conn' = [conn EXCEPT ![c].txn = FALSE, ![c].pend = {}]
  /\ lock' = Freed(c)
  /\ UNCHANGED store

QueryOnly(t, on) ==
  /\ conn' = [conn EXCEPT ![task[t].conn].queryOnly = on]
  /\ UNCHANGED <<store, lock>>

-----------------------------------------------------------------------------
(* The pool *)

At(t, pc) == task[t].pc = pc
Goto(t, pc) == task' = [task EXCEPT ![t].pc = pc] /\ UNCHANGED seen
(* Goes to pc, to end there or later as `why` says. *)
Ends(t, pc, why) ==
  task' = [task EXCEPT ![t].pc = pc, ![t].why = why] /\ UNCHANGED seen

(* Mutant of Reset: the adapter trusts the rollback on release. *)
ResetNothing(k) == k

(* Mutant of Reset: the adapter resets the transaction only. *)
ResetTransaction(k) == [Clean EXCEPT !.queryOnly = k.queryOnly]

(* Checkout hygiene. *)
Reset(k) == Clean

Checkout(t, c) ==
  /\ At(t, "start") /\ c \notin InUse
  /\ conn' = [conn EXCEPT ![c] = Reset(conn[c])]
  /\ lock' = IF conn'[c].txn THEN lock ELSE Freed(c)
  /\ task' = [task EXCEPT ![t].conn = c,
                          ![t].pc = IF t \in Writers THEN "begin" ELSE "queryOn"]
  /\ UNCHANGED <<store, seen>>

(* PoolConnectionAcquireTimeoutError becomes StorageError. *)
PoolExhausted(t) ==
  /\ At(t, "start") /\ Conns \subseteq InUse
  /\ Ends(t, "done", "StorageError")
  /\ UNCHANGED <<store, lock, conn>>

(* The inner pool rolls back what a returned connection has open. *)
Release(t) ==
  /\ At(t, "release")
  /\ RollbackTakes(task[t].conn)
  /\ task' = [task EXCEPT ![t].pc = "done", ![t].conn = NoConn]
  /\ UNCHANGED seen

-----------------------------------------------------------------------------
(* TransactionRunner.run *)

Begin(t) ==
  /\ At(t, "begin")
  /\ BeginTakes(t)
  /\ Goto(t, "work")

BeginBusy(t) ==
  /\ At(t, "begin")
  /\ lock # NoConn
  /\ Goto(t, "backoff")
  /\ UNCHANGED <<store, lock, conn>>

BeginSpurious(t) ==
  /\ "spurious" \in Faults
  /\ At(t, "begin") /\ task[t].attempt > 1
  /\ conn' = [conn EXCEPT ![task[t].conn].txn = TRUE]
  /\ Goto(t, "work")
  /\ UNCHANGED <<store, lock>>

(* An error that is not a busy one leaves the retry loop; in a connection   *)
(* that has a transaction open, BEGIN is such an error.                     *)
BeginFails(t) ==
  /\ At(t, "begin")
  /\ "error" \notin Faults => Mine(t).txn
  /\ Ends(t, "release", "StorageError")
  /\ UNCHANGED <<store, lock, conn>>

Write(t) ==
  /\ At(t, "work")
  /\ WriteTakes(t)
  /\ task' = IF task[t].stmt \in {s \in Stmts : s + 1 \in Stmts}
               THEN [task EXCEPT ![t].stmt = @ + 1]
               ELSE [task EXCEPT ![t].pc = "commit"]
  /\ UNCHANGED seen

(* A statement of the work, or the commit, raises. *)
StatementFails(t, why) ==
  /\ At(t, "work") \/ At(t, "commit")
  /\ IF why = "busy" THEN lock # task[t].conn \/ At(t, "commit")
                     ELSE "error" \in Faults \/ Mine(t).queryOnly
  /\ Ends(t, "rollback", why)
  /\ UNCHANGED <<store, lock, conn>>

Commit(t) ==
  /\ At(t, "commit")
  /\ CommitTakes(t)
  /\ Ends(t, "release", "ok")

(* Mutant of AfterRollback: a busy attempt goes on where it was. *)
AfterRollbackResume(why) == IF why = "busy" THEN "commit" ELSE "release"

AfterRollback(why) == IF why = "busy" THEN "backoff" ELSE "release"

Rollback(t) ==
  /\ At(t, "rollback")
  /\ RollbackTakes(task[t].conn)
  /\ Goto(t, AfterRollback(task[t].why))

(* Mutant of MayRetry: no bound on the attempts. *)
MayRetryForever(attempt) == TRUE

MayRetry(attempt) == attempt < MaxAttempts

(* Mutant of NextAttempt: the attempts are not counted. *)
NextAttemptUncounted(attempt) == attempt

NextAttempt(attempt) == attempt + 1

(* The whole attempt runs again, from BEGIN. *)
Retry(t) ==
  /\ At(t, "backoff")
  /\ MayRetry(task[t].attempt)
  /\ task' = [task EXCEPT ![t].pc = "begin", ![t].stmt = 1, ![t].attempt = NextAttempt(@)]
  /\ UNCHANGED <<store, lock, conn, seen>>

(* The attempts have run out; or the deadline has, at any of them. *)
GiveUp(t) ==
  /\ At(t, "backoff")
  /\ Ends(t, "release", "StorageError")
  /\ UNCHANGED <<store, lock, conn>>

-----------------------------------------------------------------------------
(* QueryRunner.query *)

(* Mutant of QueryFlag: the rows are fetched without the pragma. *)
QueryFlagOff == FALSE

QueryFlag == TRUE

QueryOn(t) ==
  /\ At(t, "queryOn")
  /\ QueryOnly(t, QueryFlag)
  /\ Goto(t, "fetch")

Fetch(t) ==
  /\ At(t, "fetch")
  /\ task' = [task EXCEPT ![t].pc = "queryOff", ![t].why = "ok"]
  /\ seen' = [seen EXCEPT ![t] = With(store, task[t].conn)]
  /\ UNCHANGED <<store, lock, conn>>

(* The SQL of the host writes, or fails. *)
FetchFails(t) ==
  /\ At(t, "fetch")
  /\ store' = IF Mine(t).queryOnly THEN store ELSE [store EXCEPT ![t][1] = @ + 1]
  /\ Ends(t, "queryOff", "StorageError")
  /\ UNCHANGED <<lock, conn>>

QueryOff(t) ==
  /\ At(t, "queryOff")
  /\ QueryOnly(t, FALSE)
  /\ Goto(t, "release")

-----------------------------------------------------------------------------
(* Cancellation: the statement the call waits for takes effect or not, and  *)
(* the call goes where its finally and except clauses send it. BEGIN and    *)
(* the first PRAGMA stand before the clause that would undo them.           *)

AfterCancel(pc) ==
  CASE pc = "start" -> "done"
    [] pc \in {"work", "commit"} -> "rollback"
    [] pc = "fetch" -> "queryOff"
    [] OTHER -> "release"

Cancel(t) ==
  /\ "cancel" \in Faults
  /\ task[t].pc \notin {"release", "done"}
  /\ Ends(t, AfterCancel(task[t].pc), "Cancelled")
  /\ \/ At(t, "begin") /\ BeginTakes(t)
     \/ At(t, "work") /\ WriteTakes(t)
     \/ At(t, "commit") /\ CommitTakes(t)
     \/ At(t, "rollback") /\ RollbackTakes(task[t].conn)
     \/ At(t, "queryOn") /\ QueryOnly(t, QueryFlag)
     \/ At(t, "queryOff") /\ QueryOnly(t, FALSE)
     \/ UNCHANGED <<store, lock, conn>>

-----------------------------------------------------------------------------
(* Around the store *)

OutsiderLocks ==
  /\ "outsider" \in Faults /\ lock = NoConn
  /\ lock' = "outsider"
  /\ UNCHANGED <<store, conn, task, seen>>

OutsiderUnlocks ==
  /\ lock = "outsider"
  /\ lock' = NoConn
  /\ UNCHANGED <<store, conn, task, seen>>

(* Half of the work of a call, in a transaction that escaped its rollback. *)
Stray(c, t) ==
  /\ "stray" \in Faults
  /\ c \notin InUse /\ lock = NoConn
  /\ lock' = c
  /\ conn' = [conn EXCEPT ![c].txn = TRUE, ![c].pend = {<<t, 1>>}]
  /\ UNCHANGED <<store, task, seen>>

TransactionStep(t) ==
  \/ Begin(t) \/ BeginBusy(t) \/ BeginSpurious(t) \/ BeginFails(t) \/ Write(t)
  \/ \E why \in {"busy", "StorageError"} : StatementFails(t, why)
  \/ Commit(t) \/ Rollback(t) \/ Retry(t) \/ GiveUp(t)

QueryStep(t) == QueryOn(t) \/ Fetch(t) \/ FetchFails(t) \/ QueryOff(t)

CallStep(t) ==
  \/ \E c \in Conns : Checkout(t, c)
  \/ PoolExhausted(t)
  \/ TransactionStep(t)
  \/ QueryStep(t)
  \/ Release(t)

Next ==
  \/ \E t \in Tasks : CallStep(t) \/ Cancel(t)
  \/ OutsiderLocks \/ OutsiderUnlocks
  \/ \E c \in Conns, t \in Writers : Stray(c, t)

Spec == Init /\ [][Next]_vars

(* The event loop resumes every call whose statement has answered. *)
FairSpec == Spec /\ \A t \in Tasks : WF_vars(CallStep(t))

-----------------------------------------------------------------------------
(* Properties *)

Pcs == {"start", "begin", "work", "commit", "rollback", "backoff",
        "queryOn", "fetch", "queryOff", "release", "done"}

TypeOK ==
  /\ store \in [Tasks -> [Stmts -> Nat]]
  /\ lock \in Conns \cup {NoConn, "outsider"}
  /\ conn \in [Conns -> [txn : BOOLEAN, pend : SUBSET (Tasks \X Stmts), queryOnly : BOOLEAN]]
  /\ task \in [Tasks -> [pc : Pcs, conn : Conns \cup {NoConn}, stmt : Stmts,
                         attempt : 1..MaxAttempts,
                         why : {"none", "busy", "ok", "StorageError", "Cancelled"}]]
  /\ seen \in [Tasks -> [Tasks -> [Stmts -> Nat]]]

(* Checkout hygiene and rollback: whatever the last user of a connection    *)
(* left open, and however the last attempt ended, every attempt and every   *)
(* query starts in no transaction, with nothing written, and not read-only. *)
AttemptsStartClean ==
  \A t \in Tasks : task[t].pc \in {"begin", "queryOn"} => Mine(t) = Clean

(* The inductive invariant of the proofs. A connection has one user, a      *)
(* write attempt has written exactly the statements it has passed, a query  *)
(* runs read-only on a connection with nothing written, and the statements  *)
(* of a call are committed together, once, and before it says so.           *)
Borrowed(t) ==
  /\ (task[t].conn = NoConn) = (task[t].pc \in {"start", "done"})
  /\ \A u \in Tasks : task[u].conn = task[t].conn => u = t \/ task[t].conn = NoConn
  /\ task[t].pc \in {"begin", "work", "commit", "rollback", "backoff"} => t \in Writers
  /\ task[t].pc \in {"queryOn", "fetch", "queryOff"} => t \in Readers

Before(t, stmt) == {<<t, n>> : n \in {m \in Stmts : m < stmt}}
AllOf(t) == {<<t, n>> : n \in Stmts}

Attempt(t) ==
  /\ task[t].pc \in {"begin", "backoff", "queryOn"} => Mine(t) = Clean
  /\ task[t].pc \in {"work", "commit", "rollback"} => ~Mine(t).queryOnly
  /\ At(t, "work") => Mine(t).pend = Before(t, task[t].stmt)
  /\ At(t, "commit") => Mine(t).pend = AllOf(t)
  /\ At(t, "fetch") => Mine(t).queryOnly /\ Mine(t).pend = {}
  /\ task[t].pc \in {"start", "begin"} => task[t].stmt = 1

Stored(t) ==
  /\ store[t][1] = store[t][2] /\ store[t][1] \in {0, 1}
  /\ t \in Readers => store[t][1] = 0
  /\ task[t].pc \in {"start", "begin", "work", "commit", "backoff"} => store[t][1] = 0
  /\ At(t, "rollback") => task[t].why \in {"busy", "StorageError", "Cancelled"}
  /\ task[t].pc \in {"release", "done", "queryOff"} =>
       task[t].why \in {"ok", "StorageError", "Cancelled"}
  /\ At(t, "rollback") /\ task[t].why # "Cancelled" => store[t][1] = 0
  /\ task[t].pc \in {"release", "done"} /\ task[t].why = "StorageError" => store[t][1] = 0
  /\ task[t].pc \in {"release", "done"} /\ task[t].why = "ok" /\ t \in Writers
       => store[t][1] = 1

CallsInv == TypeOK /\ \A t \in Tasks : Borrowed(t) /\ Attempt(t) /\ Stored(t)

(* Every call ends, with the lock taken away for good or its connection     *)
(* used by others: attempts, deadline and pool timeout bound all waits.     *)
CallsEnd == \A t \in Tasks : <>At(t, "done")

(* The work of a call as one effect; half of it is none of the abstract     *)
(* values.                                                                  *)
Torn == 2
EffectOf(s) == [t \in Tasks |-> IF s[t][1] = s[t][2] THEN s[t][1] ELSE Torn]

Outcomes == [t \in Tasks |-> IF At(t, "done") THEN task[t].why ELSE "none"]
SeenBy == [t \in Tasks |-> EffectOf(seen[t])]

AtomicCalls == INSTANCE AtomicTransactions
  WITH effect <- EffectOf(store), outcome <- Outcomes, seen <- SeenBy

(* The statements, retries, rollbacks and cancellations of the pool         *)
(* implement calls that take effect at once or not at all.                  *)
ImplementsAtomicCalls == AtomicCalls!Spec
=============================================================================
