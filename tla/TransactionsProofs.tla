------------------------- MODULE TransactionsProofs -------------------------
(***************************************************************************)
(* Theorems of Transactions for any calls, any pool and any faults: types, *)
(* clean attempts, and the refinement of AtomicTransactions.               *)
(***************************************************************************)
EXTENDS Transactions, TLAPS

USE CallsAssumption, NoConnAssumption, AttemptsAssumption

Stores == [Tasks -> [Stmts -> Nat]]
ConnType == [txn : BOOLEAN, pend : SUBSET (Tasks \X Stmts), queryOnly : BOOLEAN]
TaskType == [pc : Pcs, conn : Conns \cup {NoConn}, stmt : Stmts, attempt : 1..MaxAttempts,
             why : {"none", "busy", "ok", "StorageError", "Cancelled"}]

-----------------------------------------------------------------------------
(* Operators *)

LEMMA CleanType == Clean \in ConnType
  BY DEF Clean, ConnType

LEMMA EmptyType == Empty \in Stores
  BY DEF Empty, Stores

LEMMA WithType ==
  ASSUME TypeOK, NEW s \in Stores, NEW c \in Conns
  PROVE  With(s, c) \in Stores
<1>1. \A t \in Tasks, n \in Stmts :
        s[t][n] + (IF <<t, n>> \in conn[c].pend THEN 1 ELSE 0) \in Nat
  BY DEF Stores
<1> QED
  BY <1>1 DEF With, Stores

(* Nothing written on a connection: it reads what is committed.            *)
LEMMA WithNothing ==
  ASSUME NEW s \in Stores, NEW c, conn[c].pend = {}
  PROVE  With(s, c) = s
<1>1. \A t \in Tasks : [n \in Stmts |-> s[t][n] + (IF <<t, n>> \in conn[c].pend THEN 1 ELSE 0)] = s[t]
  <2> TAKE t \in Tasks
  <2>1. s[t] \in [Stmts -> Nat]
    BY DEF Stores
  <2>2. \A n \in Stmts : s[t][n] + (IF <<t, n>> \in conn[c].pend THEN 1 ELSE 0) = s[t][n]
    BY <2>1
  <2> QED
    BY <2>1, <2>2
<1> QED
  BY <1>1 DEF With, Stores

(* All statements of one call written: they are committed together.        *)
LEMMA WithWork ==
  ASSUME NEW s \in Stores, NEW c, NEW t \in Tasks, conn[c].pend = AllOf(t)
  PROVE  /\ \A u \in Tasks : u # t => With(s, c)[u] = s[u]
         /\ With(s, c)[t][1] = s[t][1] + 1 /\ With(s, c)[t][2] = s[t][2] + 1
<1>1. \A u \in Tasks, n \in Stmts : <<u, n>> \in conn[c].pend <=> u = t
  BY DEF AllOf
<1>2. \A u \in Tasks : With(s, c)[u] = [n \in Stmts |-> s[u][n] + (IF u = t THEN 1 ELSE 0)]
  BY <1>1 DEF With
<1>3. ASSUME NEW u \in Tasks, u # t PROVE With(s, c)[u] = s[u]
  <2>1. s[u] \in [Stmts -> Nat] /\ \A n \in Stmts : s[u][n] + 0 = s[u][n]
    BY DEF Stores
  <2> QED
    BY <1>2, <1>3, <2>1
<1>4. With(s, c)[t] = [n \in Stmts |-> s[t][n] + 1]
  BY <1>2
<1>5. 1 \in Stmts /\ 2 \in Stmts
  BY DEF Stmts
<1> QED
  BY <1>3, <1>4, <1>5

-----------------------------------------------------------------------------
(* Types *)

LEMMA TypeInit == Init => TypeOK
<1> SUFFICES ASSUME Init PROVE TypeOK
  OBVIOUS
<1>1. store \in Stores /\ seen \in [Tasks -> Stores] /\ conn \in [Conns -> ConnType]
  BY CleanType, EmptyType DEF Init
<1>2. task \in [Tasks -> TaskType]
  <2>1. 1 \in Stmts /\ 1 \in 1..MaxAttempts /\ "start" \in Pcs
    BY DEF Stmts, Pcs
  <2> QED
    BY <2>1 DEF Init, TaskType
<1> QED
  BY <1>1, <1>2 DEF Init, TypeOK, Stores, ConnType, TaskType

(* What a statement does to the connections keeps their type.              *)
LEMMA TypeStatement ==
  ASSUME TypeOK, NEW t \in Tasks, task[t].conn \in Conns,
         \/ BeginTakes(t) \/ WriteTakes(t) \/ CommitTakes(t)
         \/ RollbackTakes(task[t].conn) \/ (\E on \in BOOLEAN : QueryOnly(t, on))
  PROVE  store' \in Stores /\ lock' \in Conns \cup {NoConn, "outsider"} /\ conn' \in [Conns -> ConnType]
<1> DEFINE c == task[t].conn
<1>0. /\ store \in Stores /\ lock \in Conns \cup {NoConn, "outsider"}
      /\ conn \in [Conns -> ConnType] /\ conn[c] \in ConnType /\ task[t].stmt \in Stmts
  BY DEF TypeOK, Stores, ConnType
<1>1. CASE BeginTakes(t)
  BY <1>0, <1>1 DEF BeginTakes, ConnType
<1>2. CASE WriteTakes(t)
  <2>1. conn[c].pend \cup {<<t, task[t].stmt>>} \in SUBSET (Tasks \X Stmts)
    BY <1>0 DEF ConnType
  <2> QED
    BY <1>0, <1>2, <2>1 DEF WriteTakes, ConnType
<1>3. CASE CommitTakes(t)
  BY <1>0, <1>3, WithType DEF CommitTakes, ConnType, Freed
<1>4. CASE RollbackTakes(c)
  BY <1>0, <1>4 DEF RollbackTakes, ConnType, Freed
<1>5. CASE \E on \in BOOLEAN : QueryOnly(t, on)
  BY <1>0, <1>5 DEF QueryOnly, ConnType
<1> QED
  BY <1>1, <1>2, <1>3, <1>4, <1>5
(* Where a call goes next, and what it ends with, keep the type of calls.  *)
LEMMA TypeMove ==
  ASSUME TypeOK, NEW t \in Tasks, NEW pc \in Pcs,
         \/ Goto(t, pc)
         \/ \E why \in {"none", "busy", "ok", "StorageError", "Cancelled"} : Ends(t, pc, why)
  PROVE  task' \in [Tasks -> TaskType] /\ seen' \in [Tasks -> Stores]
<1>1. task \in [Tasks -> TaskType] /\ seen \in [Tasks -> Stores]
  BY DEF TypeOK, TaskType, Stores
<1> QED
  BY <1>1 DEF Goto, Ends, TaskType

(* The parts of TypeOK, each in the new state.                             *)
LEMMA TypeParts ==
  ASSUME store' \in Stores, lock' \in Conns \cup {NoConn, "outsider"},
         conn' \in [Conns -> ConnType], task' \in [Tasks -> TaskType],
         seen' \in [Tasks -> Stores]
  PROVE  TypeOK'
  BY DEF TypeOK, Stores, ConnType, TaskType

LEMMA TypeNow ==
  ASSUME TypeOK
  PROVE  /\ store \in Stores /\ lock \in Conns \cup {NoConn, "outsider"}
         /\ conn \in [Conns -> ConnType] /\ task \in [Tasks -> TaskType]
         /\ seen \in [Tasks -> Stores]
  BY DEF TypeOK, Stores, ConnType, TaskType

(* A call past its checkout and before its end holds a connection.         *)
LEMMA Holds ==
  ASSUME CallsInv, NEW t \in Tasks, task[t].pc \notin {"start", "done"}
  PROVE  task[t].conn \in Conns
  BY TypeNow DEF CallsInv, Borrowed, TaskType

LEMMA TypeStep ==
  ASSUME CallsInv, [Next]_vars
  PROVE  TypeOK'
<1> USE TypeNow DEF CallsInv
<1>1. ASSUME NEW t \in Tasks, NEW c \in Conns, Checkout(t, c)
      PROVE  TypeOK'
  <2>1. conn' \in [Conns -> ConnType]
    BY <1>1, CleanType DEF Checkout, Reset
  <2>2. task' \in [Tasks -> TaskType]
    <3> DEFINE pc == IF t \in Writers THEN "begin" ELSE "queryOn"
    <3>1. pc \in Pcs
      BY DEF Pcs
    <3>2. task' = [task EXCEPT ![t].conn = c, ![t].pc = pc]
      BY <1>1 DEF Checkout
    <3>3. task \in [Tasks -> TaskType]
      OBVIOUS
    <3> HIDE DEF pc, CallsInv
    <3> QED
      BY <3>1, <3>2, <3>3, ZenonT(120) DEF TaskType
  <2> QED
    BY <1>1, <2>1, <2>2, TypeParts DEF Checkout, Freed
<1>2. ASSUME NEW t \in Tasks, PoolExhausted(t) \/ BeginBusy(t) \/ BeginFails(t) \/ GiveUp(t)
                              \/ \E why \in {"busy", "StorageError"} : StatementFails(t, why)
      PROVE  TypeOK'
  <2>1. \E pc \in Pcs : \/ Goto(t, pc)
                        \/ \E why \in {"busy", "StorageError"} : Ends(t, pc, why)
    BY <1>2 DEF PoolExhausted, BeginBusy, BeginFails, GiveUp, StatementFails, Pcs
  <2>2. UNCHANGED <<store, lock, conn>>
    BY <1>2 DEF PoolExhausted, BeginBusy, BeginFails, GiveUp, StatementFails
  <2> QED
    BY <2>1, <2>2, TypeMove, TypeParts
<1>3. ASSUME NEW t \in Tasks, Begin(t) \/ Commit(t) \/ Rollback(t) \/ QueryOn(t) \/ QueryOff(t)
      PROVE  TypeOK'
  <2>1. task[t].conn \in Conns
    BY <1>3, Holds DEF Begin, Commit, Rollback, QueryOn, QueryOff, At
  <2>2. \E pc \in Pcs : Goto(t, pc) \/ Ends(t, pc, "ok")
    BY <1>3 DEF Begin, Commit, Rollback, QueryOn, QueryOff, AfterRollback, Pcs
  <2>3. \/ BeginTakes(t) \/ CommitTakes(t) \/ RollbackTakes(task[t].conn)
        \/ \E on \in BOOLEAN : QueryOnly(t, on)
    BY <1>3 DEF Begin, Commit, Rollback, QueryOn, QueryOff, QueryFlag
  <2> QED
    BY <2>1, <2>2, <2>3, TypeStatement, TypeMove, TypeParts
<1>4. ASSUME NEW t \in Tasks, BeginSpurious(t)
      PROVE  TypeOK'
  <2>1. conn' \in [Conns -> ConnType]
    BY <1>4 DEF BeginSpurious, ConnType
  <2>2. Goto(t, "work") /\ "work" \in Pcs
    BY <1>4 DEF BeginSpurious, Pcs
  <2> QED
    BY <1>4, <2>1, <2>2, TypeMove, TypeParts DEF BeginSpurious
<1>5. ASSUME NEW t \in Tasks, Write(t)
      PROVE  TypeOK'
  <2>1. task[t].conn \in Conns /\ WriteTakes(t)
    BY <1>5, Holds DEF Write, At
  <2>2. task' \in [Tasks -> TaskType]
    <3>1. task[t].stmt + 1 \in Stmts => [task EXCEPT ![t].stmt = @ + 1] \in [Tasks -> TaskType]
      BY DEF TaskType
    <3>2. [task EXCEPT ![t].pc = "commit"] \in [Tasks -> TaskType]
      BY DEF TaskType, Pcs
    <3> QED
      BY <1>5, <3>1, <3>2 DEF Write
  <2> QED
    BY <1>5, <2>1, <2>2, TypeStatement, TypeParts DEF Write
<1>6. ASSUME NEW t \in Tasks, Retry(t)
      PROVE  TypeOK'
  <2>1. task[t].attempt \in 1..MaxAttempts /\ task[t].attempt < MaxAttempts /\ 1 \in Stmts
    BY <1>6 DEF Retry, MayRetry, TaskType, Stmts
  <2>2. task[t].attempt + 1 \in 1..MaxAttempts /\ "begin" \in Pcs
    BY <2>1 DEF Pcs
  <2>3. task' \in [Tasks -> TaskType]
    BY <1>6, <2>1, <2>2 DEF Retry, NextAttempt, TaskType
  <2> QED
    BY <1>6, <2>3, TypeParts DEF Retry
<1>7. ASSUME NEW t \in Tasks, Fetch(t) \/ FetchFails(t)
      PROVE  TypeOK'
  <2>1. task[t].conn \in Conns
    BY <1>7, Holds DEF Fetch, FetchFails, At
  <2>2. task' \in [Tasks -> TaskType]
    BY <1>7 DEF Fetch, FetchFails, Ends, TaskType, Pcs
  <2>3. CASE Fetch(t)
    BY <2>1, <2>2, <2>3, WithType, TypeParts DEF Fetch
  <2>4. CASE FetchFails(t)
    <3>1. store' = store
      BY <2>4 DEF FetchFails, Attempt
    <3> QED
      BY <2>2, <2>4, <3>1, TypeParts DEF FetchFails, Ends
  <2> QED
    BY <1>7, <2>3, <2>4
<1>8. ASSUME NEW t \in Tasks, Release(t)
      PROVE  TypeOK'
  <2>1. task[t].conn \in Conns /\ RollbackTakes(task[t].conn)
    BY <1>8, Holds DEF Release, At
  <2>2. task' \in [Tasks -> TaskType]
    <3>1. "done" \in Pcs /\ task' = [task EXCEPT ![t].pc = "done", ![t].conn = NoConn]
      BY <1>8 DEF Release, Pcs
    <3>2. task \in [Tasks -> TaskType]
      OBVIOUS
    <3> HIDE DEF CallsInv
    <3> QED
      BY <3>1, <3>2, ZenonT(120) DEF TaskType
  <2> QED
    BY <1>8, <2>1, <2>2, TypeStatement, TypeParts DEF Release
<1>9. ASSUME NEW t \in Tasks, Cancel(t)
      PROVE  TypeOK'
  <2>1. AfterCancel(task[t].pc) \in Pcs
    BY DEF AfterCancel, Pcs
  <2>2. task' \in [Tasks -> TaskType] /\ seen' \in [Tasks -> Stores]
    BY <1>9, <2>1, TypeMove DEF Cancel
  <2>3. CASE UNCHANGED <<store, lock, conn>>
    BY <2>2, <2>3, TypeParts
  <2>4. CASE ~UNCHANGED <<store, lock, conn>>
    <3>1. task[t].conn \in Conns
      BY <1>9, <2>4, Holds DEF Cancel, At
    <3>2. \/ BeginTakes(t) \/ WriteTakes(t) \/ CommitTakes(t) \/ RollbackTakes(task[t].conn)
          \/ \E on \in BOOLEAN : QueryOnly(t, on)
      BY <1>9, <2>4 DEF Cancel, QueryFlag
    <3> QED
      BY <2>2, <3>1, <3>2, TypeStatement, TypeParts
  <2> QED
    BY <2>3, <2>4
<1>10. CASE OutsiderLocks \/ OutsiderUnlocks
  BY <1>10, TypeParts DEF OutsiderLocks, OutsiderUnlocks
<1>11. ASSUME NEW c \in Conns, NEW t \in Writers, Stray(c, t)
       PROVE  TypeOK'
  <2>1. {<<t, 1>>} \in SUBSET (Tasks \X Stmts)
    BY DEF Tasks, Stmts
  <2>2. conn' \in [Conns -> ConnType]
    BY <1>11, <2>1, ZenonT(120) DEF Stray, ConnType
  <2> QED
    BY <1>11, <2>2, TypeParts DEF Stray
<1>12. CASE UNCHANGED vars
  BY <1>12, TypeParts DEF vars
<1> QED
  BY <1>1, <1>2, <1>3, <1>4, <1>5, <1>6, <1>7, <1>8, <1>9, <1>10, <1>11, <1>12
     DEF Next, CallStep, TransactionStep, QueryStep

-----------------------------------------------------------------------------
(* The inductive invariant *)

Kind(t) ==
  /\ (task[t].conn = NoConn) = (task[t].pc \in {"start", "done"})
  /\ task[t].pc \in {"begin", "work", "commit", "rollback", "backoff"} => t \in Writers
  /\ task[t].pc \in {"queryOn", "fetch", "queryOff"} => t \in Readers

(* A step of one call on its own connection leaves the others as they were. *)
LEMMA Frame ==
  ASSUME CallsInv, TypeOK', NEW t \in Tasks,
         \A u \in Tasks : u # t => task'[u] = task[u] /\ store'[u] = store[u],
         \A c \in Conns : c # task[t].conn /\ c # task'[t].conn => conn'[c] = conn[c],
         task'[t].conn \in {NoConn, task[t].conn} \/ task'[t].conn \notin InUse,
         Kind(t)', Attempt(t)', Stored(t)'
  PROVE  CallsInv'
<1>1. \A u, v \in Tasks : task'[u].conn = task'[v].conn => u = v \/ task'[v].conn = NoConn
  BY DEF CallsInv, Borrowed, InUse
<1>2. ASSUME NEW u \in Tasks, u # t
      PROVE  Kind(u)' /\ Attempt(u)' /\ Stored(u)'
  <2>1. task'[u] = task[u] /\ store'[u] = store[u] /\ Kind(u) /\ Attempt(u) /\ Stored(u)
    BY <1>2 DEF CallsInv, Borrowed, Kind
  <2>2. Kind(u)' /\ Stored(u)'
    <3> HIDE DEF CallsInv
    <3>1. Kind(u)'
      BY <2>1, Zenon DEF Kind
    <3>2. Stored(u)'
      BY <2>1, Zenon DEF Stored, At
    <3> QED
      BY <3>1, <3>2
  <2>3. CASE task[u].pc \in {"start", "done"}
    BY <2>1, <2>2, <2>3 DEF Attempt, At
  <2>4. CASE task[u].pc \notin {"start", "done"}
    <3>1. task[u].conn \in Conns
      BY <2>4, Holds
    <3>2. task[u].conn # task[t].conn /\ task[u].conn # task'[t].conn
      BY <1>2, <3>1, NoConnAssumption DEF CallsInv, Borrowed, InUse
    <3>3. Mine(u)' = Mine(u)
      BY <2>1, <3>1, <3>2, Zenon DEF Mine
    <3> QED
      BY <2>1, <2>2, <3>3 DEF Attempt, At
  <2> QED
    BY <2>2, <2>3, <2>4
<1>3. \A u \in Tasks : Kind(u)' /\ Attempt(u)' /\ Stored(u)'
  BY <1>2
<1> QED
  BY <1>1, <1>3 DEF CallsInv, Borrowed, Kind

(* What holds of a call before its step.                                   *)
LEMMA Own ==
  ASSUME CallsInv, NEW t \in Tasks
  PROVE  /\ Kind(t) /\ Attempt(t) /\ Stored(t)
         /\ task \in [Tasks -> TaskType] /\ conn \in [Conns -> ConnType] /\ store \in Stores
         /\ task[t] \in TaskType
  BY TypeNow DEF CallsInv, Borrowed, Kind

LEMMA CallsInvInit == Init => CallsInv
<1> SUFFICES ASSUME Init PROVE CallsInv
  OBVIOUS
<1>1. \A t \in Tasks : /\ task[t].conn = NoConn /\ task[t].pc = "start" /\ task[t].stmt = 1
                       /\ store[t][1] = 0 /\ store[t][2] = 0
  BY DEF Init, Empty, Stmts
<1> QED
  BY <1>1, TypeInit DEF CallsInv, Borrowed, Attempt, Stored, At

LEMMA CheckoutStep ==
  ASSUME CallsInv, TypeOK', NEW t \in Tasks, NEW c \in Conns, Checkout(t, c)
  PROVE  CallsInv'
<1>1. task[t].pc = "start" /\ task[t].conn = NoConn /\ c \notin InUse /\ task[t] \in TaskType
      /\ Stored(t) /\ conn \in [Conns -> ConnType] /\ task \in [Tasks -> TaskType] /\ c # NoConn
      /\ task[t].stmt = 1
  BY Own, NoConnAssumption DEF Checkout, At, Kind, Attempt
<1>2. conn' = [conn EXCEPT ![c] = Clean] /\ store' = store
  BY DEF Checkout, Reset
<1>3. /\ task'[t] = [task[t] EXCEPT !.conn = c, !.pc = IF t \in Writers THEN "begin" ELSE "queryOn"]
      /\ \A u \in Tasks : u # t => task'[u] = task[u]
  BY <1>1 DEF Checkout
<1>4. task'[t].conn = c /\ task'[t].pc = (IF t \in Writers THEN "begin" ELSE "queryOn")
      /\ task'[t].stmt = task[t].stmt
  BY <1>1, <1>3 DEF TaskType
<1>5. Kind(t)' /\ Stored(t)'
  BY <1>1, <1>2, <1>4 DEF Kind, Stored, At, Tasks
<1>6. Attempt(t)'
  <2>1. Mine(t)' = Clean
    BY <1>1, <1>2, <1>4 DEF Mine
  <2> QED
    BY <1>1, <1>4, <2>1 DEF Attempt, At, Clean
<1> QED
  BY <1>1, <1>2, <1>3, <1>4, <1>5, <1>6, Frame

LEMMA WrittenSoFar ==
  ASSUME NEW t
  PROVE  /\ Before(t, 1) = {} /\ Before(t, 2) = Before(t, 1) \cup {<<t, 1>>}
         /\ AllOf(t) = Before(t, 2) \cup {<<t, 2>>}
  BY DEF Before, AllOf, Stmts

(* Moves: the fields of the call that moves, and the other calls.          *)
LEMMA Moves ==
  ASSUME CallsInv, NEW t \in Tasks, NEW pc, Goto(t, pc)
  PROVE  /\ \A u \in Tasks : u # t => task'[u] = task[u]
         /\ task'[t].pc = pc /\ task'[t].conn = task[t].conn /\ task'[t].stmt = task[t].stmt
         /\ task'[t].why = task[t].why
<1>1. task \in [Tasks -> TaskType] /\ task[t] \in TaskType
  BY Own
<1> QED
  BY <1>1 DEF Goto, TaskType

LEMMA MovesToEnd ==
  ASSUME CallsInv, NEW t \in Tasks, NEW pc, NEW why, Ends(t, pc, why)
  PROVE  /\ \A u \in Tasks : u # t => task'[u] = task[u]
         /\ task'[t].pc = pc /\ task'[t].conn = task[t].conn /\ task'[t].stmt = task[t].stmt
         /\ task'[t].why = why
<1>1. task \in [Tasks -> TaskType] /\ task[t] \in TaskType
  BY Own
<1> QED
  BY <1>1 DEF Ends, TaskType

(* A statement that does not commit: the store and the other connections.  *)
LEMMA Uncommitted ==
  ASSUME CallsInv, NEW t \in Tasks,
         \/ BeginTakes(t) \/ WriteTakes(t) \/ RollbackTakes(task[t].conn)
         \/ (\E on \in BOOLEAN : QueryOnly(t, on)) \/ UNCHANGED <<store, lock, conn>>
  PROVE  store' = store /\ \A c \in Conns : c # task[t].conn => conn'[c] = conn[c]
<1>1. conn \in [Conns -> ConnType]
  BY Own
<1> QED
  BY <1>1 DEF BeginTakes, WriteTakes, RollbackTakes, QueryOnly

(* A call that ends, or waits, without a commit. *)
LEMMA WaitingStep ==
  ASSUME CallsInv, TypeOK', NEW t \in Tasks,
         PoolExhausted(t) \/ BeginBusy(t) \/ BeginFails(t) \/ GiveUp(t)
         \/ \E why \in {"busy", "StorageError"} : StatementFails(t, why)
  PROVE  CallsInv'
<1> USE Own DEF Kind, Attempt, Stored, At
<1>1. UNCHANGED <<store, lock, conn>>
  BY DEF PoolExhausted, BeginBusy, BeginFails, GiveUp, StatementFails
<1>2. CASE PoolExhausted(t)
  <2>1. task'[t].pc = "done" /\ task'[t].conn = NoConn /\ task'[t].why = "StorageError"
        /\ task'[t].stmt = task[t].stmt /\ \A u \in Tasks : u # t => task'[u] = task[u]
    BY <1>2, MovesToEnd DEF PoolExhausted
  <2>2. Kind(t)' /\ Attempt(t)' /\ Stored(t)'
    BY <1>1, <1>2, <2>1 DEF PoolExhausted
  <2> QED
    BY <1>1, <2>1, <2>2, Frame
<1>3. CASE BeginBusy(t)
  <2>1. task'[t].pc = "backoff" /\ task'[t].conn = task[t].conn /\ task'[t].why = task[t].why
        /\ task'[t].stmt = task[t].stmt /\ \A u \in Tasks : u # t => task'[u] = task[u]
    BY <1>3, Moves DEF BeginBusy
  <2>2. Mine(t)' = Mine(t) /\ task[t].pc = "begin"
    BY <1>1, <1>3, <2>1 DEF BeginBusy, Mine
  <2>3. Kind(t)' /\ Attempt(t)' /\ Stored(t)'
    BY <1>1, <2>1, <2>2
  <2> QED
    BY <1>1, <2>1, <2>3, Frame
<1>4. CASE BeginFails(t) \/ GiveUp(t)
  <2>1. task'[t].pc = "release" /\ task'[t].conn = task[t].conn /\ task'[t].why = "StorageError"
        /\ task'[t].stmt = task[t].stmt /\ \A u \in Tasks : u # t => task'[u] = task[u]
    BY <1>4, MovesToEnd DEF BeginFails, GiveUp
  <2>2. task[t].pc \in {"begin", "backoff"}
    BY <1>4 DEF BeginFails, GiveUp
  <2>3. Kind(t)' /\ Attempt(t)' /\ Stored(t)'
    BY <1>1, <2>1, <2>2
  <2> QED
    BY <1>1, <2>1, <2>3, Frame
<1>5. ASSUME NEW why \in {"busy", "StorageError"}, StatementFails(t, why)
      PROVE  CallsInv'
  <2>1. task'[t].pc = "rollback" /\ task'[t].conn = task[t].conn /\ task'[t].why = why
        /\ task'[t].stmt = task[t].stmt /\ \A u \in Tasks : u # t => task'[u] = task[u]
    BY <1>5, MovesToEnd DEF StatementFails
  <2>2. Mine(t)' = Mine(t) /\ task[t].pc \in {"work", "commit"}
    BY <1>1, <1>5, <2>1 DEF StatementFails, Mine
  <2>3. Kind(t)' /\ Attempt(t)' /\ Stored(t)'
    BY <1>1, <2>1, <2>2
  <2> QED
    BY <1>1, <2>1, <2>3, Frame
<1> QED
  BY <1>2, <1>3, <1>4, <1>5

(* BEGIN, with the lock or without: nothing is written yet. *)
LEMMA BeginStep ==
  ASSUME CallsInv, TypeOK', NEW t \in Tasks, Begin(t) \/ BeginSpurious(t)
  PROVE  CallsInv'
<1> USE Own DEF Kind, Attempt, Stored, At
<1>1. task'[t].pc = "work" /\ task'[t].conn = task[t].conn /\ task'[t].why = task[t].why
      /\ task'[t].stmt = task[t].stmt /\ \A u \in Tasks : u # t => task'[u] = task[u]
  BY Moves DEF Begin, BeginSpurious
<1>2. /\ task[t].pc = "begin" /\ task[t].conn \in Conns /\ Mine(t) = Clean
      /\ store' = store /\ conn' = [conn EXCEPT ![task[t].conn].txn = TRUE]
  BY Holds DEF Begin, BeginSpurious, BeginTakes
<1>3. Mine(t)'.pend = {} /\ ~Mine(t)'.queryOnly
  BY <1>1, <1>2 DEF Mine, Clean, ConnType
<1>4. Kind(t)' /\ Stored(t)'
  BY <1>1, <1>2
<1>5. Attempt(t)'
  BY <1>1, <1>2, <1>3, WrittenSoFar
<1>6. \A c \in Conns : c # task[t].conn => conn'[c] = conn[c]
  BY <1>2
<1> QED
  BY <1>1, <1>2, <1>4, <1>5, <1>6, Frame

LEMMA WriteStep ==
  ASSUME CallsInv, TypeOK', NEW t \in Tasks, Write(t)
  PROVE  CallsInv'
<1> USE Own DEF Kind, Attempt, Stored, At
<1>1. /\ task[t].pc = "work" /\ task[t].conn \in Conns /\ task[t].stmt \in {1, 2}
      /\ ~Mine(t).queryOnly /\ Mine(t).pend = Before(t, task[t].stmt)
  BY Holds DEF Write, TaskType, Stmts
<1>2. store' = store /\ \A c \in Conns : c # task[t].conn => conn'[c] = conn[c]
  BY Uncommitted DEF Write
<1>3. /\ task'[t].conn = task[t].conn /\ task'[t].why = task[t].why
      /\ \A u \in Tasks : u # t => task'[u] = task[u]
      /\ \/ task[t].stmt = 1 /\ task'[t].pc = "work" /\ task'[t].stmt = 2
         \/ task[t].stmt = 2 /\ task'[t].pc = "commit"
  <2>1. (task[t].stmt \in {s \in Stmts : s + 1 \in Stmts}) = (task[t].stmt = 1)
    BY <1>1 DEF Stmts
  <2> QED
    BY <1>1, <2>1 DEF Write, TaskType
<1>4. Mine(t)'.pend = Mine(t).pend \cup {<<t, task[t].stmt>>} /\ ~Mine(t)'.queryOnly
  BY <1>1, <1>3 DEF Write, WriteTakes, Mine, ConnType
<1>5. Attempt(t)'
  BY <1>1, <1>3, <1>4, WrittenSoFar
<1>6. Kind(t)' /\ Stored(t)'
  BY <1>1, <1>2, <1>3
<1> QED
  BY <1>1, <1>2, <1>3, <1>5, <1>6, Frame

(* A commit adds the work of its call to the store, once, and nothing else. *)
LEMMA Committed ==
  ASSUME CallsInv, NEW t \in Tasks, task[t].pc = "commit", CommitTakes(t)
  PROVE  /\ \A u \in Tasks : u # t => store'[u] = store[u]
         /\ store[t][1] = 0 /\ store[t][2] = 0 /\ store'[t][1] = 1 /\ store'[t][2] = 1
         /\ t \in Writers /\ task[t].conn \in Conns
         /\ \A c \in Conns : c # task[t].conn => conn'[c] = conn[c]
         /\ conn'[task[t].conn].queryOnly = FALSE
<1>1. /\ task[t].conn \in Conns /\ conn[task[t].conn].pend = AllOf(t) /\ store \in Stores
      /\ store[t][1] = 0 /\ store[t][2] = 0 /\ t \in Writers /\ ~Mine(t).queryOnly
      /\ conn \in [Conns -> ConnType]
  BY Own, Holds DEF Attempt, Stored, Kind, At, Mine
<1>2. store' = With(store, task[t].conn)
  BY DEF CommitTakes
<1>3. \A c \in Conns : c # task[t].conn => conn'[c] = conn[c]
  BY <1>1 DEF CommitTakes
<1>4. conn'[task[t].conn].queryOnly = FALSE
  BY <1>1 DEF CommitTakes, Mine, ConnType
<1> QED
  BY <1>1, <1>2, <1>3, <1>4, WithWork

LEMMA CommitStep ==
  ASSUME CallsInv, TypeOK', NEW t \in Tasks, Commit(t)
  PROVE  CallsInv'
<1>1. task[t].pc = "commit" /\ CommitTakes(t)
  BY DEF Commit, At
<1>2. task'[t].pc = "release" /\ task'[t].conn = task[t].conn /\ task'[t].why = "ok"
      /\ task'[t].stmt = task[t].stmt /\ \A u \in Tasks : u # t => task'[u] = task[u]
  BY MovesToEnd DEF Commit
<1>3. t \in Writers /\ t \notin Readers /\ store'[t][1] = 1 /\ store'[t][2] = 1
      /\ task[t].conn # NoConn
  BY <1>1, Committed, CallsAssumption, NoConnAssumption
<1>4. Kind(t)' /\ Attempt(t)' /\ Stored(t)'
  BY <1>2, <1>3 DEF Kind, Attempt, Stored, At
<1> QED
  BY <1>1, <1>2, <1>4, Committed, Frame

LEMMA RollbackStep ==
  ASSUME CallsInv, TypeOK', NEW t \in Tasks, Rollback(t)
  PROVE  CallsInv'
<1> USE Own DEF Kind, Attempt, Stored, At
<1>1. /\ task[t].pc = "rollback" /\ task[t].conn \in Conns /\ ~Mine(t).queryOnly
      /\ RollbackTakes(task[t].conn) /\ task[t].why \in {"busy", "StorageError", "Cancelled"}
  BY Holds DEF Rollback
<1>2. task'[t].pc = AfterRollback(task[t].why) /\ task'[t].conn = task[t].conn
      /\ task'[t].why = task[t].why
      /\ task'[t].stmt = task[t].stmt /\ \A u \in Tasks : u # t => task'[u] = task[u]
  BY Moves DEF Rollback
<1>3. store' = store /\ \A c \in Conns : c # task[t].conn => conn'[c] = conn[c]
  BY <1>1, Uncommitted
<1>4. Mine(t)' = Clean
  <2>1. conn[task[t].conn] \in ConnType /\ conn[task[t].conn].queryOnly = FALSE
    BY <1>1 DEF Mine, ConnType
  <2>2. conn'[task[t].conn] = [conn[task[t].conn] EXCEPT !.txn = FALSE, !.pend = {}]
    BY <1>1 DEF RollbackTakes
  <2>3. conn'[task[t].conn] = Clean
    BY <2>1, <2>2 DEF ConnType, Clean
  <2> QED
    BY <1>2, <2>3 DEF Mine
<1>5. Kind(t)' /\ Stored(t)'
  BY <1>1, <1>2, <1>3 DEF AfterRollback
<1>6. Attempt(t)'
  BY <1>1, <1>2, <1>4 DEF AfterRollback
<1> QED
  BY <1>2, <1>3, <1>5, <1>6, Frame

LEMMA RetryStep ==
  ASSUME CallsInv, TypeOK', NEW t \in Tasks, Retry(t)
  PROVE  CallsInv'
<1> USE Own DEF Kind, Attempt, Stored, At
<1>1. task[t].pc = "backoff" /\ Mine(t) = Clean /\ UNCHANGED <<store, lock, conn>>
  BY DEF Retry
<1>2. task'[t].pc = "begin" /\ task'[t].conn = task[t].conn /\ task'[t].stmt = 1
      /\ task'[t].why = task[t].why /\ \A u \in Tasks : u # t => task'[u] = task[u]
  BY DEF Retry, NextAttempt, TaskType
<1>3. Mine(t)' = Clean
  BY <1>1, <1>2 DEF Mine
<1>4. Kind(t)' /\ Attempt(t)' /\ Stored(t)'
  BY <1>1, <1>2, <1>3
<1> QED
  BY <1>1, <1>2, <1>4, Frame

LEMMA QueryInvStep ==
  ASSUME CallsInv, TypeOK', NEW t \in Tasks, QueryStep(t)
  PROVE  CallsInv'
<1> USE Own DEF Kind, Attempt, Stored, At
<1>1. task[t].pc \in {"queryOn", "fetch", "queryOff"} /\ task[t].conn \in Conns /\ t \in Readers
  BY Holds DEF QueryStep, QueryOn, Fetch, FetchFails, QueryOff
<1>2. store' = store /\ \A c \in Conns : c # task[t].conn => conn'[c] = conn[c]
  <2>1. CASE QueryOn(t) \/ QueryOff(t)
    BY <2>1, Uncommitted DEF QueryOn, QueryOff, QueryFlag
  <2>2. CASE Fetch(t) \/ FetchFails(t)
    BY <2>2 DEF Fetch, FetchFails
  <2> QED
    BY <2>1, <2>2 DEF QueryStep
<1>3. task'[t].conn = task[t].conn /\ task'[t].stmt = task[t].stmt
      /\ \A u \in Tasks : u # t => task'[u] = task[u]
  <2>1. CASE QueryOn(t) \/ QueryOff(t)
    BY <2>1, Moves DEF QueryOn, QueryOff
  <2>2. CASE Fetch(t)
    BY <2>2 DEF Fetch, TaskType
  <2>3. CASE FetchFails(t)
    BY <2>3, MovesToEnd DEF FetchFails
  <2> QED
    BY <2>1, <2>2, <2>3 DEF QueryStep
<1>4. \/ /\ task[t].pc = "queryOn" /\ task'[t].pc = "fetch" /\ Mine(t) = Clean
         /\ Mine(t)'.queryOnly /\ Mine(t)'.pend = {}
      \/ task[t].pc = "fetch" /\ task'[t].pc = "queryOff" /\ task'[t].why \in {"ok", "StorageError"}
      \/ task[t].pc = "queryOff" /\ task'[t].pc = "release" /\ task'[t].why = task[t].why
  <2>1. CASE QueryOn(t)
    <3>1. task'[t].pc = "fetch" /\ task[t].pc = "queryOn"
      BY <2>1, Moves DEF QueryOn
    <3> QED
      BY <1>1, <1>3, <2>1, <3>1 DEF QueryOn, QueryOnly, QueryFlag, Mine, ConnType, Clean
  <2>2. CASE Fetch(t)
    BY <2>2 DEF Fetch, TaskType
  <2>3. CASE FetchFails(t)
    BY <2>3, MovesToEnd DEF FetchFails
  <2>4. CASE QueryOff(t)
    BY <2>4, Moves DEF QueryOff
  <2> QED
    BY <2>1, <2>2, <2>3, <2>4 DEF QueryStep
<1>5. Kind(t)' /\ Attempt(t)' /\ Stored(t)'
  BY <1>1, <1>2, <1>3, <1>4, CallsAssumption, NoConnAssumption
<1> QED
  BY <1>2, <1>3, <1>5, Frame

LEMMA ReleaseStep ==
  ASSUME CallsInv, TypeOK', NEW t \in Tasks, Release(t)
  PROVE  CallsInv'
<1> USE Own DEF Kind, Attempt, Stored, At
<1>1. task[t].pc = "release" /\ store' = store
      /\ \A c \in Conns : c # task[t].conn => conn'[c] = conn[c]
  BY Uncommitted DEF Release
<1>2. task'[t].pc = "done" /\ task'[t].conn = NoConn /\ task'[t].why = task[t].why
      /\ \A u \in Tasks : u # t => task'[u] = task[u]
  BY DEF Release, TaskType
<1>3. Kind(t)' /\ Attempt(t)' /\ Stored(t)'
  BY <1>1, <1>2
<1> QED
  BY <1>1, <1>2, <1>3, Frame

LEMMA CancelStep ==
  ASSUME CallsInv, TypeOK', NEW t \in Tasks, Cancel(t)
  PROVE  CallsInv'
<1> USE Own DEF Kind, Attempt, Stored, At
<1>1. task'[t].pc = AfterCancel(task[t].pc) /\ task'[t].conn = task[t].conn
      /\ task'[t].why = "Cancelled" /\ task'[t].stmt = task[t].stmt
      /\ \A u \in Tasks : u # t => task'[u] = task[u]
  BY MovesToEnd DEF Cancel
<1>2. CASE task[t].pc = "commit" /\ CommitTakes(t)
  <2>1. t \in Writers /\ t \notin Readers /\ store'[t][1] = 1 /\ store'[t][2] = 1
        /\ task[t].conn # NoConn /\ task'[t].pc = "rollback"
    BY <1>1, <1>2, Committed, CallsAssumption, NoConnAssumption DEF AfterCancel
  <2>2. ~Mine(t)'.queryOnly
    BY <1>1, <1>2, Committed DEF Mine
  <2>3. Kind(t)' /\ Attempt(t)' /\ Stored(t)'
    BY <1>1, <2>1, <2>2
  <2> QED
    BY <1>1, <1>2, <2>3, Committed, Frame
<1>3. CASE ~(task[t].pc = "commit" /\ CommitTakes(t))
  <2>1. store' = store /\ \A c \in Conns : c # task[t].conn => conn'[c] = conn[c]
    <3>1. \/ BeginTakes(t) \/ WriteTakes(t) \/ RollbackTakes(task[t].conn)
          \/ (\E on \in BOOLEAN : QueryOnly(t, on)) \/ UNCHANGED <<store, lock, conn>>
      BY <1>3 DEF Cancel, QueryFlag
    <3> QED
      BY <3>1, Uncommitted
  <2>2. Kind(t)' /\ Stored(t)'
    BY <1>1, <2>1 DEF AfterCancel, Cancel, TaskType, Pcs
  <2>3. Attempt(t)'
    <3>1. CASE task[t].pc \in {"work", "commit"}
      <4>1. task[t].conn \in Conns /\ ~Mine(t).queryOnly
        BY <3>1, Holds
      <4>2. WriteTakes(t) \/ UNCHANGED <<store, lock, conn>>
        BY <1>3, <3>1 DEF Cancel
      <4>3. ~Mine(t)'.queryOnly
        BY <1>1, <4>1, <4>2 DEF WriteTakes, Mine, ConnType
      <4> QED
        BY <1>1, <3>1, <4>3 DEF AfterCancel
    <3>2. CASE task[t].pc \notin {"work", "commit"}
      <4>1. AfterCancel(task[t].pc) \in {"done", "queryOff", "release"}
        BY <3>2 DEF AfterCancel
      <4> QED
        BY <1>1, <4>1
    <3> QED
      BY <3>1, <3>2
  <2> QED
    BY <1>1, <2>1, <2>2, <2>3, Frame
<1> QED
  BY <1>2, <1>3

(* What happens around the pool touches no connection in use.              *)
LEMMA OutsideStep ==
  ASSUME CallsInv, TypeOK', OutsiderLocks \/ OutsiderUnlocks \/ UNCHANGED vars
                            \/ \E c \in Conns, t \in Writers : Stray(c, t)
  PROVE  CallsInv'
<1>1. task' = task /\ store' = store /\ \A c \in Conns : c \in InUse => conn'[c] = conn[c]
  BY Own, TypeNow DEF OutsiderLocks, OutsiderUnlocks, Stray, vars, CallsInv
<1>2. ASSUME NEW t \in Tasks
      PROVE  Kind(t)' /\ Attempt(t)' /\ Stored(t)'
  <2>1. Kind(t)' /\ Stored(t)'
    BY <1>1, Own DEF Kind, Stored, At
  <2>2. CASE task[t].pc \in {"start", "done"}
    BY <1>1, <2>1, <2>2, Own DEF Attempt, At
  <2>3. CASE task[t].pc \notin {"start", "done"}
    <3>1. task[t].conn \in Conns /\ task[t].conn \in InUse
      BY <2>3, Holds DEF InUse
    <3>2. Mine(t)' = Mine(t)
      BY <1>1, <3>1 DEF Mine
    <3> QED
      BY <1>1, <2>1, <3>2, Own DEF Attempt, At
  <2> QED
    BY <2>2, <2>3
<1>3. \A t, u \in Tasks : task'[u].conn = task'[t].conn => u = t \/ task'[t].conn = NoConn
  BY <1>1 DEF CallsInv, Borrowed
<1> QED
  BY <1>2, <1>3 DEF CallsInv, Borrowed, Kind

LEMMA CallsInvStep ==
  ASSUME CallsInv, [Next]_vars
  PROVE  CallsInv'
<1>0. TypeOK'
  BY TypeStep
<1>1. ASSUME NEW t \in Tasks, CallStep(t) \/ Cancel(t)
      PROVE  CallsInv'
  <2>1. CASE TransactionStep(t)
    BY <1>0, <2>1, WaitingStep, BeginStep, WriteStep, CommitStep, RollbackStep, RetryStep
       DEF TransactionStep
  <2>2. CASE \E c \in Conns : Checkout(t, c)
    BY <1>0, <2>2, CheckoutStep
  <2>3. CASE PoolExhausted(t) \/ QueryStep(t) \/ Release(t) \/ Cancel(t)
    BY <1>0, <2>3, WaitingStep, QueryInvStep, ReleaseStep, CancelStep
  <2> QED
    BY <1>1, <2>1, <2>2, <2>3 DEF CallStep
<1> QED
  BY <1>0, <1>1, OutsideStep DEF Next

(* Every reachable state satisfies the inductive invariant: one user per    *)
(* connection, and the work of a call written, committed and reported in    *)
(* that order (TransactionRunner.run, QueryRunner.query, checkout hygiene). *)
THEOREM CallsInductive == Spec => []CallsInv
<1> QED
  BY CallsInvInit, CallsInvStep, PTL DEF Spec

(* Every variable keeps its type, the attempts of a call within the bound   *)
(* of the retry loop (BUSY_RETRY_MAX_ATTEMPTS).                             *)
THEOREM TypeCorrect == Spec => []TypeOK
<1>1. CallsInv => TypeOK
  BY DEF CallsInv
<1> QED
  BY <1>1, CallsInductive, PTL

(* Attempts and queries start on a clean connection: _checked_out resets    *)
(* what its last user left, and run() rolls back before it tries again.     *)
THEOREM CleanAttempts == Spec => []AttemptsStartClean
<1>1. CallsInv => AttemptsStartClean
  BY DEF CallsInv, Attempt, AttemptsStartClean
<1> QED
  BY <1>1, CallsInductive, PTL

-----------------------------------------------------------------------------
(* Refinement of AtomicTransactions *)

LEMMA EffectOfEmpty == EffectOf(Empty) = AtomicCalls!NoEffect
  BY DEF EffectOf, Empty, Stmts, AtomicCalls!NoEffect, Tasks, AtomicCalls!Tasks

LEMMA RefineInit ==
  ASSUME Init
  PROVE  AtomicCalls!Init
<1>1. \A t \in Tasks : ~At(t, "done")
  BY DEF Init, At
<1> QED
  BY <1>1, EffectOfEmpty
     DEF Init, AtomicCalls!Init, Outcomes, SeenBy, Tasks, AtomicCalls!Tasks

(* A step that neither commits, nor fetches, nor ends a call is a stutter.  *)
LEMMA RefineStutter ==
  ASSUME CallsInv, store' = store, seen' = seen,
         \A t \in Tasks : \/ task'[t].pc = task[t].pc /\ task'[t].why = task[t].why
                          \/ task[t].pc # "done" /\ task'[t].pc # "done"
  PROVE  UNCHANGED AtomicCalls!vars
<1>1. Outcomes' = Outcomes
  BY DEF Outcomes, At
<1> QED
  BY <1>1 DEF SeenBy, AtomicCalls!vars

LEMMA RefineMove ==
  ASSUME CallsInv, NEW t \in Tasks, store' = store, seen' = seen,
         task[t].pc # "done", task'[t].pc # "done",
         \A u \in Tasks : u # t => task'[u] = task[u]
  PROVE  UNCHANGED AtomicCalls!vars
<1>1. \A u \in Tasks : \/ task'[u].pc = task[u].pc /\ task'[u].why = task[u].why
                       \/ task[u].pc # "done" /\ task'[u].pc # "done"
  OBVIOUS
<1> QED
  BY <1>1, RefineStutter

(* The commit is the instant at which the work of a call takes effect.     *)
LEMMA RefineCommit ==
  ASSUME CallsInv, NEW t \in Tasks, task[t].pc = "commit", CommitTakes(t), seen' = seen,
         task'[t].pc # "done", \A u \in Tasks : u # t => task'[u] = task[u]
  PROVE  AtomicCalls!Next
<1>1. \A u \in Tasks : EffectOf(store')[u] = IF u = t THEN 1 ELSE EffectOf(store)[u]
  BY Committed, ZenonT(120) DEF EffectOf
<1>2. EffectOf(store') = [EffectOf(store) EXCEPT ![t] = 1]
  BY <1>1 DEF EffectOf
<1>3. Outcomes' = Outcomes /\ SeenBy' = SeenBy
  BY DEF Outcomes, SeenBy, At
<1>4. Outcomes[t] = "none" /\ EffectOf(store)[t] = 0 /\ t \in Writers
  BY Committed DEF Outcomes, At, EffectOf
<1> QED
  BY <1>2, <1>3, <1>4 DEF AtomicCalls!Next, AtomicCalls!Apply

(* A fetch on a connection with nothing written sees what is committed.    *)
LEMMA RefineFetch ==
  ASSUME CallsInv, NEW t \in Tasks, Fetch(t)
  PROVE  AtomicCalls!Next
<1>1. t \in Readers /\ task[t].pc = "fetch" /\ conn[task[t].conn].pend = {} /\ store \in Stores
      /\ task \in [Tasks -> TaskType]
  BY Own DEF Fetch, At, Kind, Attempt, Mine
<1>2. seen' = [seen EXCEPT ![t] = store] /\ store' = store
  BY <1>1, WithNothing DEF Fetch
<1>3. SeenBy' = [SeenBy EXCEPT ![t] = EffectOf(store)]
  BY <1>2, TypeNow DEF SeenBy, CallsInv
<1>4. Outcomes' = Outcomes /\ Outcomes[t] = "none"
  BY <1>1 DEF Fetch, Outcomes, At, TaskType
<1> QED
  BY <1>1, <1>2, <1>3, <1>4 DEF AtomicCalls!Next, AtomicCalls!Observe

(* A call that ends says what became of its work.                          *)
LEMMA RefineEnd ==
  ASSUME CallsInv, CallsInv', NEW t \in Tasks, task[t].pc # "done", task'[t].pc = "done",
         store' = store, seen' = seen, \A u \in Tasks : u # t => task'[u] = task[u]
  PROVE  AtomicCalls!Next
<1> DEFINE how == task'[t].why
<1>1. how \in {"ok", "StorageError", "Cancelled"}
      /\ (how = "ok" /\ t \in Writers => store[t][1] = 1 /\ store[t][2] = 1)
      /\ (how = "StorageError" => store[t][1] = 0 /\ store[t][2] = 0)
  BY DEF CallsInv, Stored, At
<1>2. Outcomes' = [Outcomes EXCEPT ![t] = how] /\ Outcomes[t] = "none"
  BY DEF Outcomes, At
<1>3. how = "ok" /\ t \in Writers => EffectOf(store)[t] = 1
  BY <1>1 DEF EffectOf
<1>4. how = "StorageError" => EffectOf(store)[t] = 0
  BY <1>1 DEF EffectOf
<1>5. SeenBy' = SeenBy
  BY DEF SeenBy
<1> HIDE DEF how
<1>6. AtomicCalls!Return(t, how)
  BY <1>2, <1>3, <1>4, <1>5 DEF AtomicCalls!Return
<1> QED
  BY <1>1, <1>6 DEF AtomicCalls!Next, Tasks, AtomicCalls!Tasks

(* Where a call that neither commits, fetches nor ends is before and after. *)
LEMMA RefineWaits ==
  ASSUME CallsInv, NEW t \in Tasks,
         \/ \E c \in Conns : Checkout(t, c)
         \/ Begin(t) \/ BeginBusy(t) \/ BeginSpurious(t) \/ BeginFails(t) \/ Write(t)
         \/ \E why \in {"busy", "StorageError"} : StatementFails(t, why)
         \/ Rollback(t) \/ Retry(t) \/ GiveUp(t) \/ QueryOn(t) \/ FetchFails(t) \/ QueryOff(t)
  PROVE  UNCHANGED AtomicCalls!vars
<1>0. task \in [Tasks -> TaskType] /\ task[t] \in TaskType /\ Attempt(t)
  BY Own
<1>1. seen' = seen
  BY DEF Checkout, Begin, BeginBusy, BeginSpurious, BeginFails, Write, StatementFails, Rollback,
         Retry, GiveUp, QueryOn, FetchFails, QueryOff, Goto, Ends
<1>2. store' = store
  <2>1. CASE FetchFails(t)
    BY <1>0, <2>1 DEF FetchFails, Attempt
  <2>2. CASE Begin(t) \/ Write(t) \/ Rollback(t) \/ QueryOn(t) \/ QueryOff(t)
    BY <2>2, Uncommitted DEF Begin, Write, Rollback, QueryOn, QueryOff, QueryFlag
  <2>3. CASE ~(FetchFails(t) \/ Begin(t) \/ Write(t) \/ Rollback(t) \/ QueryOn(t) \/ QueryOff(t))
    BY <2>3 DEF Checkout, BeginBusy, BeginSpurious, BeginFails, StatementFails, Retry, GiveUp
  <2> QED
    BY <2>1, <2>2, <2>3
<1>3. task[t].pc # "done" /\ task'[t].pc # "done" /\ \A u \in Tasks : u # t => task'[u] = task[u]
  <2>1. CASE \E c \in Conns : Checkout(t, c)
    <3>1. PICK c \in Conns : Checkout(t, c)
      BY <2>1
    <3>2. task' = [task EXCEPT ![t].conn = c, ![t].pc = IF t \in Writers THEN "begin" ELSE "queryOn"]
      BY <3>1 DEF Checkout
    <3>3. task'[t].pc = IF t \in Writers THEN "begin" ELSE "queryOn"
      BY <1>0, <3>2 DEF TaskType
    <3>4. task[t].pc = "start"
      BY <3>1 DEF Checkout, At
    <3> QED
      BY <1>0, <3>2, <3>3, <3>4
  <2>2. CASE Begin(t) \/ BeginBusy(t) \/ BeginSpurious(t) \/ Rollback(t) \/ QueryOn(t) \/ QueryOff(t)
    <3>1. PICK pc \in Pcs \ {"done"} : Goto(t, pc)
      BY <2>2 DEF Begin, BeginBusy, BeginSpurious, Rollback, AfterRollback, QueryOn, QueryOff, Pcs
    <3>2. task[t].pc # "done"
      BY <2>2 DEF Begin, BeginBusy, BeginSpurious, Rollback, QueryOn, QueryOff, At
    <3> QED
      BY <3>1, <3>2, Moves
  <2>3. CASE \/ BeginFails(t) \/ GiveUp(t) \/ FetchFails(t)
             \/ \E why \in {"busy", "StorageError"} : StatementFails(t, why)
    BY <2>3, MovesToEnd DEF BeginFails, GiveUp, FetchFails, StatementFails, At
  <2>4. CASE Write(t) \/ Retry(t)
    BY <1>0, <2>4 DEF Write, Retry, NextAttempt, At, TaskType
  <2> QED
    BY <2>1, <2>2, <2>3, <2>4
<1> QED
  BY <1>1, <1>2, <1>3, RefineMove

LEMMA RefineCancel ==
  ASSUME CallsInv, CallsInv', NEW t \in Tasks, Cancel(t)
  PROVE  [AtomicCalls!Next]_AtomicCalls!vars
<1>1. /\ task'[t].pc = AfterCancel(task[t].pc) /\ seen' = seen /\ task[t].pc # "done"
      /\ \A u \in Tasks : u # t => task'[u] = task[u]
  BY MovesToEnd DEF Cancel, Ends
<1>2. CASE task[t].pc = "commit" /\ CommitTakes(t)
  BY <1>1, <1>2, RefineCommit DEF AfterCancel
<1>3. CASE ~(task[t].pc = "commit" /\ CommitTakes(t))
  <2>1. store' = store
    <3>1. \/ BeginTakes(t) \/ WriteTakes(t) \/ RollbackTakes(task[t].conn)
          \/ (\E on \in BOOLEAN : QueryOnly(t, on)) \/ UNCHANGED <<store, lock, conn>>
      BY <1>3 DEF Cancel, QueryFlag, At
    <3> QED
      BY <3>1, Uncommitted
  <2>2. CASE task'[t].pc = "done"
    BY <1>1, <2>1, <2>2, RefineEnd
  <2>3. CASE task'[t].pc # "done"
    BY <1>1, <2>1, <2>3, RefineMove
  <2> QED
    BY <2>2, <2>3
<1> QED
  BY <1>2, <1>3

LEMMA RefineStep ==
  ASSUME CallsInv, CallsInv', [Next]_vars
  PROVE  [AtomicCalls!Next]_AtomicCalls!vars
<1>1. ASSUME NEW t \in Tasks, CallStep(t)
      PROVE  [AtomicCalls!Next]_AtomicCalls!vars
  <2>1. CASE Commit(t)
    BY <2>1, MovesToEnd, RefineCommit DEF Commit, At, Ends
  <2>2. CASE Fetch(t)
    BY <2>2, RefineFetch
  <2>3. CASE PoolExhausted(t)
    BY <2>3, MovesToEnd, RefineEnd DEF PoolExhausted, At, Ends
  <2>4. CASE Release(t)
    <3>1. task[t].pc = "release" /\ task'[t].pc = "done" /\ seen' = seen
          /\ \A u \in Tasks : u # t => task'[u] = task[u]
      BY <2>4, Own DEF Release, At, TaskType
    <3>2. store' = store
      BY <2>4 DEF Release, RollbackTakes
    <3> QED
      BY <3>1, <3>2, RefineEnd
  <2>5. CASE ~(Commit(t) \/ Fetch(t) \/ PoolExhausted(t) \/ Release(t))
    BY <1>1, <2>5, RefineWaits DEF CallStep, TransactionStep, QueryStep
  <2> QED
    BY <2>1, <2>2, <2>3, <2>4, <2>5
<1>2. CASE OutsiderLocks \/ OutsiderUnlocks \/ UNCHANGED vars
           \/ \E c \in Conns, t \in Writers : Stray(c, t)
  <2>1. store' = store /\ seen' = seen /\ task' = task
    BY <1>2 DEF OutsiderLocks, OutsiderUnlocks, Stray, vars
  <2>2. \A t \in Tasks : task'[t].pc = task[t].pc /\ task'[t].why = task[t].why
    BY <2>1
  <2> QED
    BY <2>1, <2>2, RefineStutter
<1> QED
  BY <1>1, <1>2, RefineCancel DEF Next

(* Every call of the pool is atomic: its statements, retries, rollbacks and *)
(* cancellations implement a call that takes effect at its commit, reports  *)
(* success only after it and failure only without it, and a query sees the  *)
(* effects of one instant (TransactionRunner.run, QueryRunner.query).       *)
THEOREM Refinement == Spec => ImplementsAtomicCalls
<1>1. CallsInv /\ CallsInv' /\ [Next]_vars => [AtomicCalls!Next]_AtomicCalls!vars
  BY RefineStep
<1>2. Init => AtomicCalls!Init
  BY RefineInit
<1> QED
  BY <1>1, <1>2, CallsInductive, PTL DEF Spec, ImplementsAtomicCalls, AtomicCalls!Spec
=============================================================================
