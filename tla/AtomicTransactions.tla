------------------------ MODULE AtomicTransactions -------------------------
(***************************************************************************)
(* What TransactionRunner.run() and QueryRunner.query() promise: a call    *)
(* that writes takes effect at one instant or not at all, a call that      *)
(* reads sees the effects of one instant, and the way a call ends says     *)
(* which: a return means the effect is there, a StorageError that it is    *)
(* not. A cancelled call says nothing.                                     *)
(***************************************************************************)
EXTENDS Naturals

CONSTANTS Writers,  \* calls that run a write transaction
          Readers   \* calls that run a query

VARIABLES effect,   \* how often the work of a call has taken effect
          outcome,  \* how a call ended, "none" while it runs
          seen      \* the effects a query returned

vars == <<effect, outcome, seen>>

Tasks == Writers \cup Readers
NoEffect == [t \in Tasks |-> 0]

Init ==
  /\ effect = NoEffect
  /\ outcome = [t \in Tasks |-> "none"]
  /\ seen = [t \in Tasks |-> NoEffect]

Apply(t) ==
  /\ outcome[t] = "none" /\ effect[t] = 0
  /\ effect' = [effect EXCEPT ![t] = 1]
  /\ UNCHANGED <<outcome, seen>>

Observe(t) ==
  /\ outcome[t] = "none"
  /\ seen' = [seen EXCEPT ![t] = effect]
  /\ UNCHANGED <<effect, outcome>>

Return(t, how) ==
  /\ outcome[t] = "none"
  /\ how = "ok" /\ t \in Writers => effect[t] = 1
  /\ how = "StorageError" => effect[t] = 0
  /\ outcome' = [outcome EXCEPT ![t] = how]
  /\ UNCHANGED <<effect, seen>>

Next ==
  \/ \E t \in Writers : Apply(t)
  \/ \E t \in Readers : Observe(t)
  \/ \E t \in Tasks, how \in {"ok", "StorageError", "Cancelled"} : Return(t, how)

Spec == Init /\ [][Next]_vars
=============================================================================
