----------------------------- MODULE StoreFacade -----------------------------
(***************************************************************************)
(* The KSQLite facade: start() and its rollback, stop() and its drain, and *)
(* the calls that run in between, all tasks of one event loop that may     *)
(* interleave at every await.  What a call does to the data is the subject *)
(* of ChangelogReplica; here a call matters for the clients it opens, uses *)
(* and closes.                                                             *)
(*                                                                         *)
(* A client is <<kind, c>>, c the call that created it.  It is live from   *)
(* its creation until its stop() or close() is called, whether or not that *)
(* succeeds.  A call is made once.                                         *)
(*                                                                         *)
(* HostRules is the set of rules the host follows:                         *)
(*                                                                         *)
(*  one_start    no start() while another one is under way                 *)
(*  await_stop   stop() is not cancelled while it waits for appends        *)
(*  hooks_first  stop() only when no hook and no query is at work          *)
(*  one_hook     no assignment hook while another one is at work           *)
(***************************************************************************)
EXTENDS Naturals, FiniteSets

CONSTANTS Calls,      \* the calls the host makes
          NoCall,
          HostRules   \* the rules the host follows

ASSUME NoCallAssumption == NoCall \notin Calls
ASSUME FiniteCallsAssumption == IsFiniteSet(Calls)
ASSUME HostRulesAssumption ==
  HostRules \subseteq {"one_start", "await_stop", "hooks_first", "one_hook"}

VARIABLES
  run_state,  \* _run_state
  in_flight,  \* _in_flight
  drained,    \* _drained is set
  store,      \* the start() whose clients and services the store holds
  consumer,   \* per start(): _consumer of the PartitionLifecycle it composed
  pc,         \* where each call is
  svc,        \* the start() whose services a call works with
  live        \* the clients that are live

vars == <<run_state, in_flight, drained, store, consumer, pc, svc, live>>

RunStates == {"NEW", "RUNNING", "STOPPING", "CLOSED"}
ClientKinds == {"pool", "producer", "admin", "consumer"}

StartPcs == {"migrate", "producer", "admin"}
UndoPcs == {"undo_admin", "undo_producer", "undo_pool"}
ClosePcs == {"flush", "stop_producer", "stop_consumer", "consumer_stopping",
             "close_admin", "close_pool"}
HookPcs == {"verify", "checkpoint", "consumer", "replay"}
EndPcs == {"started", "returned", "raised", "cancelled"}

Rule(r) == r \in HostRules
At(pcs) == {c \in Calls : pc[c] \in pcs}

Init ==
  /\ run_state = "NEW"
  /\ in_flight = 0
  /\ drained = FALSE
  /\ store = NoCall
  /\ consumer = [c \in Calls |-> NoCall]
  /\ pc = [c \in Calls |-> "new"]
  /\ svc = [c \in Calls |-> NoCall]
  /\ live = {}

Goes(c, to) == pc' = [pc EXCEPT ![c] = to]
Creates(c, kind) == live' = live \cup {<<kind, c>>}
Closes(c, kind) == live' = live \ {<<kind, c>>}

-----------------------------------------------------------------------------
(* start() *)

(* Mutant of MayStart: only a store that is open refuses. *)
MayStartUnlessOpen == run_state \notin {"RUNNING", "STOPPING"}

MayStart == run_state = "NEW"

StartCall(c) ==
  /\ pc[c] = "new"
  /\ Rule("one_start") => At(StartPcs) = {}
  /\ IF MayStart
       THEN Goes(c, "migrate") /\ Creates(c, "pool")
       ELSE Goes(c, "raised") /\ UNCHANGED live
  /\ UNCHANGED <<run_state, in_flight, drained, store, consumer, svc>>

Migrated(c) ==
  /\ pc[c] = "migrate"
  /\ Goes(c, "producer")
  /\ Creates(c, "producer")
  /\ UNCHANGED <<run_state, in_flight, drained, store, consumer, svc>>

ProducerStarted(c) ==
  /\ pc[c] = "producer"
  /\ Goes(c, "admin")
  /\ Creates(c, "admin")
  /\ UNCHANGED <<run_state, in_flight, drained, store, consumer, svc>>

(* The composition root: every service is new, the consumer not started. *)
AdminStarted(c) ==
  /\ pc[c] = "admin"
  /\ Goes(c, "started")
  /\ store' = c
  /\ consumer' = [consumer EXCEPT ![c] = NoCall]
  /\ run_state' = "RUNNING"
  /\ UNCHANGED <<in_flight, drained, svc, live>>

(* Mutant of FirstUndone: a client whose own start() failed is not closed. *)
FirstUndoneStarted ==
  [migrate |-> "undo_pool", producer |-> "undo_pool", admin |-> "undo_producer"]

(* The rollback closes whatever was created, the last first. *)
FirstUndone ==
  [migrate |-> "undo_pool", producer |-> "undo_producer", admin |-> "undo_admin"]

(* An error or a cancellation at the await start() is at. *)
StartFails(c) ==
  /\ pc[c] \in StartPcs
  /\ Goes(c, FirstUndone[pc[c]])
  /\ UNCHANGED <<run_state, in_flight, drained, store, consumer, svc, live>>

(* One cleanup step, failing or not. *)
Undo(c) ==
  /\ \/ pc[c] = "undo_admin" /\ Closes(c, "admin") /\ Goes(c, "undo_producer")
     \/ pc[c] = "undo_producer" /\ Closes(c, "producer") /\ Goes(c, "undo_pool")
     \/ pc[c] = "undo_pool" /\ Closes(c, "pool") /\ Goes(c, "raised")
  /\ UNCHANGED <<run_state, in_flight, drained, store, consumer, svc>>

-----------------------------------------------------------------------------
(* append() *)

(* Mutant of CountedIn: the call is not counted. *)
CountedInNever == in_flight

CountedIn == in_flight + 1

(* The running-state check and the increment, with no await in between. *)
AppendCall(c) ==
  /\ pc[c] = "new"
  /\ IF run_state = "RUNNING"
       THEN /\ Goes(c, "append")
            /\ in_flight' = CountedIn
            /\ svc' = [svc EXCEPT ![c] = store]
       ELSE Goes(c, "raised") /\ UNCHANGED <<in_flight, svc>>
  /\ UNCHANGED <<run_state, drained, store, consumer, live>>

(* Mutants of Signal: the counter is looked at before its decrement; any    *)
(* append that ends lets stop() go on.                                      *)
SignalStale == run_state # "RUNNING" /\ in_flight = 0
SignalEarly == run_state # "RUNNING"

Signal == run_state # "RUNNING" /\ in_flight' = 0

(* The finally of append(), however the append ended. *)
AppendEnds(c) ==
  /\ pc[c] = "append"
  /\ Goes(c, "returned")
  /\ in_flight' = in_flight - 1
  /\ drained' = (drained \/ Signal)
  /\ UNCHANGED <<run_state, store, consumer, svc, live>>

-----------------------------------------------------------------------------
(* query() and on_partitions_revoked(): they borrow from the pool, and      *)
(* nobody counts them.                                                     *)

BorrowCall(c) ==
  /\ pc[c] = "new"
  /\ IF run_state = "RUNNING"
       THEN Goes(c, "borrow") /\ svc' = [svc EXCEPT ![c] = store]
       ELSE Goes(c, "raised") /\ UNCHANGED svc
  /\ UNCHANGED <<run_state, in_flight, drained, store, consumer, live>>

BorrowEnds(c) ==
  /\ pc[c] = "borrow"
  /\ Goes(c, "returned")
  /\ UNCHANGED <<run_state, in_flight, drained, store, consumer, svc, live>>

-----------------------------------------------------------------------------
(* on_partitions_assigned(), for its use of the consumer *)

AssignCall(c) ==
  /\ pc[c] = "new"
  /\ Rule("one_hook") => At(HookPcs) = {}
  /\ IF run_state = "RUNNING"
       THEN Goes(c, "verify") /\ svc' = [svc EXCEPT ![c] = store]
       ELSE Goes(c, "raised") /\ UNCHANGED svc
  /\ UNCHANGED <<run_state, in_flight, drained, store, consumer, live>>

Verified(c) ==
  /\ pc[c] = "verify"
  /\ Goes(c, "checkpoint")
  /\ UNCHANGED <<run_state, in_flight, drained, store, consumer, svc, live>>

(* _get_consumer() follows the read: the cached client, or a new one that   *)
(* is cached only once it has started.                                      *)
CheckpointRead(c) ==
  /\ pc[c] = "checkpoint"
  /\ <<"pool", svc[c]>> \in live
  /\ IF consumer[svc[c]] = NoCall
       THEN Goes(c, "consumer") /\ Creates(c, "consumer")
       ELSE Goes(c, "replay") /\ UNCHANGED live
  /\ UNCHANGED <<run_state, in_flight, drained, store, consumer, svc>>

ConsumerStarted(c) ==
  /\ pc[c] = "consumer"
  /\ Goes(c, "replay")
  /\ consumer' = [consumer EXCEPT ![svc[c]] = c]
  /\ UNCHANGED <<run_state, in_flight, drained, store, svc, live>>

ConsumerStartFails(c) ==
  /\ pc[c] = "consumer"
  /\ Goes(c, "raised")
  /\ Closes(c, "consumer")
  /\ UNCHANGED <<run_state, in_flight, drained, store, consumer, svc>>

(* The partition is done: on to the next one, or back to the host. *)
Replayed(c) ==
  /\ pc[c] = "replay"
  /\ Goes(c, "verify") \/ Goes(c, "returned")
  /\ UNCHANGED <<run_state, in_flight, drained, store, consumer, svc, live>>

HookRaises(c) ==
  /\ pc[c] \in {"verify", "checkpoint", "replay"}
  /\ Goes(c, "raised")
  /\ UNCHANGED <<run_state, in_flight, drained, store, consumer, svc, live>>

-----------------------------------------------------------------------------
(* stop() *)

(* The close sequence begins, with the services the store holds by then. *)
BeginClosing(c) ==
  /\ run_state' = "CLOSED"
  /\ Goes(c, "flush")
  /\ svc' = [svc EXCEPT ![c] = store]

(* Mutant of MustDrain: stop() does not wait. *)
MustDrainNever == FALSE

MustDrain == in_flight > 0

(* Mutant of IsNoOp: a stop() that meets another one's drain goes on. *)
IsNoOpOnceClosed == run_state = "CLOSED"

(* A second stop(), or one racing an in-flight stop(). *)
IsNoOp == run_state \in {"STOPPING", "CLOSED"}

StopCall(c) ==
  /\ pc[c] = "new"
  /\ Rule("hooks_first") => At(HookPcs \cup {"borrow"}) = {}
  /\ \/ IsNoOp /\ Goes(c, "returned") /\ UNCHANGED <<run_state, svc>>
     \/ run_state = "NEW" /\ Goes(c, "raised") /\ UNCHANGED <<run_state, svc>>
     \/ /\ run_state # "NEW" /\ ~IsNoOp
        /\ IF MustDrain
             THEN run_state' = "STOPPING" /\ Goes(c, "drain") /\ UNCHANGED svc
             ELSE BeginClosing(c)
  /\ UNCHANGED <<in_flight, drained, store, consumer, live>>

DrainWakes(c) ==
  /\ pc[c] = "drain"
  /\ drained
  /\ BeginClosing(c)
  /\ UNCHANGED <<in_flight, drained, store, consumer, live>>

(* The host cancels stop(), a timeout around it for one. *)
DrainCancelled(c) ==
  /\ ~Rule("await_stop")
  /\ pc[c] = "drain"
  /\ Goes(c, "cancelled")
  /\ UNCHANGED <<run_state, in_flight, drained, store, consumer, svc, live>>

(* One close step, failing or not: the next one is taken all the same.     *)
(* aclose() has nothing to do when no consumer ever started.               *)
CloseStep(c) ==
  /\ \/ /\ pc[c] = "flush"
        /\ Goes(c, "stop_producer")
        /\ UNCHANGED live
     \/ /\ pc[c] = "stop_producer"
        /\ Closes(svc[c], "producer")
        /\ Goes(c, "stop_consumer")
     \/ /\ pc[c] = "stop_consumer"
        /\ IF consumer[svc[c]] = NoCall
             THEN Goes(c, "close_admin") /\ UNCHANGED live
             ELSE /\ Closes(consumer[svc[c]], "consumer")
                  /\ Goes(c, "consumer_stopping")
     \/ /\ pc[c] = "close_admin"
        /\ Closes(svc[c], "admin")
        /\ Goes(c, "close_pool")
     \/ /\ pc[c] = "close_pool"
        /\ Closes(svc[c], "pool")
        /\ Goes(c, "returned")
  /\ UNCHANGED <<run_state, in_flight, drained, store, consumer, svc>>

(* aclose() forgets the consumer after its stop(), unless that raised. *)
ConsumerStopped(c) ==
  /\ pc[c] = "consumer_stopping"
  /\ Goes(c, "close_admin")
  /\ \/ consumer' = [consumer EXCEPT ![svc[c]] = NoCall]
     \/ UNCHANGED consumer
  /\ UNCHANGED <<run_state, in_flight, drained, store, svc, live>>

-----------------------------------------------------------------------------
(* What the host begins, what goes wrong, and what a call does by itself. *)
HostCalls(c) ==
  StartCall(c) \/ StopCall(c) \/ AppendCall(c) \/ BorrowCall(c) \/ AssignCall(c)

Fails(c) ==
  StartFails(c) \/ ConsumerStartFails(c) \/ HookRaises(c) \/ DrainCancelled(c)

Proceeds(c) ==
  \/ Migrated(c) \/ ProducerStarted(c) \/ AdminStarted(c) \/ Undo(c)
  \/ AppendEnds(c) \/ BorrowEnds(c)
  \/ Verified(c) \/ CheckpointRead(c) \/ ConsumerStarted(c) \/ Replayed(c)
  \/ DrainWakes(c) \/ CloseStep(c) \/ ConsumerStopped(c)

Next == \E c \in Calls : HostCalls(c) \/ Fails(c) \/ Proceeds(c)

Spec == Init /\ [][Next]_vars

(* Every await of a call returns or raises; stop() waits for the appends    *)
(* without a bound of its own.                                              *)
FairSpec == Spec /\ \A c \in Calls : WF_vars(Proceeds(c))

-----------------------------------------------------------------------------
(* Properties *)

(* Every variable has its type. *)
TypeOK ==
  /\ run_state \in RunStates
  /\ in_flight \in Nat
  /\ drained \in BOOLEAN
  /\ store \in Calls \cup {NoCall}
  /\ consumer \in [Calls -> Calls \cup {NoCall}]
  /\ pc \in [Calls -> StartPcs \cup UndoPcs \cup ClosePcs \cup HookPcs
                        \cup EndPcs \cup {"new", "append", "borrow", "drain"}]
  /\ svc \in [Calls -> Calls \cup {NoCall}]
  /\ live \subseteq ClientKinds \X Calls

(* The kinds of clients a stop() at this point has yet to close. *)
StillCloses(at) ==
  CASE at \in {"drain", "flush", "stop_producer"} -> ClientKinds
    [] at = "stop_consumer" -> {"consumer", "admin", "pool"}
    [] at \in {"consumer_stopping", "close_admin"} -> {"admin", "pool"}
    [] at = "close_pool" -> {"pool"}
    [] OTHER -> {}

(* The kinds of clients a start() at this point has created, and will       *)
(* close if it fails.                                                       *)
WillUndo(at) ==
  CASE at \in {"admin", "undo_admin"} -> {"admin", "producer", "pool"}
    [] at \in {"producer", "undo_producer"} -> {"producer", "pool"}
    [] at \in {"migrate", "undo_pool"} -> {"pool"}
    [] OTHER -> {}

(* The store of the call s holds the client: one it was composed of, or the *)
(* consumer its lifecycle has cached.                                       *)
HeldBy(s, kind, c) == IF kind = "consumer" THEN consumer[s] = c ELSE s = c

(* No client is lost (handle-failures.md: a failed start() leaks nothing;  *)
(* a pool that is never closed wedges the interpreter's exit).  Whatever   *)
(* fails, is retried or is cancelled, a live client is always in the care  *)
(* of a call that will close it, or of a running store.                    *)
NoClientLost ==
  \A kind \in ClientKinds, c \in Calls : <<kind, c>> \in live =>
    \/ kind \in WillUndo(pc[c])
    \/ kind = "consumer" /\ pc[c] = "consumer"
    \/ run_state = "RUNNING" /\ store # NoCall /\ HeldBy(store, kind, c)
    \/ \E k \in Calls :
         /\ kind \in StillCloses(pc[k])
         /\ HeldBy(IF pc[k] = "drain" THEN store ELSE svc[k], kind, c)

(* stop() drains: no append under way ever loses its producer or its pool. *)
AppendsKeepTheirClients ==
  \A c \in Calls :
    pc[c] = "append" =>
      <<"producer", svc[c]>> \in live /\ <<"pool", svc[c]>> \in live

(* With the shutdown order of the guides no other call loses them either:   *)
(* hooks and queries, which nothing drains, keep the pool, and a hook that  *)
(* replays the consumer of its store.                                      *)
CallsKeepTheirClients ==
  /\ AppendsKeepTheirClients
  /\ \A c \in At(HookPcs \cup {"borrow"}) : <<"pool", svc[c]>> \in live
  /\ \A c \in At({"replay"}) : <<"consumer", consumer[svc[c]]>> \in live

(* One stop() wins and the store is CLOSED or being drained by it: no two   *)
(* run the close sequence, whose second run would close clients twice, and  *)
(* no STOPPING store is without the stop() that will close it ("the winner  *)
(* runs the close sequence", _store.py).                                    *)
StopHasOneWinner ==
  /\ Cardinality(At(ClosePcs \cup {"drain"})) <= 1
  /\ run_state = "STOPPING" => At({"drain"}) # {}

(* The phase only moves on, NEW to RUNNING to STOPPING to CLOSED: a store   *)
(* is not reusable after stop().                                            *)
PhaseRank == [NEW |-> 0, RUNNING |-> 1, STOPPING |-> 2, CLOSED |-> 3]
PhaseMovesOn == [][PhaseRank[run_state'] >= PhaseRank[run_state]]_run_state

(* The inductive invariant of the proofs, of a host that makes one start()  *)
(* at a time. The counter counts, the phase says which calls there can be,  *)
(* and until the close sequence the store has its clients.                 *)
Counted == in_flight = Cardinality(At({"append"}))

Phases ==
  /\ \A c \in Calls :
       /\ pc[c] \in StartPcs => run_state = "NEW"
       /\ pc[c] = "append" => run_state \in {"RUNNING", "STOPPING"} /\ svc[c] = store
       /\ pc[c] = "drain" => run_state = "STOPPING"
       /\ pc[c] \in ClosePcs => run_state = "CLOSED"
  /\ run_state # "NEW" => store \in Calls /\ pc[store] = "started"
  /\ drained => run_state \in {"STOPPING", "CLOSED"} /\ in_flight = 0

OneAtATime ==
  /\ \A c, d \in At(StartPcs) : c = d
  /\ \A c, d \in At(ClosePcs \cup {"drain"}) : c = d

StoreIsOpen ==
  /\ run_state \in {"RUNNING", "STOPPING"} =>
       <<"producer", store>> \in live /\ <<"pool", store>> \in live
  /\ \A c \in Calls :
       /\ pc[c] \in StartPcs => <<"pool", c>> \in live
       /\ pc[c] \in {"producer", "admin"} => <<"producer", c>> \in live

DrainInv == TypeOK /\ Counted /\ Phases /\ OneAtATime /\ StoreIsOpen

(* A drain ends: once stop() has begun to wait, every client the store has  *)
(* is told to close in the end.  No wake-up is lost between the last append *)
(* and the event.                                                           *)
StopCloses == run_state = "STOPPING" ~> live = {}

=============================================================================
