-------------------------- MODULE StoreFacadeProofs --------------------------
(***************************************************************************)
(* Theorems of StoreFacade for any calls: the drain of stop() protects     *)
(* every append, one stop() closes, and, for a host that makes one start() *)
(* at a time, the phase only moves on and no call outlives what it uses.   *)
(***************************************************************************)
EXTENDS StoreFacade, FiniteSetTheorems, TLAPS

USE NoCallAssumption

Pcs == StartPcs \cup UndoPcs \cup ClosePcs \cup HookPcs
         \cup EndPcs \cup {"new", "append", "borrow", "drain"}

(* Every call is at a line the module names.                               *)
LEMMA PcsOfType == TypeOK => pc \in [Calls -> Pcs]
  BY DEF TypeOK, Pcs

(* A failed start begins its undo inside the undo.                         *)
LEMMA UndoneIsUndo ==
  ASSUME NEW at \in StartPcs
  PROVE  FirstUndone[at] \in UndoPcs
<1>1. FirstUndone["migrate"] \in UndoPcs
  BY DEF FirstUndone, UndoPcs
<1>2. FirstUndone["producer"] \in UndoPcs
  BY DEF FirstUndone, UndoPcs
<1>3. FirstUndone["admin"] \in UndoPcs
  BY DEF FirstUndone, UndoPcs
<1> QED
  BY <1>1, <1>2, <1>3 DEF StartPcs

-----------------------------------------------------------------------------
(* Types, and the count of the appends under way *)

CountInv == TypeOK /\ Counted

(* There are finitely many calls, hence finitely many appends.             *)
LEMMA AppendsFinite == IsFiniteSet(At({"append"}))
  BY FiniteCallsAssumption, FS_Subset DEF At

(* Calls that neither are nor become appends leave the count alone. *)
LEMMA CountStays ==
  ASSUME CountInv, NEW c \in Calls, NEW to, Goes(c, to),
         pc[c] # "append", to # "append", in_flight' = in_flight
  PROVE  Counted'
<1>1. At({"append"})' = At({"append"})
  BY DEF At, Goes, CountInv, TypeOK
<1> QED
  BY <1>1 DEF Counted, CountInv

(* An append that starts is one more.                                      *)
LEMMA CountUp ==
  ASSUME CountInv, NEW c \in Calls, Goes(c, "append"),
         pc[c] # "append", in_flight' = in_flight + 1
  PROVE  Counted'
<1>1. At({"append"})' = At({"append"}) \cup {c} /\ c \notin At({"append"})
  BY DEF At, Goes, CountInv, TypeOK
<1>2. Cardinality(At({"append"}) \cup {c}) = Cardinality(At({"append"})) + 1
  BY <1>1, AppendsFinite, FS_AddElement
<1> QED
  BY <1>1, <1>2 DEF Counted, CountInv

(* An append that ends is one less.                                        *)
LEMMA CountDown ==
  ASSUME CountInv, NEW c \in Calls, NEW to, Goes(c, to),
         pc[c] = "append", to # "append", in_flight' = in_flight - 1
  PROVE  Counted' /\ in_flight' \in Nat
<1>1. At({"append"})' = At({"append"}) \ {c} /\ c \in At({"append"})
  BY DEF At, Goes, CountInv, TypeOK
<1>2. Cardinality(At({"append"}) \ {c}) = Cardinality(At({"append"})) - 1
  BY <1>1, AppendsFinite, FS_RemoveElement
<1>3. IsFiniteSet(At({"append"}) \ {c})
  BY AppendsFinite, FS_RemoveElement
<1>4. Cardinality(At({"append"}) \ {c}) \in Nat
  BY <1>3, FS_CardinalityType
<1> QED
  BY <1>1, <1>2, <1>4 DEF Counted, CountInv

(* No append is under way when the counter is zero. *)
LEMMA NoneCounted ==
  ASSUME CountInv, in_flight = 0, NEW c \in Calls
  PROVE  pc[c] # "append"
<1>1. At({"append"}) = {}
  BY AppendsFinite, FS_EmptySet DEF CountInv, Counted
<1> QED
  BY <1>1 DEF At

(* At the start there is none.                                             *)
LEMMA CountInit ==
  ASSUME Init
  PROVE  CountInv
<1>1. TypeOK
  BY DEF Init, TypeOK, RunStates
<1>2. At({"append"}) = {}
  BY DEF Init, At
<1> QED
  BY <1>1, <1>2, FS_EmptySet DEF Init, CountInv, Counted

(* Every step is a step of one call, from a pc to a pc, and counts. *)
LEMMA CountStep ==
  ASSUME CountInv, [Next]_vars
  PROVE  CountInv'
<1> USE DEF Goes
<1> DEFINE Same(c) == in_flight' = in_flight /\ \E to \in Pcs \ {"append"} : Goes(c, to)
<1>1. ASSUME NEW c \in Calls, Same(c), pc[c] # "append",
             run_state' \in RunStates, drained' \in BOOLEAN, store' \in Calls \cup {NoCall},
             consumer' \in [Calls -> Calls \cup {NoCall}],
             svc' \in [Calls -> Calls \cup {NoCall}], live' \subseteq ClientKinds \X Calls
      PROVE  CountInv'
  <2>1. PICK to \in Pcs \ {"append"} : Goes(c, to)
    BY <1>1
  <2>2. pc' \in [Calls -> Pcs]
    BY <2>1, PcsOfType DEF CountInv
  <2>3. TypeOK'
    BY <1>1, <2>2 DEF CountInv, TypeOK, Pcs
  <2>4. Counted'
    BY <1>1, <2>1, CountStays
  <2> QED
    BY <2>3, <2>4 DEF CountInv
<1>2. /\ run_state \in RunStates /\ in_flight \in Nat /\ drained \in BOOLEAN
      /\ store \in Calls \cup {NoCall} /\ consumer \in [Calls -> Calls \cup {NoCall}]
      /\ svc \in [Calls -> Calls \cup {NoCall}] /\ live \subseteq ClientKinds \X Calls
      /\ pc \in [Calls -> Pcs]
  BY PcsOfType DEF CountInv, TypeOK
<1>3. ASSUME NEW c \in Calls, StartCall(c) \/ Migrated(c) \/ ProducerStarted(c) \/ Undo(c)
      PROVE  CountInv'
  <2>1. Same(c) /\ pc[c] # "append"
    BY <1>3 DEF StartCall, Migrated, ProducerStarted, Undo, Pcs, StartPcs, UndoPcs, EndPcs
  <2>2. live' \subseteq ClientKinds \X Calls
    BY <1>2, <1>3 DEF StartCall, Migrated, ProducerStarted, Undo, Creates, Closes, ClientKinds
  <2> QED
    BY <1>1, <1>2, <1>3, <2>1, <2>2 DEF StartCall, Migrated, ProducerStarted, Undo
<1>4. ASSUME NEW c \in Calls, AdminStarted(c)
      PROVE  CountInv'
  <2>1. Same(c) /\ pc[c] # "append"
    BY <1>4 DEF AdminStarted, Pcs, EndPcs
  <2> QED
    BY <1>1, <1>2, <1>4, <2>1 DEF AdminStarted, RunStates
<1>5. ASSUME NEW c \in Calls, StartFails(c)
      PROVE  CountInv'
  <2>1. Goes(c, FirstUndone[pc[c]]) /\ pc[c] \in StartPcs /\ in_flight' = in_flight
    BY <1>5 DEF StartFails
  <2>2. FirstUndone[pc[c]] \in Pcs \ {"append"}
    BY <2>1, UndoneIsUndo DEF UndoPcs, Pcs
  <2>3. Same(c) /\ pc[c] # "append"
    BY <2>1, <2>2 DEF StartPcs
  <2> QED
    BY <1>1, <1>2, <1>5, <2>3 DEF StartFails
<1>6. ASSUME NEW c \in Calls, AppendCall(c)
      PROVE  CountInv'
  <2>1. CASE run_state = "RUNNING"
    <3>1. TypeOK'
      BY <1>2, <1>6, <2>1 DEF AppendCall, CountedIn, TypeOK, Pcs
    <3>2. Counted'
      BY <1>6, <2>1, CountUp DEF AppendCall, CountedIn
    <3> QED
      BY <3>1, <3>2 DEF CountInv
  <2>2. CASE run_state # "RUNNING"
    <3>1. Same(c) /\ pc[c] # "append"
      BY <1>6, <2>2 DEF AppendCall, Pcs, EndPcs
    <3> QED
      BY <1>1, <1>2, <1>6, <2>2, <3>1 DEF AppendCall
  <2> QED
    BY <2>1, <2>2
<1>7. ASSUME NEW c \in Calls, AppendEnds(c)
      PROVE  CountInv'
  <2>1. Counted' /\ in_flight' \in Nat
    BY <1>7, CountDown DEF AppendEnds
  <2>2. TypeOK'
    BY <1>2, <1>7, <2>1 DEF AppendEnds, Signal, TypeOK, EndPcs, Pcs
  <2> QED
    BY <2>1, <2>2 DEF CountInv
<1>8. ASSUME NEW c \in Calls, BorrowCall(c) \/ BorrowEnds(c) \/ AssignCall(c) \/ Verified(c) \/ Replayed(c)
                                \/ HookRaises(c) \/ DrainCancelled(c)
      PROVE  CountInv'
  <2>1. Same(c) /\ pc[c] # "append"
    BY <1>8 DEF BorrowCall, BorrowEnds, AssignCall, Verified, Replayed, HookRaises,
                DrainCancelled, Pcs, HookPcs, EndPcs
  <2>2. svc' \in [Calls -> Calls \cup {NoCall}]
    BY <1>2, <1>8 DEF BorrowCall, BorrowEnds, AssignCall, Verified, Replayed, HookRaises, DrainCancelled
  <2> QED
    BY <1>1, <1>2, <1>8, <2>1, <2>2 DEF BorrowCall, BorrowEnds, AssignCall, Verified, Replayed,
                                       HookRaises, DrainCancelled
<1>9. ASSUME NEW c \in Calls, CheckpointRead(c) \/ ConsumerStarted(c) \/ ConsumerStartFails(c)
      PROVE  CountInv'
  <2>1. Same(c) /\ pc[c] # "append"
    BY <1>9 DEF CheckpointRead, ConsumerStarted, ConsumerStartFails, Pcs, HookPcs, EndPcs
  <2>2. live' \subseteq ClientKinds \X Calls
    BY <1>2, <1>9 DEF CheckpointRead, ConsumerStarted, ConsumerStartFails, Creates, Closes, ClientKinds
  <2>3. consumer' \in [Calls -> Calls \cup {NoCall}]
    BY <1>2, <1>9 DEF CheckpointRead, ConsumerStarted, ConsumerStartFails
  <2> QED
    BY <1>1, <1>2, <1>9, <2>1, <2>2, <2>3 DEF CheckpointRead, ConsumerStarted, ConsumerStartFails
<1>10. ASSUME NEW c \in Calls, StopCall(c) \/ DrainWakes(c)
       PROVE  CountInv'
  <2>1. Same(c) /\ pc[c] # "append"
    BY <1>10 DEF StopCall, DrainWakes, BeginClosing, Pcs, ClosePcs, EndPcs
  <2>2. run_state' \in RunStates /\ svc' \in [Calls -> Calls \cup {NoCall}]
    BY <1>2, <1>10 DEF StopCall, DrainWakes, BeginClosing, RunStates
  <2> QED
    BY <1>1, <1>2, <1>10, <2>1, <2>2 DEF StopCall, DrainWakes
<1>11. ASSUME NEW c \in Calls, CloseStep(c) \/ ConsumerStopped(c)
       PROVE  CountInv'
  <2>1. Same(c) /\ pc[c] # "append"
    BY <1>11 DEF CloseStep, ConsumerStopped, Pcs, ClosePcs, EndPcs
  <2>2. live' \subseteq ClientKinds \X Calls
    BY <1>2, <1>11 DEF CloseStep, ConsumerStopped, Closes
  <2>3. consumer' \in [Calls -> Calls \cup {NoCall}]
    BY <1>2, <1>11 DEF CloseStep, ConsumerStopped
  <2> QED
    BY <1>1, <1>2, <1>11, <2>1, <2>2, <2>3 DEF CloseStep, ConsumerStopped
<1>12. CASE UNCHANGED vars
  BY <1>12 DEF vars, CountInv, TypeOK, Counted, At
<1> QED
  BY <1>3, <1>4, <1>5, <1>6, <1>7, <1>8, <1>9, <1>10, <1>11, <1>12
     DEF Next, HostCalls, Fails, Proceeds

-----------------------------------------------------------------------------
(* The phases, for one start() at a time *)

PhaseInv == Phases /\ OneAtATime /\ StoreIsOpen
Busy == StartPcs \cup ClosePcs \cup {"append", "drain"}

LEMMA PhaseNow ==
  ASSUME DrainInv
  PROVE  /\ CountInv /\ Phases /\ OneAtATime /\ StoreIsOpen
         /\ pc \in [Calls -> Pcs] /\ svc \in [Calls -> Calls \cup {NoCall}]
         /\ in_flight \in Nat /\ run_state \in RunStates
  BY PcsOfType DEF DrainInv, CountInv, TypeOK

LEMMA PhaseInit ==
  ASSUME Init
  PROVE  PhaseInv
  BY DEF Init, PhaseInv, Phases, OneAtATime, StoreIsOpen, StartPcs, ClosePcs, At

(* A call that goes on beside the phases: refused, undone, a hook, a query, *)
(* a stop() with nothing to do. What it closes is its own, or a consumer.   *)
LEMMA BesideKeeps ==
  ASSUME DrainInv, NEW c \in Calls, NEW to \in Pcs \ Busy, Goes(c, to),
         pc[c] \notin {"started", "append"},
         UNCHANGED <<run_state, in_flight, drained, store>>,
         \A d \in Calls \ {c} : svc'[d] = svc[d],
         \A d \in Calls \ {c}, kind \in {"producer", "pool"} :
           <<kind, d>> \in live => <<kind, d>> \in live'
  PROVE  PhaseInv'
<1>1. \A d \in Calls : pc'[d] = (IF d = c THEN to ELSE pc[d])
  BY PhaseNow DEF Goes
<1>2. to \notin StartPcs /\ to \notin ClosePcs /\ to # "append" /\ to # "drain"
  BY DEF Busy
<1>3. run_state # "NEW" => store \in Calls \ {c}
  BY PhaseNow DEF Phases
<1>4. Phases'
  BY <1>1, <1>2, <1>3, PhaseNow DEF Phases
<1>5. OneAtATime'
  BY <1>1, <1>2, PhaseNow DEF OneAtATime, At
<1>6. StoreIsOpen'
  <2>1. (run_state \in {"RUNNING", "STOPPING"} =>
           <<"producer", store>> \in live /\ <<"pool", store>> \in live)'
    BY <1>3, PhaseNow DEF StoreIsOpen
  <2>2. ASSUME NEW d \in Calls, pc'[d] \in StartPcs
        PROVE  /\ d # c /\ pc'[d] = pc[d] /\ <<"pool", d>> \in live'
               /\ pc'[d] \in {"producer", "admin"} => <<"producer", d>> \in live'
    BY <1>1, <1>2, <2>2, PhaseNow DEF StoreIsOpen
  <2> QED
    BY <2>1, <2>2 DEF StoreIsOpen, StartPcs
<1> QED
  BY <1>4, <1>5, <1>6 DEF PhaseInv

(* A start() under way goes on: the store is NEW, and no other start() is. *)
LEMMA StartKeeps ==
  ASSUME DrainInv, NEW c \in Calls, NEW to \in StartPcs, Goes(c, to),
         UNCHANGED <<run_state, in_flight, drained, store, svc>>, run_state = "NEW",
         pc[c] # "append", \A d \in Calls : pc[d] \in StartPcs => d = c,
         live \subseteq live', <<"pool", c>> \in live',
         to \in {"producer", "admin"} => <<"producer", c>> \in live'
  PROVE  PhaseInv'
<1>1. \A d \in Calls : pc'[d] = (IF d = c THEN to ELSE pc[d])
  BY PhaseNow DEF Goes
<1>2. to \notin ClosePcs /\ to # "append" /\ to # "drain"
  BY DEF StartPcs, ClosePcs
<1>3. Phases'
  BY <1>1, <1>2, PhaseNow DEF Phases
<1>4. OneAtATime'
  BY <1>1, <1>2, PhaseNow DEF OneAtATime, At
<1>5. StoreIsOpen'
  <2>1. ASSUME NEW d \in Calls, pc'[d] \in StartPcs
        PROVE  d = c
    BY <1>1, <2>1
  <2> QED
    BY <1>1, <2>1 DEF StoreIsOpen, StartPcs
<1> QED
  BY <1>3, <1>4, <1>5 DEF PhaseInv

LEMMA StartsKeep ==
  ASSUME DrainInv, Rule("one_start"), NEW c \in Calls,
         StartCall(c) \/ Migrated(c) \/ ProducerStarted(c)
  PROVE  PhaseInv'
<1>1. CASE StartCall(c) /\ run_state = "NEW"
  <2>1. \A d \in Calls : pc[d] \notin StartPcs
    BY <1>1 DEF StartCall, At
  <2> QED
    BY <1>1, <2>1, StartKeeps DEF StartCall, MayStart, Creates, StartPcs
<1>2. CASE StartCall(c) /\ run_state # "NEW"
  BY <1>2, BesideKeeps DEF StartCall, MayStart, Pcs, Busy, StartPcs, ClosePcs, EndPcs
<1>3. CASE Migrated(c) \/ ProducerStarted(c)
  <2>1. pc[c] \in StartPcs /\ pc[c] # "append"
    BY <1>3 DEF Migrated, ProducerStarted, StartPcs
  <2>2. run_state = "NEW" /\ (\A d \in Calls : pc[d] \in StartPcs => d = c) /\ <<"pool", c>> \in live
    BY <2>1, PhaseNow DEF Phases, OneAtATime, StoreIsOpen, At
  <2>3. pc[c] = "producer" => <<"producer", c>> \in live
    BY PhaseNow DEF StoreIsOpen
  <2> QED
    BY <1>3, <2>1, <2>2, <2>3, StartKeeps DEF Migrated, ProducerStarted, Creates, StartPcs
<1> QED
  BY <1>1, <1>2, <1>3

LEMMA RunningKeeps ==
  ASSUME DrainInv, NEW c \in Calls, AdminStarted(c)
  PROVE  PhaseInv'
<1>1. /\ run_state = "NEW" /\ run_state' = "RUNNING" /\ store' = c
      /\ <<"pool", c>> \in live /\ <<"producer", c>> \in live
      /\ UNCHANGED <<in_flight, drained, svc, live>>
  BY PhaseNow DEF AdminStarted, Phases, StoreIsOpen, StartPcs
<1>2. \A d \in Calls : /\ pc'[d] = (IF d = c THEN "started" ELSE pc[d])
                       /\ d # c => pc[d] \notin Busy
  <2>1. \A d \in Calls : d # c => pc[d] \notin StartPcs
    BY PhaseNow DEF AdminStarted, OneAtATime, At, StartPcs
  <2> QED
    BY <1>1, <2>1, PhaseNow DEF AdminStarted, Goes, Phases, Busy
<1>3. ~drained
  BY <1>1, PhaseNow DEF Phases
<1>4. \A d \in Calls : pc'[d] \notin Busy
  BY <1>2 DEF Busy, StartPcs, ClosePcs
<1>5. \A d \in Calls : /\ pc'[d] \notin StartPcs /\ pc'[d] \notin ClosePcs
                       /\ pc'[d] # "append" /\ pc'[d] # "drain"
  BY <1>4 DEF Busy
<1>6. Phases'
  BY <1>1, <1>2, <1>3, <1>5 DEF Phases
<1>7. OneAtATime'
  BY <1>5 DEF OneAtATime, At
<1>8. StoreIsOpen'
  BY <1>1, <1>5 DEF StoreIsOpen, StartPcs
<1> QED
  BY <1>6, <1>7, <1>8 DEF PhaseInv

LEMMA AppendsKeep ==
  ASSUME DrainInv, NEW c \in Calls, AppendCall(c) \/ AppendEnds(c)
  PROVE  PhaseInv'
<1>1. CASE AppendCall(c) /\ run_state # "RUNNING"
  BY <1>1, BesideKeeps DEF AppendCall, Pcs, Busy, StartPcs, ClosePcs, EndPcs
<1>2. CASE AppendCall(c) /\ run_state = "RUNNING"
  <2>1. /\ \A d \in Calls : /\ pc'[d] = (IF d = c THEN "append" ELSE pc[d])
                             /\ svc'[d] = (IF d = c THEN store ELSE svc[d])
        /\ UNCHANGED <<run_state, drained, store, live>> /\ pc[c] = "new"
    BY <1>2, PhaseNow DEF AppendCall, Goes
  <2>2. ~drained
    BY <1>2, PhaseNow DEF Phases
  <2>3. Phases'
    BY <1>2, <2>1, <2>2, PhaseNow DEF Phases, StartPcs, ClosePcs
  <2>4. OneAtATime'
    BY <2>1, PhaseNow DEF OneAtATime, At, StartPcs, ClosePcs
  <2>5. StoreIsOpen'
    BY <2>1, PhaseNow DEF StoreIsOpen, StartPcs
  <2> QED
    BY <2>3, <2>4, <2>5 DEF PhaseInv
<1>3. CASE AppendEnds(c)
  <2>1. /\ \A d \in Calls : pc'[d] = (IF d = c THEN "returned" ELSE pc[d])
        /\ UNCHANGED <<run_state, store, svc, live>> /\ pc[c] = "append"
        /\ in_flight' = in_flight - 1
        /\ drained' => drained \/ (run_state # "RUNNING" /\ in_flight' = 0)
    BY <1>3, PhaseNow DEF AppendEnds, Goes, Signal
  <2>2. ~drained /\ run_state \in {"RUNNING", "STOPPING"}
    BY <2>1, PhaseNow, NoneCounted DEF Phases
  <2>3. Phases'
    BY <2>1, <2>2, PhaseNow DEF Phases, StartPcs, ClosePcs
  <2>4. OneAtATime'
    BY <2>1, PhaseNow DEF OneAtATime, At, StartPcs, ClosePcs
  <2>5. StoreIsOpen'
    BY <2>1, PhaseNow DEF StoreIsOpen, StartPcs
  <2> QED
    BY <2>3, <2>4, <2>5 DEF PhaseInv
<1> QED
  BY <1>1, <1>2, <1>3

(* The close sequence begins when no append is under way. *)
LEMMA ClosingKeeps ==
  ASSUME DrainInv, NEW c \in Calls, BeginClosing(c), pc[c] \in {"new", "drain"},
         in_flight = 0, run_state \in {"RUNNING", "STOPPING"},
         pc[c] = "new" => run_state = "RUNNING",
         UNCHANGED <<in_flight, drained, store, live>>
  PROVE  PhaseInv'
<1>1. /\ \A d \in Calls : pc'[d] = (IF d = c THEN "flush" ELSE pc[d])
      /\ run_state' = "CLOSED"
  BY PhaseNow DEF BeginClosing, Goes
<1>2. \A d \in Calls : pc[d] # "append" /\ pc[d] \notin StartPcs /\ pc[d] \notin ClosePcs
  BY PhaseNow, NoneCounted DEF Phases
<1>3. \A d \in Calls : pc[d] = "drain" => d = c
  BY PhaseNow DEF OneAtATime, At, Phases
<1>4. Phases'
  BY <1>1, <1>2, <1>3, PhaseNow DEF Phases, StartPcs, ClosePcs
<1>5. OneAtATime'
  BY <1>1, <1>2, <1>3 DEF OneAtATime, At, StartPcs
<1>6. StoreIsOpen'
  BY <1>1, <1>2 DEF StoreIsOpen, StartPcs
<1> QED
  BY <1>4, <1>5, <1>6 DEF PhaseInv

LEMMA StopsKeep ==
  ASSUME DrainInv, NEW c \in Calls, StopCall(c) \/ DrainWakes(c)
  PROVE  PhaseInv'
<1>1. CASE DrainWakes(c)
  BY <1>1, PhaseNow, ClosingKeeps DEF DrainWakes, Phases
<1>2. CASE StopCall(c) /\ run_state # "RUNNING"
  <2>1. \E to \in {"returned", "raised"} : Goes(c, to) /\ UNCHANGED <<run_state, svc>>
    BY <1>2, PhaseNow DEF StopCall, IsNoOp, RunStates
  <2> QED
    BY <1>2, <2>1, BesideKeeps DEF StopCall, Pcs, Busy, StartPcs, ClosePcs, EndPcs
<1>3. CASE StopCall(c) /\ run_state = "RUNNING" /\ in_flight = 0
  <2>1. BeginClosing(c)
    BY <1>3 DEF StopCall, IsNoOp, MustDrain
  <2> QED
    BY <1>3, <2>1, ClosingKeeps DEF StopCall
<1>4. CASE StopCall(c) /\ run_state = "RUNNING" /\ in_flight # 0
  <2>1. /\ \A d \in Calls : pc'[d] = (IF d = c THEN "drain" ELSE pc[d])
        /\ run_state' = "STOPPING" /\ UNCHANGED <<in_flight, drained, store, svc, live>>
        /\ pc[c] = "new"
    BY <1>4, PhaseNow DEF StopCall, IsNoOp, MustDrain, Goes
  <2>2. \A d \in Calls : pc[d] \notin StartPcs /\ pc[d] \notin ClosePcs /\ pc[d] # "drain"
    BY <1>4, PhaseNow DEF Phases
  <2>3. Phases'
    BY <1>4, <2>1, <2>2, PhaseNow DEF Phases, StartPcs, ClosePcs
  <2>4. OneAtATime'
    BY <2>1, <2>2 DEF OneAtATime, At, StartPcs
  <2>5. StoreIsOpen'
    BY <1>4, <2>1, <2>2, PhaseNow DEF StoreIsOpen, StartPcs
  <2> QED
    BY <2>3, <2>4, <2>5 DEF PhaseInv
<1> QED
  BY <1>1, <1>2, <1>3, <1>4

(* The close sequence goes on: the store is CLOSED, and nobody uses it. *)
LEMMA ClosesKeep ==
  ASSUME DrainInv, NEW c \in Calls, CloseStep(c) \/ ConsumerStopped(c)
  PROVE  PhaseInv'
<1>1. /\ \E to \in ClosePcs \cup {"returned"} :
           \A d \in Calls : pc'[d] = (IF d = c THEN to ELSE pc[d])
      /\ pc[c] \in ClosePcs
      /\ UNCHANGED <<run_state, in_flight, drained, store, svc>>
  BY PhaseNow DEF CloseStep, ConsumerStopped, ClosePcs, Goes
<1>2. PICK to \in ClosePcs \cup {"returned"} :
        \A d \in Calls : pc'[d] = (IF d = c THEN to ELSE pc[d])
  BY <1>1
<1>3. run_state = "CLOSED"
  BY <1>1, PhaseNow DEF Phases
<1>4. \A d \in Calls : d # c => pc[d] \notin Busy
  <2>1. \A d \in Calls : d # c => pc[d] \notin ClosePcs
    BY <1>1, PhaseNow DEF OneAtATime, At
  <2> QED
    BY <1>3, <2>1, PhaseNow DEF Phases, Busy
<1>5. to \notin StartPcs /\ to # "append" /\ to # "drain" /\ pc[c] # "started"
  BY <1>1 DEF ClosePcs, StartPcs
<1>6. Phases'
  BY <1>1, <1>2, <1>3, <1>4, <1>5, PhaseNow DEF Phases, Busy
<1>7. OneAtATime'
  BY <1>2, <1>4, <1>5 DEF OneAtATime, At, Busy
<1>8. StoreIsOpen'
  BY <1>1, <1>2, <1>3, <1>4, <1>5 DEF StoreIsOpen, Busy, StartPcs
<1> QED
  BY <1>6, <1>7, <1>8 DEF PhaseInv

LEMMA OthersKeep ==
  ASSUME DrainInv, NEW c \in Calls,
         \/ StartFails(c) \/ Undo(c) \/ BorrowCall(c) \/ BorrowEnds(c) \/ AssignCall(c)
         \/ Verified(c) \/ CheckpointRead(c) \/ ConsumerStarted(c) \/ ConsumerStartFails(c)
         \/ Replayed(c) \/ HookRaises(c) \/ DrainCancelled(c)
  PROVE  PhaseInv'
<1> USE DEF Pcs, Busy, StartPcs, ClosePcs, UndoPcs, HookPcs, EndPcs
<1>1. CASE StartFails(c)
  <2>1. FirstUndone[pc[c]] \in UndoPcs /\ Goes(c, FirstUndone[pc[c]])
    BY <1>1, UndoneIsUndo DEF StartFails
  <2> QED
    BY <1>1, <2>1, BesideKeeps DEF StartFails
<1>2. CASE Undo(c)
  BY <1>2, BesideKeeps DEF Undo, Closes
<1>3. CASE BorrowCall(c) \/ AssignCall(c)
  <2>1. \A d \in Calls \ {c} : svc'[d] = svc[d]
    BY <1>3, PhaseNow DEF BorrowCall, AssignCall
  <2> QED
    BY <1>3, <2>1, BesideKeeps DEF BorrowCall, AssignCall
<1>4. CASE BorrowEnds(c) \/ Verified(c) \/ Replayed(c) \/ HookRaises(c) \/ DrainCancelled(c)
  BY <1>4, BesideKeeps DEF BorrowEnds, Verified, Replayed, HookRaises, DrainCancelled
<1>5. CASE CheckpointRead(c) \/ ConsumerStarted(c) \/ ConsumerStartFails(c)
  BY <1>5, BesideKeeps DEF CheckpointRead, ConsumerStarted, ConsumerStartFails, Creates, Closes
<1> QED
  BY <1>1, <1>2, <1>3, <1>4, <1>5

LEMMA PhaseStep ==
  ASSUME DrainInv, Rule("one_start"), [Next]_vars
  PROVE  DrainInv'
<1>1. CountInv'
  BY PhaseNow, CountStep
<1>2. CASE UNCHANGED vars
  BY <1>2 DEF vars, DrainInv, TypeOK, Counted, Phases, OneAtATime, StoreIsOpen, At
<1>3. CASE Next
  <2>1. PICK c \in Calls : HostCalls(c) \/ Fails(c) \/ Proceeds(c)
    BY <1>3 DEF Next
  <2>2. PhaseInv'
    BY <2>1, StartsKeep, RunningKeeps, AppendsKeep, StopsKeep, ClosesKeep, OthersKeep
       DEF HostCalls, Fails, Proceeds
  <2> QED
    BY <1>1, <2>2 DEF DrainInv, PhaseInv, CountInv
<1> QED
  BY <1>2, <1>3

-----------------------------------------------------------------------------
(* Nobody abandons the drain, for a host that does not cancel stop() *)

DrainerWaits == run_state = "STOPPING" => \E c \in Calls : pc[c] = "drain"

LEMMA DrainerStep ==
  ASSUME DrainInv, Rule("await_stop"), DrainerWaits, [Next]_vars
  PROVE  DrainerWaits'
<1>1. CASE UNCHANGED vars
  BY <1>1 DEF vars, DrainerWaits
<1>2. CASE Next
  <2>1. PICK c \in Calls : HostCalls(c) \/ Fails(c) \/ Proceeds(c)
    BY <1>2 DEF Next
  <2>2. CASE StopCall(c)
    BY <2>2, PhaseNow DEF StopCall, BeginClosing, IsNoOp, DrainerWaits, Goes, RunStates
  <2>3. CASE AdminStarted(c) \/ DrainWakes(c)
    BY <2>3 DEF AdminStarted, DrainWakes, BeginClosing, DrainerWaits
  <2>4. CASE ~(StopCall(c) \/ AdminStarted(c) \/ DrainWakes(c))
    <3>1. run_state' = run_state /\ pc[c] # "drain"
      BY <2>1, <2>4 DEF HostCalls, Fails, Proceeds, StartCall, AppendCall, BorrowCall, AssignCall,
         StartFails, ConsumerStartFails, HookRaises, DrainCancelled, Migrated, ProducerStarted,
         Undo, AppendEnds, BorrowEnds, Verified, CheckpointRead, ConsumerStarted, Replayed,
         CloseStep, ConsumerStopped, StartPcs
    <3>2. \A d \in Calls : d # c => pc'[d] = pc[d]
      BY <2>1, <2>4, PhaseNow DEF Goes, HostCalls, Fails, Proceeds, StartCall, AppendCall,
         BorrowCall, AssignCall, StartFails, ConsumerStartFails, HookRaises, DrainCancelled,
         Migrated, ProducerStarted, Undo, AppendEnds, BorrowEnds, Verified, CheckpointRead,
         ConsumerStarted, Replayed, CloseStep, ConsumerStopped
    <3> QED
      BY <3>1, <3>2 DEF DrainerWaits
  <2> QED
    BY <2>2, <2>3, <2>4
<1> QED
  BY <1>1, <1>2

-----------------------------------------------------------------------------
(* Every live client has its closer, for a host that keeps all the rules *)

AllKept == {"one_start", "await_stop", "hooks_first", "one_hook"} \subseteq HostRules

HooksInv ==
  /\ \A c \in Calls :
       /\ pc[c] \in HookPcs => run_state = "RUNNING" /\ svc[c] = store
       /\ pc[c] = "consumer" => consumer[store] = NoCall
       /\ pc[c] \in ClosePcs => svc[c] = store
  /\ \A c, d \in At(HookPcs) : c = d

Kept(kind, c) ==
  \/ kind \in WillUndo(pc[c])
  \/ kind = "consumer" /\ pc[c] = "consumer"
  \/ /\ run_state # "NEW" /\ HeldBy(store, kind, c)
     /\ run_state = "CLOSED" =>
          \E k \in Calls : pc[k] \in ClosePcs /\ kind \in StillCloses(pc[k])

KeptInv == \A kind \in ClientKinds, c \in Calls : <<kind, c>> \in live => Kept(kind, c)

ClientInv == DrainInv /\ HooksInv /\ KeptInv

LEMMA UndoneKinds ==
  /\ WillUndo("migrate") = {"pool"} /\ WillUndo("undo_pool") = {"pool"}
  /\ WillUndo("producer") = {"producer", "pool"} /\ WillUndo("undo_producer") = {"producer", "pool"}
  /\ WillUndo("admin") = {"admin", "producer", "pool"}
  /\ WillUndo("undo_admin") = {"admin", "producer", "pool"}
  /\ \A at \in Pcs \ (StartPcs \cup UndoPcs) : WillUndo(at) = {}
  BY DEF WillUndo, StartPcs, UndoPcs

LEMMA ClosedKinds ==
  /\ StillCloses("drain") = ClientKinds
  /\ StillCloses("flush") = ClientKinds /\ StillCloses("stop_producer") = ClientKinds
  /\ StillCloses("stop_consumer") = {"consumer", "admin", "pool"}
  /\ StillCloses("consumer_stopping") = {"admin", "pool"}
  /\ StillCloses("close_admin") = {"admin", "pool"} /\ StillCloses("close_pool") = {"pool"}
  BY DEF StillCloses

LEMMA ClientNow ==
  ASSUME ClientInv
  PROVE  /\ DrainInv /\ Phases /\ OneAtATime /\ HooksInv /\ KeptInv
         /\ pc \in [Calls -> Pcs] /\ svc \in [Calls -> Calls \cup {NoCall}]
         /\ consumer \in [Calls -> Calls \cup {NoCall}] /\ run_state \in RunStates
  BY PhaseNow DEF ClientInv, DrainInv, TypeOK

(* A call that is no hook at its consumer and no closer, and goes on beside *)
(* the store: what it gives up it has closed.                              *)
LEMMA KeptBeside ==
  ASSUME ClientInv, NEW c \in Calls, NEW to, Goes(c, to),
         pc[c] # "consumer", pc[c] \notin ClosePcs,
         UNCHANGED <<run_state, store, consumer>>,
         \A kind \in ClientKinds, d \in Calls :
           <<kind, d>> \in live' =>
             IF d = c THEN <<kind, d>> \in live \/ kind \in WillUndo(to) \/ (kind = "consumer" /\ to = "consumer")
                      ELSE <<kind, d>> \in live,
         \A kind \in WillUndo(pc[c]) : kind \in WillUndo(to) \/ <<kind, c>> \notin live'
  PROVE  KeptInv'
<1> SUFFICES ASSUME NEW kind \in ClientKinds, NEW d \in Calls, <<kind, d>> \in live'
             PROVE  Kept(kind, d)'
  BY DEF KeptInv
<1>1. /\ pc'[c] = to /\ \A e \in Calls : e # c => pc'[e] = pc[e]
      /\ \A e \in Calls : pc[e] \in ClosePcs => pc'[e] = pc[e]
  BY ClientNow DEF Goes
<1>2. HeldBy(store, kind, d)' = HeldBy(store, kind, d)
  BY DEF HeldBy
<1>3. CASE <<kind, d>> \in live
  <2>1. Kept(kind, d)
    BY <1>3, ClientNow DEF KeptInv
  <2>2. CASE kind \in WillUndo(pc[d])
    BY <1>1, <2>2 DEF Kept
  <2>3. CASE kind = "consumer" /\ pc[d] = "consumer"
    BY <1>1, <2>3 DEF Kept
  <2>4. CASE /\ run_state # "NEW" /\ HeldBy(store, kind, d)
             /\ run_state = "CLOSED" =>
                  \E k \in Calls : pc[k] \in ClosePcs /\ kind \in StillCloses(pc[k])
    <3>1. run_state' = "CLOSED" =>
            \E k \in Calls : pc'[k] \in ClosePcs /\ kind \in StillCloses(pc'[k])
      BY <1>1, <2>4
    <3> QED
      BY <1>2, <2>4, <3>1 DEF Kept
  <2> QED
    BY <2>1, <2>2, <2>3, <2>4 DEF Kept
<1>4. CASE <<kind, d>> \notin live
  BY <1>1, <1>4 DEF Kept
<1> QED
  BY <1>3, <1>4

(* The same for the hooks, of which a host makes one at a time. *)
LEMMA HooksBeside ==
  ASSUME ClientInv, NEW c \in Calls, NEW to, Goes(c, to),
         UNCHANGED <<run_state, store, consumer>>,
         to \notin ClosePcs, to \in HookPcs => (pc[c] \in HookPcs /\ to # "consumer"),
         \/ svc' = svc
         \/ to \notin HookPcs /\ \A d \in Calls \ {c} : svc'[d] = svc[d]
  PROVE  HooksInv'
<1>1. pc'[c] = to /\ \A d \in Calls : d # c => pc'[d] = pc[d] /\ svc'[d] = svc[d]
  BY ClientNow DEF Goes
<1> QED
  BY <1>1, ClientNow DEF HooksInv, At, HookPcs

LEMMA ClientSteps ==
  ASSUME ClientInv, AllKept, NEW c \in Calls,
         \/ StartCall(c) \/ Migrated(c) \/ ProducerStarted(c) \/ StartFails(c) \/ Undo(c)
         \/ AppendCall(c) \/ AppendEnds(c) \/ BorrowCall(c) \/ BorrowEnds(c)
         \/ Verified(c) \/ Replayed(c) \/ HookRaises(c) \/ DrainCancelled(c)
  PROVE  HooksInv' /\ KeptInv'
<1> USE DEF Pcs, StartPcs, ClosePcs, UndoPcs, HookPcs, EndPcs
<1>1. CASE StartCall(c) \/ Migrated(c) \/ ProducerStarted(c)
  <2>1. HooksInv'
    BY <1>1, HooksBeside DEF StartCall, Migrated, ProducerStarted
  <2>2. KeptInv'
    BY <1>1, KeptBeside, UndoneKinds DEF StartCall, Migrated, ProducerStarted, Creates
  <2> QED
    BY <2>1, <2>2
<1>2. CASE StartFails(c)
  <2>1. /\ Goes(c, FirstUndone[pc[c]]) /\ FirstUndone[pc[c]] \in UndoPcs
        /\ WillUndo(FirstUndone[pc[c]]) = WillUndo(pc[c])
    BY <1>2, UndoneIsUndo, UndoneKinds DEF StartFails, FirstUndone
  <2>2. HooksInv'
    BY <1>2, <2>1, HooksBeside DEF StartFails
  <2>3. KeptInv'
    BY <1>2, <2>1, KeptBeside DEF StartFails
  <2> QED
    BY <2>2, <2>3
<1>3. CASE Undo(c)
  <2>1. HooksInv'
    BY <1>3, HooksBeside DEF Undo
  <2>2. KeptInv'
    BY <1>3, KeptBeside, UndoneKinds DEF Undo, Closes
  <2> QED
    BY <2>1, <2>2
<1>4. CASE AppendCall(c) \/ AppendEnds(c) \/ BorrowCall(c) \/ BorrowEnds(c)
  <2>1. HooksInv'
    BY <1>4, ClientNow, HooksBeside DEF AppendCall, AppendEnds, BorrowCall, BorrowEnds
  <2>2. KeptInv'
    BY <1>4, KeptBeside, UndoneKinds DEF AppendCall, AppendEnds, BorrowCall, BorrowEnds
  <2> QED
    BY <2>1, <2>2
<1>5. CASE Verified(c) \/ Replayed(c) \/ HookRaises(c) \/ DrainCancelled(c)
  <2>1. HooksInv'
    BY <1>5, HooksBeside DEF Verified, Replayed, HookRaises, DrainCancelled
  <2>2. KeptInv'
    BY <1>5, KeptBeside, UndoneKinds DEF Verified, Replayed, HookRaises, DrainCancelled
  <2> QED
    BY <2>1, <2>2
<1> QED
  BY <1>1, <1>2, <1>3, <1>4, <1>5

(* The start() that ends hands its clients to the store. *)
LEMMA ClientRunning ==
  ASSUME ClientInv, NEW c \in Calls, AdminStarted(c)
  PROVE  HooksInv' /\ KeptInv'
<1>1. /\ run_state = "NEW" /\ run_state' = "RUNNING" /\ store' = c /\ live' = live
      /\ \A d \in Calls : pc'[d] = (IF d = c THEN "started" ELSE pc[d])
  BY ClientNow DEF AdminStarted, Phases, StartPcs, Goes
<1>2. \A d \in Calls : pc[d] \notin HookPcs /\ pc[d] \notin ClosePcs
  BY <1>1, ClientNow DEF HooksInv, Phases
<1>3. HooksInv'
  BY <1>1, <1>2 DEF HooksInv, At, HookPcs, ClosePcs
<1>4. ASSUME NEW kind \in ClientKinds, NEW d \in Calls, <<kind, d>> \in live
      PROVE  Kept(kind, d)'
  <2>1. kind \in WillUndo(pc[d]) /\ kind # "consumer"
    <3>1. kind \in WillUndo(pc[d])
      BY <1>1, <1>2, <1>4, ClientNow DEF KeptInv, Kept, HookPcs
    <3> QED
      BY <3>1, ClientNow, UndoneKinds DEF StartPcs, UndoPcs
  <2> QED
    BY <1>1, <2>1 DEF Kept, HeldBy
<1> QED
  BY <1>1, <1>3, <1>4 DEF KeptInv

LEMMA ClientHooks ==
  ASSUME ClientInv, AllKept, NEW c \in Calls,
         AssignCall(c) \/ CheckpointRead(c) \/ ConsumerStarted(c) \/ ConsumerStartFails(c)
  PROVE  HooksInv' /\ KeptInv'
<1> USE DEF HookPcs
<1>1. CASE AssignCall(c)
  <2>1. \A d \in Calls : pc[d] \notin HookPcs
    BY <1>1 DEF AssignCall, AllKept, Rule, At
  <2>2. HooksInv'
    BY <1>1, <2>1, ClientNow DEF AssignCall, Goes, HooksInv, At, ClosePcs
  <2>3. KeptInv'
    BY <1>1, KeptBeside, UndoneKinds DEF AssignCall, Pcs, StartPcs, UndoPcs, ClosePcs
  <2> QED
    BY <2>2, <2>3
<1>2. CASE CheckpointRead(c)
  <2>1. \A d \in Calls : pc[d] \in HookPcs => d = c
    BY <1>2, ClientNow DEF CheckpointRead, HooksInv, At
  <2>2. HooksInv'
    BY <1>2, <2>1, ClientNow DEF CheckpointRead, Goes, HooksInv, At, ClosePcs
  <2>3. KeptInv'
    BY <1>2, KeptBeside, UndoneKinds DEF CheckpointRead, Creates, Pcs, StartPcs, UndoPcs, ClosePcs
  <2> QED
    BY <2>2, <2>3
<1>3. CASE ConsumerStarted(c) \/ ConsumerStartFails(c)
  <2>1. /\ run_state = "RUNNING" /\ store \in Calls /\ svc[c] = store
        /\ consumer[store] = NoCall /\ pc[c] = "consumer"
        /\ UNCHANGED <<run_state, store, svc>>
        /\ \A d \in Calls : pc[d] \in HookPcs => d = c
        /\ \A d \in Calls : d # c => pc'[d] = pc[d]
        /\ \A d \in Calls : pc[d] \notin ClosePcs
        /\ pc'[c] \in {"replay", "raised"}
    BY <1>3, ClientNow DEF ConsumerStarted, ConsumerStartFails, HooksInv, At, Phases, Goes
  <2>2. HooksInv'
    BY <2>1, ClientNow DEF HooksInv, At, ClosePcs
  <2>3. ASSUME NEW kind \in ClientKinds, NEW d \in Calls, <<kind, d>> \in live'
        PROVE  Kept(kind, d)'
    <3>1. <<kind, d>> \in live /\ (ConsumerStartFails(c) => d # c \/ kind # "consumer")
      BY <1>3, <2>3 DEF ConsumerStarted, ConsumerStartFails, Closes
    <3>2. \/ d # c /\ kind \in WillUndo(pc[d])
          \/ d = c /\ kind = "consumer"
          \/ kind # "consumer" /\ store = d
      <4>1. WillUndo(pc[c]) = {}
        BY <2>1, UndoneKinds DEF Pcs, StartPcs, UndoPcs
      <4>2. kind = "consumer" => ~HeldBy(store, kind, d)
        BY <2>1 DEF HeldBy
      <4>3. Kept(kind, d)
        BY <3>1, ClientNow DEF KeptInv
      <4>4. kind # "consumer" /\ HeldBy(store, kind, d) => store = d
        BY DEF HeldBy
      <4> QED
        BY <2>1, <4>1, <4>2, <4>3, <4>4 DEF Kept
    <3>3. CASE d # c /\ kind \in WillUndo(pc[d])
      BY <2>1, <3>3 DEF Kept
    <3>4. CASE d = c /\ kind = "consumer"
      <4>1. consumer'[store] = c
        BY <1>3, <2>1, <3>1, <3>4, ClientNow DEF ConsumerStarted
      <4> QED
        BY <2>1, <3>4, <4>1 DEF Kept, HeldBy
    <3>5. CASE kind # "consumer" /\ store = d
      BY <2>1, <3>5 DEF Kept, HeldBy
    <3> QED
      BY <3>2, <3>3, <3>4, <3>5
  <2> QED
    BY <2>2, <2>3 DEF KeptInv
<1> QED
  BY <1>1, <1>2, <1>3

(* A stop() begins to close: it will close everything the store holds. *)
LEMMA ClientStops ==
  ASSUME ClientInv, AllKept, NEW c \in Calls, StopCall(c) \/ DrainWakes(c)
  PROVE  HooksInv' /\ KeptInv'
<1>1. \A d \in Calls : pc[d] \notin HookPcs
  BY ClientNow DEF StopCall, DrainWakes, AllKept, Rule, At, Phases, HooksInv
<1>2. /\ pc[c] \in {"new", "drain"} /\ UNCHANGED <<store, consumer, live>>
      /\ \A d \in Calls : d # c => pc'[d] = pc[d] /\ svc'[d] = svc[d]
      /\ pc'[c] \notin HookPcs
      /\ \/ run_state' = "CLOSED" /\ pc'[c] = "flush" /\ svc'[c] = store
         \/ pc'[c] \notin ClosePcs /\ run_state' \in {run_state, "STOPPING"} /\ run_state' # "NEW"
         \/ pc'[c] \notin ClosePcs /\ run_state' = run_state
  BY ClientNow DEF StopCall, DrainWakes, BeginClosing, Goes, HookPcs, ClosePcs
<1>3. WillUndo(pc[c]) = {}
  BY <1>2, UndoneKinds DEF Pcs, StartPcs, UndoPcs
<1>4. HooksInv'
  BY <1>1, <1>2, ClientNow DEF HooksInv, At, HookPcs
<1>5. run_state' = "CLOSED" /\ pc'[c] # "flush" => run_state = "CLOSED"
  BY <1>2
<1>6. ASSUME NEW kind \in ClientKinds, NEW d \in Calls, <<kind, d>> \in live
      PROVE  Kept(kind, d)'
  <2>1. Kept(kind, d) /\ HeldBy(store, kind, d)' = HeldBy(store, kind, d)
    BY <1>2, <1>6, ClientNow DEF KeptInv, HeldBy
  <2>2. CASE kind \in WillUndo(pc[d])
    BY <1>2, <1>3, <2>2 DEF Kept
  <2>3. CASE /\ run_state # "NEW" /\ HeldBy(store, kind, d)
             /\ run_state = "CLOSED" =>
                  \E k \in Calls : pc[k] \in ClosePcs /\ kind \in StillCloses(pc[k])
    <3>1. run_state' # "NEW"
      BY <1>2, <2>3
    <3>2. CASE pc'[c] = "flush"
      <4>1. pc'[c] \in ClosePcs /\ kind \in StillCloses(pc'[c])
        BY <3>2, ClosedKinds DEF ClosePcs
      <4> QED
        BY <2>1, <2>3, <3>1, <4>1 DEF Kept
    <3>3. CASE pc'[c] # "flush"
      <4>1. run_state' = "CLOSED" =>
              \E k \in Calls : pc'[k] \in ClosePcs /\ kind \in StillCloses(pc'[k])
        BY <1>2, <1>5, <2>3, <3>3 DEF ClosePcs
      <4> QED
        BY <2>1, <2>3, <3>1, <4>1 DEF Kept
    <3> QED
      BY <3>2, <3>3
  <2>4. CASE kind = "consumer" /\ pc[d] = "consumer"
    BY <1>1, <2>4 DEF HookPcs
  <2> QED
    BY <2>1, <2>2, <2>3, <2>4 DEF Kept
<1> QED
  BY <1>2, <1>4, <1>6 DEF KeptInv

(* The close sequence: what it no longer closes is closed. *)
LEMMA ClientCloses ==
  ASSUME ClientInv, NEW c \in Calls, CloseStep(c) \/ ConsumerStopped(c)
  PROVE  HooksInv' /\ KeptInv'
<1>1. /\ pc[c] \in ClosePcs /\ run_state = "CLOSED" /\ svc[c] = store /\ store \in Calls
      /\ UNCHANGED <<run_state, store, svc>> /\ live' \subseteq live
      /\ \A d \in Calls : d # c => pc'[d] = pc[d] /\ pc[d] \notin ClosePcs
      /\ \A d \in Calls : pc[d] \notin HookPcs
      /\ pc'[c] \in ClosePcs \cup {"returned"}
  BY ClientNow DEF CloseStep, ConsumerStopped, ClosePcs, HooksInv, Phases, OneAtATime, At, Closes, Goes
<1>2. WillUndo(pc[c]) = {}
  BY <1>1, UndoneKinds DEF Pcs, StartPcs, UndoPcs, ClosePcs
<1>3. HooksInv'
  BY <1>1, ClientNow DEF HooksInv, At, HookPcs, ClosePcs
<1>4. ASSUME NEW kind \in ClientKinds, NEW d \in Calls, <<kind, d>> \in live'
      PROVE  Kept(kind, d)'
  <2>1. Kept(kind, d)
    BY <1>1, <1>4, ClientNow DEF KeptInv
  <2>2. CASE kind \in WillUndo(pc[d])
    BY <1>1, <1>2, <2>2 DEF Kept
  <2>3. CASE HeldBy(store, kind, d) /\ kind \in StillCloses(pc[c])
    <3>1. kind \in StillCloses(pc'[c]) /\ pc'[c] \in ClosePcs
      BY <1>1, <1>4, <2>3, ClosedKinds, ClientNow
         DEF CloseStep, ConsumerStopped, Closes, Goes, HeldBy, ClientKinds, ClosePcs
    <3>2. HeldBy(store, kind, d)'
      BY <1>1, <2>3, ClosedKinds, ClientNow DEF CloseStep, ConsumerStopped, HeldBy
    <3> QED
      BY <1>1, <3>1, <3>2 DEF Kept
  <2>4. CASE kind = "consumer" /\ pc[d] = "consumer"
    BY <1>1, <2>4 DEF HookPcs
  <2> QED
    BY <1>1, <2>1, <2>2, <2>3, <2>4 DEF Kept
<1> QED
  BY <1>3, <1>4 DEF KeptInv

LEMMA ClientStep ==
  ASSUME ClientInv, AllKept, [Next]_vars
  PROVE  ClientInv'
<1>1. DrainInv'
  BY ClientNow, PhaseStep DEF AllKept, Rule
<1>2. CASE UNCHANGED vars
  <2>1. HooksInv'
    BY <1>2, ClientNow DEF vars, HooksInv, At
  <2>2. KeptInv'
    BY <1>2, ClientNow DEF vars, KeptInv, Kept, HeldBy
  <2> QED
    BY <1>1, <2>1, <2>2 DEF ClientInv
<1>3. CASE Next
  <2>1. PICK c \in Calls : HostCalls(c) \/ Fails(c) \/ Proceeds(c)
    BY <1>3 DEF Next
  <2>2. HooksInv' /\ KeptInv'
    BY <2>1, ClientSteps, ClientRunning, ClientHooks, ClientStops, ClientCloses
       DEF HostCalls, Fails, Proceeds
  <2> QED
    BY <1>1, <2>2 DEF ClientInv
<1> QED
  BY <1>2, <1>3

-----------------------------------------------------------------------------
(* What the calls under way use is live, for the same host *)

UsersInv ==
  /\ \A c \in Calls :
       /\ pc[c] = "borrow" => run_state = "RUNNING" /\ svc[c] = store
       /\ pc[c] = "consumer" => <<"consumer", c>> \in live
       /\ pc[c] = "replay" => consumer[store] # NoCall
  /\ run_state = "RUNNING" /\ consumer[store] # NoCall => <<"consumer", consumer[store]>> \in live

(* A call that takes no consumer from the others, and gets none.           *)
LEMMA UsersBeside ==
  ASSUME ClientInv, UsersInv, NEW c \in Calls, NEW to, Goes(c, to),
         to \notin {"consumer", "replay"},
         to = "borrow" => run_state = "RUNNING" /\ svc'[c] = store,
         UNCHANGED <<run_state, store, consumer>>,
         \A d \in Calls \ {c} : svc'[d] = svc[d],
         \A d \in Calls : <<"consumer", d>> \in live => <<"consumer", d>> \in live'
  PROVE  UsersInv'
<1>1. \A d \in Calls : pc'[d] = (IF d = c THEN to ELSE pc[d])
  BY ClientNow DEF Goes
<1>2. run_state = "RUNNING" => store \in Calls
  BY ClientNow DEF Phases
<1> QED
  BY <1>1, <1>2, ClientNow DEF UsersInv

(* A hook gets its consumer and gives it up before the store caches it. *)
LEMMA UsersHook ==
  ASSUME ClientInv, UsersInv, NEW c \in Calls,
         CheckpointRead(c) \/ ConsumerStarted(c) \/ ConsumerStartFails(c)
  PROVE  UsersInv'
<1>1. /\ run_state = "RUNNING" /\ store \in Calls /\ svc[c] = store
      /\ UNCHANGED <<run_state, store, svc>>
      /\ \A d \in Calls : pc[d] \in HookPcs => d = c
      /\ \A d \in Calls : d # c => pc'[d] = pc[d]
  BY ClientNow DEF CheckpointRead, ConsumerStarted, ConsumerStartFails, HooksInv, HookPcs, At,
     Phases, Goes
<1>2. \A d \in Calls : d # c => pc'[d] \notin {"consumer", "replay"}
  BY <1>1 DEF HookPcs
<1>3. CASE CheckpointRead(c)
  <2>1. /\ consumer' = consumer /\ live \subseteq live'
        /\ \/ pc'[c] = "consumer" /\ <<"consumer", c>> \in live'
           \/ pc'[c] = "replay" /\ consumer[store] # NoCall
    BY <1>1, <1>3, ClientNow DEF CheckpointRead, Goes, Creates
  <2> QED
    BY <1>1, <1>2, <2>1 DEF UsersInv
<1>4. CASE ConsumerStarted(c)
  <2>1. /\ consumer' = [consumer EXCEPT ![store] = c] /\ live' = live
        /\ pc'[c] = "replay" /\ <<"consumer", c>> \in live
    BY <1>1, <1>4, ClientNow DEF ConsumerStarted, Goes, UsersInv
  <2>2. consumer'[store] = c
    BY <1>1, <2>1, ClientNow
  <2> QED
    BY <1>1, <1>2, <2>1, <2>2 DEF UsersInv
<1>5. CASE ConsumerStartFails(c)
  <2>1. consumer' = consumer /\ consumer[store] = NoCall /\ pc'[c] = "raised"
    BY <1>1, <1>5, ClientNow DEF ConsumerStartFails, Goes, HooksInv
  <2> QED
    BY <1>1, <1>2, <2>1 DEF UsersInv
<1> QED
  BY <1>3, <1>4, <1>5

(* Nothing a stop() or its close sequence takes away is in use. *)
LEMMA UsersStop ==
  ASSUME ClientInv, AllKept, UsersInv, NEW c \in Calls,
         StopCall(c) \/ DrainWakes(c) \/ CloseStep(c) \/ ConsumerStopped(c)
  PROVE  UsersInv'
<1>1. \A d \in Calls : pc[d] \notin HookPcs \cup {"borrow"}
  <2>1. CASE StopCall(c)
    BY <2>1 DEF StopCall, AllKept, Rule, At
  <2>2. CASE DrainWakes(c) \/ CloseStep(c) \/ ConsumerStopped(c)
    <3>1. run_state # "RUNNING"
      BY <2>2, ClientNow DEF DrainWakes, CloseStep, ConsumerStopped, Phases, ClosePcs
    <3> QED
      BY <3>1, ClientNow DEF HooksInv, UsersInv
  <2> QED
    BY <2>1, <2>2
<1>2. PICK to \in Pcs \ (HookPcs \cup {"borrow"}) : Goes(c, to)
  BY DEF StopCall, DrainWakes, BeginClosing, CloseStep, ConsumerStopped, Pcs, HookPcs, ClosePcs, EndPcs
<1>3. \A d \in Calls : pc'[d] \notin {"borrow", "consumer", "replay"}
  BY <1>1, <1>2, ClientNow DEF Goes, HookPcs
<1>4. run_state' = "RUNNING" => run_state = "RUNNING" /\ UNCHANGED <<store, consumer, live>>
  BY ClientNow DEF StopCall, DrainWakes, BeginClosing, CloseStep, ConsumerStopped, Phases, ClosePcs
<1> QED
  BY <1>3, <1>4 DEF UsersInv

(* A call in the middle of a store, consumer or client keeps it.           *)
LEMMA UsersStep ==
  ASSUME ClientInv, AllKept, UsersInv, [Next]_vars
  PROVE  UsersInv'
<1>1. CASE UNCHANGED vars
  BY <1>1 DEF vars, UsersInv
<1>2. ASSUME NEW c \in Calls,
             \/ StartCall(c) \/ Migrated(c) \/ ProducerStarted(c) \/ StartFails(c) \/ Undo(c)
             \/ AppendCall(c) \/ AppendEnds(c) \/ BorrowCall(c) \/ BorrowEnds(c)
             \/ AssignCall(c) \/ Verified(c) \/ Replayed(c) \/ HookRaises(c) \/ DrainCancelled(c)
      PROVE  UsersInv'
  <2>1. CASE StartCall(c) \/ Migrated(c) \/ ProducerStarted(c) \/ Undo(c)
    BY <2>1, UsersBeside DEF StartCall, Migrated, ProducerStarted, Undo, Creates, Closes
  <2>2. CASE StartFails(c)
    <3>1. FirstUndone[pc[c]] \in UndoPcs
      BY <2>2, UndoneIsUndo DEF StartFails
    <3> QED
      BY <2>2, <3>1, UsersBeside DEF StartFails, UndoPcs
  <2>3. CASE AppendCall(c) \/ BorrowCall(c) \/ AssignCall(c)
    BY <2>3, UsersBeside, ClientNow DEF AppendCall, BorrowCall, AssignCall
  <2>4. CASE AppendEnds(c) \/ BorrowEnds(c) \/ Verified(c) \/ Replayed(c) \/ HookRaises(c)
             \/ DrainCancelled(c)
    BY <2>4, UsersBeside DEF AppendEnds, BorrowEnds, Verified, Replayed, HookRaises, DrainCancelled
  <2> QED
    BY <1>2, <2>1, <2>2, <2>3, <2>4
<1>3. ASSUME NEW c \in Calls, AdminStarted(c)
      PROVE  UsersInv'
  <2>1. /\ run_state = "NEW" /\ store' = c /\ UNCHANGED <<svc, live>>
        /\ \A d \in Calls : pc'[d] = (IF d = c THEN "started" ELSE pc[d])
        /\ consumer'[c] = NoCall
    BY <1>3, ClientNow DEF AdminStarted, Phases, StartPcs, Goes
  <2>2. \A d \in Calls : pc[d] \notin HookPcs \cup {"borrow"}
    BY <2>1, ClientNow DEF HooksInv, UsersInv
  <2> QED
    BY <2>1, <2>2 DEF UsersInv, HookPcs
<1> QED
  BY <1>1, <1>2, <1>3, UsersHook, UsersStop DEF Next, HostCalls, Fails, Proceeds

-----------------------------------------------------------------------------
(* Theorems *)

LEMMA CountSafety == Spec => []CountInv
<1>1. Init => CountInv
  BY CountInit
<1>2. CountInv /\ [Next]_vars => CountInv'
  BY CountStep
<1> QED
  BY <1>1, <1>2, PTL DEF Spec

LEMMA DrainSafety ==
  ASSUME Rule("one_start")
  PROVE  Spec => []DrainInv
<1>1. Init => DrainInv
  BY CountInit, PhaseInit DEF DrainInv, CountInv, PhaseInv
<1>2. DrainInv /\ [Next]_vars => DrainInv'
  BY PhaseStep
<1> QED
  BY <1>1, <1>2, PTL DEF Spec

(* Every variable keeps its type, whatever the host does: the counter of    *)
(* appends, for one, never falls below zero (append).                      *)
THEOREM TypeCorrect == Spec => []TypeOK
<1>1. CountInv => TypeOK
  BY DEF CountInv
<1> QED
  BY <1>1, CountSafety, PTL

(* The inductive invariant: the counter is the number of appends under way, *)
(* the phases, and the clients a store has in each (start, append, stop).   *)
THEOREM DrainInductive ==
  ASSUME Rule("one_start")
  PROVE  Spec => []DrainInv
  BY DrainSafety

(* The drain of stop() protects every append, with hooks racing it and with *)
(* cancelled stops: the running check and the count have no await between   *)
(* them, and the event is set by the last append only (append, stop).       *)
THEOREM DrainProtectsAppends ==
  ASSUME Rule("one_start")
  PROVE  Spec => []AppendsKeepTheirClients
<1>1. DrainInv => AppendsKeepTheirClients
  BY DEF DrainInv, Phases, StoreIsOpen, AppendsKeepTheirClients
<1> QED
  BY <1>1, DrainSafety, PTL

(* One stop() closes the store, and while it is STOPPING one is there to do *)
(* it, as long as the host lets stop() wait (stop).                        *)
THEOREM OneStopWins ==
  ASSUME Rule("one_start"), Rule("await_stop")
  PROVE  Spec => []StopHasOneWinner
<1>1. Init => DrainerWaits
  BY DEF Init, DrainerWaits
<1>2. DrainInv /\ DrainerWaits /\ [Next]_vars => DrainerWaits'
  BY DrainerStep
<1>3. DrainInv /\ DrainerWaits => StopHasOneWinner
  <2> SUFFICES ASSUME DrainInv, DrainerWaits
               PROVE  StopHasOneWinner
    OBVIOUS
  <2> DEFINE stops == At(ClosePcs \cup {"drain"})
  <2>1. Cardinality(stops) <= 1
    <3>1. CASE stops = {}
      BY <3>1, FS_EmptySet
    <3>2. CASE stops # {}
      <4>1. PICK c \in stops : TRUE
        BY <3>2
      <4>2. stops = {c}
        BY <4>1, PhaseNow DEF OneAtATime
      <4> QED
        BY <4>2, FS_Singleton
    <3> QED
      BY <3>1, <3>2
  <2> QED
    BY <2>1 DEF StopHasOneWinner, DrainerWaits, At
<1> QED
  BY <1>1, <1>2, <1>3, DrainSafety, PTL DEF Spec

(* No client is ever lost, whatever fails or is cancelled but stop() itself *)
(* (start and its rollback, stop, _get_consumer, aclose).                  *)
THEOREM ClientsHaveClosers ==
  ASSUME AllKept
  PROVE  Spec => []NoClientLost
<1>1. Init => ClientInv /\ DrainerWaits
  BY CountInit, PhaseInit
     DEF Init, ClientInv, DrainInv, CountInv, PhaseInv, HooksInv, KeptInv, At, HookPcs, ClosePcs, DrainerWaits
<1>2. ClientInv /\ [Next]_vars => ClientInv'
  BY ClientStep
<1>3. ClientInv /\ DrainerWaits /\ [Next]_vars => DrainerWaits'
  BY DrainerStep, ClientNow DEF AllKept, Rule
<1>4. ClientInv /\ DrainerWaits => NoClientLost
  <2> SUFFICES ASSUME ClientInv, DrainerWaits, NEW kind \in ClientKinds, NEW c \in Calls,
                      <<kind, c>> \in live, kind \notin WillUndo(pc[c]),
                      ~(kind = "consumer" /\ pc[c] = "consumer"),
                      ~(run_state = "RUNNING" /\ store # NoCall /\ HeldBy(store, kind, c))
               PROVE  \E k \in Calls :
                        /\ kind \in StillCloses(pc[k])
                        /\ HeldBy(IF pc[k] = "drain" THEN store ELSE svc[k], kind, c)
    BY DEF NoClientLost
  <2>1. /\ run_state \in {"STOPPING", "CLOSED"} /\ HeldBy(store, kind, c)
        /\ run_state = "CLOSED" =>
             \E k \in Calls : pc[k] \in ClosePcs /\ kind \in StillCloses(pc[k])
    <3>1. Kept(kind, c)
      BY ClientNow DEF KeptInv
    <3>2. run_state # "NEW" => store # NoCall
      BY ClientNow DEF Phases
    <3> QED
      BY <3>1, <3>2, ClientNow DEF Kept, RunStates
  <2>2. CASE run_state = "STOPPING"
    BY <2>1, <2>2, ClosedKinds DEF DrainerWaits
  <2>3. CASE run_state = "CLOSED"
    <3>1. PICK k \in Calls : pc[k] \in ClosePcs /\ kind \in StillCloses(pc[k])
      BY <2>1, <2>3
    <3>2. svc[k] = store /\ pc[k] # "drain"
      BY <3>1, ClientNow DEF HooksInv, ClosePcs
    <3> QED
      BY <2>1, <3>1, <3>2
  <2> QED
    BY <2>1, <2>2, <2>3
<1> QED
  BY <1>1, <1>2, <1>3, <1>4, PTL DEF Spec

(* The phase of a store only moves on: CLOSED is the end (start, stop).     *)
THEOREM PhaseOnlyMovesOn ==
  ASSUME Rule("one_start")
  PROVE  Spec => PhaseMovesOn
<1>1. DrainInv /\ [Next]_vars => [PhaseRank[run_state'] >= PhaseRank[run_state]]_run_state
  <2> SUFFICES ASSUME DrainInv, Next, run_state' # run_state
               PROVE  PhaseRank[run_state'] >= PhaseRank[run_state]
    BY DEF vars
  <2>1. PICK c \in Calls : HostCalls(c) \/ Fails(c) \/ Proceeds(c)
    BY DEF Next
  <2>2. AdminStarted(c) \/ StopCall(c) \/ DrainWakes(c)
    BY <2>1 DEF HostCalls, Fails, Proceeds, StartCall, AppendCall, BorrowCall, AssignCall,
       StartFails, ConsumerStartFails, HookRaises, DrainCancelled, Migrated, ProducerStarted,
       Undo, AppendEnds, BorrowEnds, Verified, CheckpointRead, ConsumerStarted, Replayed,
       CloseStep, ConsumerStopped
  <2>3. \/ run_state = "NEW" /\ run_state' = "RUNNING"
        \/ run_state = "RUNNING" /\ run_state' \in {"STOPPING", "CLOSED"}
        \/ run_state = "STOPPING" /\ run_state' = "CLOSED"
    BY <2>2, PhaseNow DEF AdminStarted, StopCall, DrainWakes, BeginClosing, IsNoOp, Phases,
       StartPcs, RunStates
  <2>4. /\ PhaseRank["NEW"] = 0 /\ PhaseRank["RUNNING"] = 1
        /\ PhaseRank["STOPPING"] = 2 /\ PhaseRank["CLOSED"] = 3
    BY DEF PhaseRank
  <2> QED
    BY <2>3, <2>4
<1> QED
  BY <1>1, DrainSafety, PTL DEF Spec, PhaseMovesOn

(* With the shutdown order of the guides no call loses a client it uses:    *)
(* hooks and queries keep the pool, a replay its consumer (_get_consumer,   *)
(* aclose, query).                                                         *)
THEOREM CallsKeepClients ==
  ASSUME AllKept
  PROVE  Spec => []CallsKeepTheirClients
<1>1. Init => ClientInv /\ UsersInv
  BY CountInit, PhaseInit
     DEF Init, ClientInv, DrainInv, CountInv, PhaseInv, HooksInv, KeptInv, UsersInv, At, HookPcs, ClosePcs
<1>2. ClientInv /\ UsersInv /\ [Next]_vars => ClientInv' /\ UsersInv'
  BY ClientStep, UsersStep
<1>3. ClientInv /\ UsersInv => CallsKeepTheirClients
  <2> SUFFICES ASSUME ClientInv, UsersInv PROVE CallsKeepTheirClients
    OBVIOUS
  <2>1. StoreIsOpen /\ HooksInv /\ Phases
    BY ClientNow, PhaseNow
  <2>2. AppendsKeepTheirClients
    BY <2>1 DEF Phases, StoreIsOpen, AppendsKeepTheirClients
  <2>3. \A c \in At(HookPcs \cup {"borrow"}) : <<"pool", svc[c]>> \in live
    BY <2>1 DEF HooksInv, UsersInv, StoreIsOpen, At
  <2>4. \A c \in At({"replay"}) : <<"consumer", consumer[svc[c]]>> \in live
    BY <2>1 DEF HooksInv, UsersInv, At, HookPcs
  <2> QED
    BY <2>2, <2>3, <2>4 DEF CallsKeepTheirClients
<1> QED
  BY <1>1, <1>2, <1>3, PTL DEF Spec
=============================================================================
