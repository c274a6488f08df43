------------------------------ MODULE Appender ------------------------------
(***************************************************************************)
(* Appender.append of _write.py: produce first, then write SQLite.  Each   *)
(* action is the code between two awaits; several calls may be under way.  *)
(*                                                                         *)
(*   idle --StartAppend--> sending --Produce--> landed --CommitAppend-->   *)
(*        committed --AppendReturns--> idle                                *)
(*                                                                         *)
(* A call can end early at each of its awaits: the produce fails, whether  *)
(* or not the broker wrote the record; the transaction fails or is         *)
(* cancelled; the call is cancelled after its commit.                      *)
(***************************************************************************)
EXTENDS Replica

CONSTANTS Tasks,   \* the host's tasks that call append
          MaxLog,  \* bound: the longest changelog
          MaxIds   \* bound: message ids minted, by this instance and others

VARIABLES
  app,       \* app[t]: the append call of task t
  minted     \* the last message id minted

appVars == <<app, minted>>

AppPcs == {"idle", "sending", "landed", "committed"}
IdleApp == [pc |-> "idle", tp |-> NoTP, id |-> 0, off |-> NoOffset]

AppendsOn(tp) == {t \in Tasks : app[t].tp = tp}

(* append() up to the await of send_and_wait: the key and the payload are  *)
(* validated and encoded, a fresh message id is minted.  A status other    *)
(* than READY is only logged.                                              *)
StartAppend(t, tp) ==
  /\ app[t].pc = "idle"
  /\ minted < MaxIds
  /\ minted' = minted + 1
  /\ app' = [app EXCEPT ![t] = [pc |-> "sending", tp |-> tp, id |-> minted + 1, off |-> NoOffset]]
  /\ UNCHANGED <<brokerVars, tableVars, entry>>

(* The broker writes the record.  Done again from "landed", it is the      *)
(* producer's own resend after a lost acknowledgement, which a producer    *)
(* without idempotence turns into a second copy under the same message id; *)
(* the call learns the offset of the last copy.                            *)
Produce(t) ==
  /\ app[t].pc \in {"sending", "landed"}
  /\ LogEnd(app[t].tp) < MaxLog
  /\ log' = [log EXCEPT ![app[t].tp] = Append(@, LogRecord("record", app[t].id))]
  /\ app' = [app EXCEPT ![t].pc = "landed", ![t].off = LogEnd(app[t].tp)]
  /\ UNCHANGED <<logStart, tableVars, entry, minted>>

(* ChangelogProduceError: a KafkaError, or an acknowledgement without a    *)
(* usable offset.  From "landed" the broker did write the record.          *)
ProduceFails(t) ==
  /\ app[t].pc \in {"sending", "landed"}
  /\ app' = [app EXCEPT ![t] = IdleApp]
  /\ UNCHANGED <<brokerVars, tableVars, entry, minted>>

(* The transaction of apply_materialization: the row and the checkpoint,   *)
(* both or neither.                                                        *)
CommitAppend(t) ==
  /\ app[t].pc = "landed"
  /\ rows' = InsertRecord(rows, app[t].tp, app[t].id, app[t].off)
  /\ ckpt' = [ckpt EXCEPT ![app[t].tp] = UpsertCheckpoint(@, app[t].off)]
  /\ app' = [app EXCEPT ![t].pc = "committed"]
  /\ UNCHANGED <<brokerVars, owned, entry, minted>>

(* StorageError, or a cancellation, in the transaction or on the way out.  *)
MaterializeFails(t) ==
  /\ app[t].pc \in {"landed", "committed"}
  /\ app' = [app EXCEPT ![t] = IdleApp]
  /\ UNCHANGED <<brokerVars, tableVars, entry, minted>>

(* Back from the pool's release: the in-memory write-back, and return. *)
AppendReturns(t) ==
  /\ app[t].pc = "committed"
  /\ entry' = [entry EXCEPT ![app[t].tp] = RecordApplied(@, app[t].off)]
  /\ app' = [app EXCEPT ![t] = IdleApp]
  /\ UNCHANGED <<brokerVars, tableVars, minted>>
=============================================================================
