--------------------------- MODULE ChangelogTopics ---------------------------
(***************************************************************************)
(* ChangelogTopics.ensure_and_verify(): list, create, describe, each an    *)
(* await on the admin client, and the cache of the partitions that passed. *)
(* Operations and other nodes create and delete changelogs at any moment.  *)
(***************************************************************************)
EXTENDS Naturals

CONSTANTS
  TPs,            \* source partitions
  Topics,         \* changelog topics
  NameOf          \* changelog_name: the changelog of a source partition

ASSUME NameOfAssumption == NameOf \in [TPs -> Topics]

VARIABLES
  topic,     \* per changelog, its cleanup.policy, or "absent"
  checked,   \* _checked
  call,      \* per partition, where its ensure_and_verify() is
  existed,   \* history: the changelogs that ever existed
  reported   \* the changelogs reported as compacted by this process

topicVars == <<topic, checked, call, existed, reported>>

Policies == {"delete", "compact"}

TopicsInit ==
  /\ topic = [n \in Topics |-> "absent"]
  /\ checked = {}
  /\ call = [tp \in TPs |-> "idle"]
  /\ existed = {}
  /\ reported = {}

Exists(tp) == topic[NameOf[tp]] # "absent"
Goes(tp, pc) == call' = [call EXCEPT ![tp] = pc]
Creates(n, policy) == topic' = [topic EXCEPT ![n] = policy] /\ existed' = existed \cup {n}

Caches(tp) == Goes(tp, "idle") /\ checked' = checked \cup {tp}
Raises(tp) == Goes(tp, "idle") /\ UNCHANGED checked

-----------------------------------------------------------------------------
(* ensure_and_verify, with the flags of the configuration *)

Ensure(tp) ==
  /\ call[tp] = "idle" /\ tp \notin checked
  /\ Goes(tp, "list")
  /\ UNCHANGED <<topic, checked, existed, reported>>

(* Mutant of AfterCreate: a changelog of somebody else is taken as it is. *)
AfterCreateUnchecked(tp, verify, code) ==
  IF verify /\ code = "none" THEN Goes(tp, "verify") /\ UNCHANGED checked ELSE Caches(tp)

AfterCreate(tp, verify, code) ==
  IF verify THEN Goes(tp, "verify") /\ UNCHANGED checked ELSE Caches(tp)

ListTopics(tp, create, verify) ==
  /\ call[tp] = "list"
  /\ IF Exists(tp) THEN AfterCreate(tp, verify, "none")
     ELSE IF create THEN Goes(tp, "create") /\ UNCHANGED checked
     ELSE Raises(tp)
  /\ UNCHANGED <<topic, existed, reported>>

(* What the broker answers for the topic. *)
CodesOf(tp) == IF Exists(tp) THEN {"exists", "refused"} ELSE {"none", "refused"}

(* Mutant of Created: the codes of the response are not read. *)
CreatedAlways(code) == TRUE

Created(code) == code \in {"none", "exists"}

CreateTopic(tp, verify, code) ==
  /\ call[tp] = "create"
  /\ code \in CodesOf(tp)
  /\ IF Created(code) THEN AfterCreate(tp, verify, code) ELSE Raises(tp)
  /\ IF code = "none" THEN Creates(NameOf[tp], "delete") ELSE UNCHANGED <<topic, existed>>
  /\ UNCHANGED reported

(* A missing permission or a missing topic is an error code: proceed. *)
VerifyPolicy(tp, allowed) ==
  /\ call[tp] = "verify"
  /\ Caches(tp)
  /\ reported' = IF allowed /\ topic[NameOf[tp]] = "compact"
                   THEN reported \cup {NameOf[tp]} ELSE reported
  /\ UNCHANGED <<topic, existed>>

(* Mutant of AfterFailure: a failure is remembered. *)
AfterFailureNeverAgain(tp) == Goes(tp, "failed") /\ UNCHANGED checked

AfterFailure(tp) == Raises(tp)

(* A request fails (KafkaError, so RehydrateError), a creation with the     *)
(* topic created or not.                                                   *)
RequestFails(tp) ==
  /\ call[tp] # "idle"
  /\ AfterFailure(tp)
  /\ \/ UNCHANGED <<topic, existed>>
     \/ call[tp] = "create" /\ ~Exists(tp) /\ Creates(NameOf[tp], "delete")
  /\ UNCHANGED reported

-----------------------------------------------------------------------------
(* Around it *)

OpsCreate(n, policy) ==
  /\ topic[n] = "absent"
  /\ Creates(n, policy)
  /\ UNCHANGED <<checked, call, reported>>

OpsDelete(n) ==
  /\ topic[n] # "absent"
  /\ topic' = [topic EXCEPT ![n] = "absent"]
  /\ UNCHANGED <<checked, call, existed, reported>>

(* The store is gone, its cache and its calls with it. *)
Forget ==
  /\ checked' = {} /\ reported' = {}
  /\ call' = [tp \in TPs |-> "idle"]
  /\ UNCHANGED <<topic, existed>>
==============================================================================
