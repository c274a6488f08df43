------------------------- MODULE MCChangelogReplica -------------------------
(***************************************************************************)
(* Instances of ChangelogReplica for TLC: the sets of host rules and of    *)
(* surrounding events its configurations choose from, and their symmetry.  *)
(***************************************************************************)
EXTENDS ChangelogReplica, TLC

(* Host rules: all of them, or all but the ones a run is about. *)
Disciplined == AllRules
Unruly == {}
AppendsToPartial == AllRules \ {"ready_only"}
AppendsAfterProduceError == AllRules \ {"rehydrate_after_produce_error"}

(* Surroundings. *)
Lossy == AllEnv \ {"regress"}
Busy == {"foreign", "other_owner", "crash", "append_fails", "hook_fails"}
Rebalancing == {"foreign", "trim", "hook_fails"}
Regressing == {"regress", "trim", "other_owner", "crash"}
FailingAppends == {"other_owner", "append_fails"}

Symmetric == Permutations(TPs) \cup Permutations(Tasks)
=============================================================================
