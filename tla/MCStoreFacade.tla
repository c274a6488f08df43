---------------------------- MODULE MCStoreFacade ----------------------------
(***************************************************************************)
(* Instances of StoreFacade for TLC.                                       *)
(***************************************************************************)
EXTENDS StoreFacade, TLC

CONSTANTS c1, c2, c3, c4, c5, c6

FiveCalls == {c1, c2, c3, c4, c5}
FourCalls == {c1, c2, c3, c4}
SixCalls == {c1, c2, c3, c4, c5, c6}

AllRules == {"one_start", "await_stop", "hooks_first", "one_hook"}

(* Hosts that leave one rule out, or all but one. *)
CancelledStop == AllRules \ {"await_stop"}
OneStartOnly == {"one_start"}

CallSymmetry == Permutations(Calls)

=============================================================================
