----------------------------- MODULE MCOperations -----------------------------
(***************************************************************************)
(* Operations for TLC: two experiments that exclude one another, and       *)
(* symmetric requests.                                                     *)
(***************************************************************************)
EXTENDS Operations, TLC

ExcludeEachOther == [e \in Experiments |-> Experiments \ {e}]
RequireNothing == [e \in Experiments |-> {}]

TracedRequests ==
    [d \in {"lifecycle", "monetization", "notification", "daily", "session"} |->
        CASE d = "daily" -> 5 [] d = "session" -> 3 [] OTHER -> 2]

TracedStages ==
    [d \in {"lifecycle", "monetization", "notification", "daily", "session"} |->
        IF d = "lifecycle" THEN {1, 2, 3} ELSE {2, 3}]

\* The same two requests stand for those of every service.
Symmetry == Permutations(Checkers)
=============================================================================
