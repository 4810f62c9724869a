------------------------------ MODULE OneResult ------------------------------
(***************************************************************************)
(* What the evaluation of learning sessions promises: a session accepts    *)
(* one submission, and everyone who asks for a submission's feedback is    *)
(* given the evaluation that was accepted.                                 *)
(***************************************************************************)
CONSTANTS Sessions, Submissions, Evaluations

VARIABLES
    results,    \* accepted results of each session: a submission and its evaluation
    answers     \* feedback returned: session, submission and evaluation

vars == <<results, answers>>

Init ==
    /\ results = [s \in Sessions |-> {}]
    /\ answers = {}

Accept(s, m, e) ==
    /\ results[s] = {}
    /\ results' = [results EXCEPT ![s] = {<<m, e>>}]
    /\ UNCHANGED answers

Answer(s, m, e) ==
    /\ <<m, e>> \in results[s]
    /\ answers' = answers \cup {<<s, m, e>>}
    /\ UNCHANGED results

Next ==
    \E s \in Sessions, m \in Submissions, e \in Evaluations : Accept(s, m, e) \/ Answer(s, m, e)

Spec == Init /\ [][Next]_vars

=============================================================================
