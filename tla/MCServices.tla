------------------------------ MODULE MCServices ------------------------------
(***************************************************************************)
(* Services for TLC: symmetric requests, and the members, templates and    *)
(* learners that the runs begin with.                                      *)
(***************************************************************************)
EXTENDS Services, TLC

\* A member who is rarely there, and one who has come to use the product.
OfferedPersons ==
    {[usage |-> 50, sessions |-> 1, risky |-> TRUE, stage |-> "engaged", early |-> FALSE, timing |-> "early"],
     [usage |-> 50, sessions |-> 3, risky |-> FALSE, stage |-> "engaged", early |-> FALSE, timing |-> "control"]}

\* Two templates of a review's lesson.
SavedTemplates ==
    {[status |-> "active", objective |-> "recall", type |-> "fill_blank", source |-> "target", easy |-> FALSE],
     [status |-> "active", objective |-> "reinforcement", type |-> "multiple_choice", source |-> "vocab", easy |-> TRUE]}

\* A learner with words due and a topic, who repeats a mistake.
SavedLearners == {[due |-> TRUE, weak |-> "none", cluster |-> "named", pattern |-> TRUE, words |-> TRUE]}

\* A learner on the third day of a streak: a badge and a milestone.
ReachedStandings == {[NewStanding EXCEPT !.streak = 3]}

\* The same two requests stand for those of every service.
Symmetry == Permutations(DailyClients)
=============================================================================
