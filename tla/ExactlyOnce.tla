----------------------------- MODULE ExactlyOnce -----------------------------
(***************************************************************************)
(* What the XP write path promises to the clients of one user: of all the  *)
(* submissions of an idempotency key at most one is ever credited, and it  *)
(* is credited once, either at once or after it waited as pending.         *)
(***************************************************************************)
EXTENDS Integers

CONSTANTS Keys, MaxSends

Submissions == Keys \X (1 .. MaxSends)

VARIABLES
    pending,    \* accepted, and not yet credited
    credits     \* how often each submission was credited

SameKey(s, t) == s[1] = t[1]
Uncredited(s) == \A t \in Submissions : SameKey(s, t) => credits[t] = 0

Init ==
    /\ pending = {}
    /\ credits = [s \in Submissions |-> 0]

\* A key waits once, but a submission of a credited key may be accepted: it
\* will then never be credited.
Accept(s) ==
    /\ \A t \in pending : ~SameKey(s, t)
    /\ credits[s] = 0
    /\ pending' = pending \cup {s}
    /\ UNCHANGED credits

Credit(batch) ==
    /\ batch # {}
    /\ \A s \in batch : Uncredited(s)
    /\ credits' = [s \in Submissions |-> IF s \in batch THEN credits[s] + 1 ELSE credits[s]]
    /\ pending' = pending \ batch

CreditNow(s) ==
    /\ s \notin pending
    /\ Uncredited(s)
    /\ credits' = [credits EXCEPT ![s] = @ + 1]
    /\ UNCHANGED pending

Next ==
    \/ \E s \in Submissions : Accept(s) \/ CreditNow(s)
    \/ \E batch \in SUBSET pending : Credit(batch)

Spec == Init /\ [][Next]_<<pending, credits>>

=============================================================================
