--------------------------- MODULE MCCoreMutations ---------------------------
(***************************************************************************)
(* Small instances of CoreMutations for TLC.                               *)
(***************************************************************************)
EXTENDS CoreMutations, TLC

\* Keys that behave alike (none, or all, in ZeroKeys), clients, workers and
\* readers are interchangeable in the safety runs.
Symmetry ==
    Permutations(Keys \ ZeroKeys) \cup Permutations(Clients)
        \cup Permutations(Workers)

=============================================================================
