----------------------------- MODULE MCRunLease -----------------------------
(***************************************************************************)
(* RunLease for TLC: two or three interchangeable processes.               *)
(***************************************************************************)
EXTENDS RunLease, TLC

Symmetry == Permutations(Proc)

\* Bounds: how often a process may come back under a new holderId, and how many
\* leases are granted.
CONSTANTS MaxCrashes, MaxGranted
Bounded == granted <= MaxGranted /\ \A p \in Proc : incarnation[p] <= MaxCrashes
=============================================================================
