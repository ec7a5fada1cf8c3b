----------------------------- MODULE MCLockImage -----------------------------
(* LockImage over a few threads and locks. *)
EXTENDS LockImage, TLC

CONSTANTS t1, t2, l1, l2

\* The rwlocks take every path of the probes.
TwoRw == (l1 :> "rw") @@ (l2 :> "rw")
\* Off and on for everyone.
OnAndOff == {{}, Thread}
\* Kind and the policies are closed under these permutations.
Sym == Permutations({t1, t2}) \cup Permutations({l1, l2})
==============================================================================
