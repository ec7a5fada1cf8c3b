---------------------------- MODULE MCCpuWatcher ----------------------------
(* CpuWatcher with a few tasks, CPUs, addresses and locks. *)
EXTENDS CpuWatcher, TLC

CONSTANTS t1, t2, t3, p1, p2

\* Locks that hash to the same slot, to neighbours, and round the end of the table.
MCPtr == {1, 3, 4, 5, 7}
\* No watcher tells its tasks apart.
Sym == Permutations({t1, t2, t3}) \cup Permutations({p1, p2})
=============================================================================
