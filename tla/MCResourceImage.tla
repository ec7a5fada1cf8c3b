--------------------------- MODULE MCResourceImage ---------------------------
(* ResourceImage over two CPUs and two processes. *)
EXTENDS ResourceImage, TLC

CONSTANTS p1, p2, c1, c2, e1, e2, e3

MCSlot == (p1 :> 1) @@ (c1 :> 2) @@ (p2 :> 3) @@ (c2 :> 4)

\* Off; both processes; a process and an idle task.
MCPolicies == {{}, {p1, p2}, {p1, c1}}

\* Elements of a map are alike.
Sym == Permutations(Elem)
==============================================================================
