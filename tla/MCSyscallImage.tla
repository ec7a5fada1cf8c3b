--------------------------- MODULE MCSyscallImage ---------------------------
(* SyscallImage over two tasks of one group. *)
EXTENDS SyscallImage

CONSTANTS t1, t2

MCTgid == [t \in Task |-> "g"]

\* The policies of controller: off; all tasks; one task; the group.
P(runs, p, g, k) == [sc_func |-> runs # {}, runs |-> runs, target_pid |-> p,
                     target_tgid |-> g, syscalls |-> k]
Off      == P({}, Nil, Nil, 0)
AllOf(k) == P(Task, Nil, Nil, k)
One(k)   == P(Task, t1, Nil, k)
Group(k) == P(Task, Nil, "g", k)

MCPolicies == {Off, AllOf(2), One(1), Group(2)}
=============================================================================
