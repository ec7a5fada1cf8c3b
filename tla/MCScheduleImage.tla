-------------------------- MODULE MCScheduleImage --------------------------
(* Small instances of ScheduleImage. *)
EXTENDS ScheduleImage

CONSTANTS p1, p2, c1, c2

\* Both processes are in one group; the idle tasks are in group 0.
MCTgid == [t \in Task |-> IF t \in Cpu THEN "g0" ELSE "g1"]

\* The order of the keys in the hash maps.
MCSlot == [k \in Task \cup Pid |-> CASE k = p1 -> 1
                                     [] k = Pid0 -> 2
                                     [] k = c1 -> 3
                                     [] k = p2 -> 4
                                     [] OTHER -> 5]

\* All tasks; one process; the thread group.
AllPolicy   == [target |-> Nil, target_tgid |-> Nil]
PidPolicy   == [target |-> p1, target_tgid |-> Nil]
GroupPolicy == [target |-> Nil, target_tgid |-> "g1"]
AllPolicies == {AllPolicy, PidPolicy, GroupPolicy}
OnePolicy   == {AllPolicy}
=============================================================================
