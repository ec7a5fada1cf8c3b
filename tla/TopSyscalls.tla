---------------------------- MODULE TopSyscalls -----------------------------
(***************************************************************************)
(* The ranking of a process's system calls: update_syscalls of             *)
(* include/helpers.h keeps, beside a counter for every system call number, *)
(* the three most frequent numbers up to date one call at a time.  The     *)
(* places all start at number 0, which is itself a system call (read), so  *)
(* one number may hold several places.                                     *)
(***************************************************************************)
EXTENDS Naturals

CONSTANTS
  Sys,       \* the system call numbers, 0 .. NR_syscalls - 1
  MaxCount   \* bound: calls of one number in a behaviour

ASSUME TopAssumption == 0 \in Sys /\ Sys \subseteq Nat /\ MaxCount \in Nat

VARIABLES
  syscalls,  \* [Sys -> how often it was called]
  top        \* first_syscall, second_syscall, third_syscall

top_vars == <<syscalls, top>>

Place == 1..3

\* struct syscall_hash is created zeroed.
TopInit ==
  /\ syscalls = [s \in Sys |-> 0]
  /\ top = [i \in Place |-> 0]

\* Places i and i + 1 change their numbers when they are out of order under c.
Bubble(p, c, i) ==
  IF c[p[i + 1]] > c[p[i]] THEN [p EXCEPT ![i] = p[i + 1], ![i + 1] = p[i]] ELSE p

\* Variant: the last comparison of the bubble sort is missing.
SortedShort(p, c) == Bubble(Bubble(p, c, 2), c, 1)

Sorted(p, c) == Bubble(Bubble(Bubble(p, c, 2), c, 1), c, 2)

\* A number that beats the third place pushes those it beats one place down.
Inserted(p, c, s) ==
  IF c[s] > c[p[2]]
  THEN IF c[s] > c[p[1]] THEN [p EXCEPT ![1] = s, ![2] = p[1], ![3] = p[2]]
                         ELSE [p EXCEPT ![2] = s, ![3] = p[2]]
  ELSE [p EXCEPT ![3] = s]

Listed(s) == \E i \in Place : top[i] = s

\* One turn of the loop of update_syscalls, for the system call s.
Update(s) ==
  /\ syscalls[s] < MaxCount
  /\ syscalls' = [syscalls EXCEPT ![s] = @ + 1]
  /\ top' = IF Listed(s) THEN Sorted(top, syscalls')
            ELSE IF syscalls'[s] > syscalls'[top[3]] THEN Inserted(top, syscalls', s)
            ELSE top

TopNext == \E s \in Sys : Update(s)

TopSpec == TopInit /\ [][TopNext]_top_vars
-----------------------------------------------------------------------------
(* Properties. *)

TopTypeOK == syscalls \in [Sys -> Nat] /\ top \in [Place -> Sys]

\* The places are in order.
Ordered == syscalls[top[3]] <= syscalls[top[2]] /\ syscalls[top[2]] <= syscalls[top[1]]

\* The incremental ranking agrees with a count from scratch: the places are in
\* order, and no number without a place was called more often than the number in
\* the third place, whatever the order of the calls and the ties between them
\* (helpers.h:115-145).
RankingIsRight ==
  /\ Ordered
  /\ \A s \in Sys : ~Listed(s) => syscalls[s] <= syscalls[top[3]]
=============================================================================
