------------------------------- MODULE CsDelay -------------------------------
(***************************************************************************)
(* cpu_watcher -c: bpf/cs_delay.bpf.c times schedule() from its entry to   *)
(* the next return on the CPU, with one array slot for all CPUs.  Deleting *)
(* an array element does nothing.  The handlers read the clock first and   *)
(* the slot after, and another CPU may come between.                       *)
(***************************************************************************)
EXTENDS Integers

CONSTANTS
  Cpu,
  MaxClock    \* bound: the last time

VARIABLES
  clock,
  cpu,        \* [Cpu -> where it is: see At]
  start,      \* the slot; 0 at first
  ev,         \* the event of the last step, or NoEvent
  alone       \* history: the CPU that wrote the slot last, in a set

vars == <<clock, cpu, start, ev, alone>>

\* "run"; "enter" in the entry probe with t1 read; "switch" between the probes;
\* "return" in the return probe with t2 read.  since is when the switch began.
At == {"run", "enter", "switch", "return"}
Run == [at |-> "run", since |-> 0, t |-> 0]
NoEvent == [delay |-> 0, real |-> 0, alone |-> FALSE]

Init ==
  /\ clock = 1 /\ start = 0 /\ ev = NoEvent /\ alone = {}
  /\ cpu = [c \in Cpu |-> Run]

\* A task calls schedule().  A CPU that switched to a new task, which starts in
\* ret_from_fork, never returned from the call before.
Enter(c) ==
  /\ cpu[c].at \in {"run", "switch"}
  /\ cpu' = [cpu EXCEPT ![c] = [at |-> "enter", since |-> clock, t |-> clock]]
  /\ ev' = NoEvent
  /\ UNCHANGED <<clock, start, alone>>

\* bpf_map_update_elem(&start).
Write(c) ==
  /\ cpu[c].at = "enter"
  /\ start' = cpu[c].t
  /\ cpu' = [cpu EXCEPT ![c] = [at |-> "switch", since |-> @.since, t |-> 0]]
  /\ alone' = {c}
  /\ ev' = NoEvent
  /\ UNCHANGED clock

\* The task that runs now returns from its schedule().
Return(c) ==
  /\ cpu[c].at = "switch"
  /\ cpu' = [cpu EXCEPT ![c] = [at |-> "return", since |-> @.since, t |-> clock]]
  /\ ev' = NoEvent
  /\ UNCHANGED <<clock, start, alone>>

\* Variant: the slot is cleared after it was used.
AfterReadCleared == 0

\* bpf_map_delete_elem on an array fails and leaves the slot.
AfterRead == start

Ev(c) == [delay |-> cpu[c].t - start, real |-> cpu[c].t - cpu[c].since, alone |-> c \in alone]

\* The slot is read and the event made, or lost in a full rb.
Report(c) ==
  /\ cpu[c].at = "return"
  /\ ev' = NoEvent \/ ev' = Ev(c)
  /\ start' = AfterRead
  /\ cpu' = [cpu EXCEPT ![c] = Run]
  /\ UNCHANGED <<clock, alone>>

Tick ==
  /\ clock < MaxClock
  /\ clock' = clock + 1
  /\ ev' = NoEvent
  /\ UNCHANGED <<cpu, start, alone>>

Next == Tick \/ \E c \in Cpu : Enter(c) \/ Write(c) \/ Return(c) \/ Report(c)
------------------------------------------------------------------------------
(* Properties. *)

TypeOK ==
  /\ clock \in 1..MaxClock /\ start \in 0..MaxClock /\ alone \subseteq Cpu
  /\ cpu \in [Cpu -> [at : At, since : 0..MaxClock, t : 0..MaxClock]]

\* The CPU that was the last to enter schedule() gets its own duration, although CPUs
\* that entered before it return in between, read the same slot and try to delete it
\* (cs_delay.bpf.c:49, 65).  The others get too little, or a difference below zero.
LastEntryIsExact == ev.alone => ev.delay = ev.real
==============================================================================
