----------------------------- MODULE PreemptTime -----------------------------
(***************************************************************************)
(* cpu_watcher -p: bpf/preempt.bpf.c notes the time at which a task is     *)
(* preempted and takes it back in finish_task_switch, which runs on the    *)
(* same CPU in the task switched to; preempt_print and the loop average    *)
(* the durations of each round.  preempt_ctrl is read and ignored.  The    *)
(* idle task of a CPU, named by the CPU, is never preempted.               *)
(***************************************************************************)
EXTENDS Naturals, Sequences

CONSTANTS
  Pid, Cpu,
  MaxClock,   \* bound: the last time
  MaxRing,    \* bound: events rb holds
  MaxCount,   \* bound: events of a round
  None

VARIABLES
  clock,
  cpu,           \* [Cpu -> the task it runs, and what finish_task_switch still has to do]
  preemptTime,   \* [Pid -> a time, or None]
  rb,            \* the events not yet read
  count, sum,    \* preempt_count, sum_preemptTime
  started,       \* preempt_start_print
  loop,          \* "poll", "print", or "dead" of a division by zero
  lost           \* history: pids of which an event found rb full

vars == <<clock, cpu, preemptTime, rb, count, sum, started, loop, lost>>

\* prev is the task a switch in progress comes from; since and preempted are history.
OnCpu == [cur : Pid \cup Cpu, prev : Pid \cup Cpu \cup {None}, since : Nat, preempted : BOOLEAN]

Running == {cpu[c].cur : c \in Cpu} \cup {cpu[c].prev : c \in Cpu}

Init ==
  /\ clock = 0 /\ rb = <<>> /\ count = 0 /\ sum = 0 /\ started = FALSE
  /\ loop = "poll" /\ lost = {}
  /\ preemptTime = [p \in Pid |-> None]
  /\ cpu = [c \in Cpu |-> [cur |-> c, prev |-> None, since |-> 0, preempted |-> FALSE]]
------------------------------------------------------------------------------
\* sched_switch from the running task to one that runs nowhere, or to the idle task.
SchedSwitch(c, next, preempt) ==
  LET p == cpu[c].cur IN
  /\ cpu[c].prev = None /\ next \in Pid \cup {c} /\ next \notin Running
  /\ preempt => p \in Pid
  /\ cpu' = [cpu EXCEPT ![c] = [cur |-> next, prev |-> p, since |-> clock, preempted |-> preempt]]
  /\ preemptTime' = IF preempt THEN [preemptTime EXCEPT ![p] = clock] ELSE preemptTime
  /\ UNCHANGED <<clock, rb, count, sum, started, loop, lost>>

\* Variant: the entry is not deleted.
TakenKept(p) == preemptTime

\* bpf_map_delete_elem after the event was submitted.
Taken(p) == [preemptTime EXCEPT ![p] = None]

\* finish_task_switch.  With rb full it returns before the entry is deleted.
Finish(c) ==
  LET p == cpu[c].prev
      t == IF p \in Pid THEN preemptTime[p] ELSE None
  IN
  /\ p # None
  /\ cpu' = [cpu EXCEPT ![c] = [cur |-> @.cur, prev |-> None, since |-> 0, preempted |-> FALSE]]
  /\ IF t = None THEN UNCHANGED <<preemptTime, rb, lost>>
     ELSE IF Len(rb) < MaxRing
     THEN /\ rb' = Append(rb, [prev |-> p, duration |-> clock - t, lost |-> p \in lost,
                               real |-> clock - cpu[c].since, preempted |-> cpu[c].preempted])
          /\ preemptTime' = Taken(p)
          /\ lost' = lost \ {p}
     ELSE lost' = lost \cup {p} /\ UNCHANGED <<preemptTime, rb>>
  /\ UNCHANGED <<clock, count, sum, started, loop>>

\* ring_buffer__poll calls preempt_print for what is in rb.
Poll ==
  /\ loop = "poll"
  /\ \/ /\ rb # <<>> /\ count < MaxCount
        /\ rb' = Tail(rb)
        /\ count' = count + 1 /\ sum' = sum + Head(rb).duration
        /\ UNCHANGED loop
     \/ loop' = "print" /\ UNCHANGED <<rb, count, sum>>
  /\ UNCHANGED <<clock, cpu, preemptTime, started, lost>>

\* The average of the round, from the second on; then the counters start anew.
Round ==
  /\ loop = "print"
  /\ loop' = IF started /\ count = 0 THEN "dead" ELSE "poll"
  /\ started' = TRUE
  /\ count' = 0 /\ sum' = 0
  /\ UNCHANGED <<clock, cpu, preemptTime, rb, lost>>

Tick ==
  /\ clock < MaxClock
  /\ clock' = clock + 1
  /\ UNCHANGED <<cpu, preemptTime, rb, count, sum, started, loop, lost>>

Next ==
  \/ Tick \/ Poll \/ Round
  \/ \E c \in Cpu : Finish(c) \/ \E p \in Pid \cup Cpu, preempt \in BOOLEAN : SchedSwitch(c, p, preempt)
------------------------------------------------------------------------------
(* Properties. *)

TypeOK ==
  /\ clock \in 0..MaxClock /\ cpu \in [Cpu -> OnCpu]
  /\ preemptTime \in [Pid -> (0..MaxClock) \cup {None}]
  /\ count \in Nat /\ sum \in Nat /\ started \in BOOLEAN
  /\ loop \in {"poll", "print", "dead"} /\ lost \subseteq Pid

\* An event is about a preemption and has its duration, however switches of other CPUs
\* fall between, unless an event of the same task was lost in a full rb before: that
\* leaves an entry which a later switch reports, preemption or not (preempt.bpf.c:74).
EventIsOfAPreemption ==
  \A i \in 1..Len(rb) : ~rb[i].lost => rb[i].preempted /\ rb[i].duration = rb[i].real
==============================================================================
