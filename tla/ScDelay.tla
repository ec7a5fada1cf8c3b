------------------------------- MODULE ScDelay -------------------------------
(***************************************************************************)
(* cpu_watcher -S: bpf/sc_delay.bpf.c times system calls with two per-CPU  *)
(* hash maps keyed by pid, and syscall_delay_print shows what comes out.   *)
(* A task may move to another CPU within a call; it may die in a call, and *)
(* its pid be given to a new task, whose first return from clone has no    *)
(* entry.  A pid outlives its tasks.                                       *)
(***************************************************************************)
EXTENDS Naturals, FiniteSets

CONSTANTS
  Pid, Cpu,
  Id,         \* system call numbers; 0 is one
  MaxEnter,   \* max_entries of SyscallEnterTime
  MaxEvents,  \* max_entries of Events
  Limit,      \* the longest delay syscall_delay_print shows
  Boot,       \* the time the tool starts at, later than Limit
  MaxClock,   \* bound: the last time
  None

VARIABLES
  clock,
  task,              \* [Pid -> where its task is]
  SyscallEnterTime,  \* [Pid -> None, or the time in the slot of each CPU]
  Events,            \* [Pid -> None, or the number in the slot of each CPU]
  line,              \* what the last step had printed
  ghost              \* history: pids whose time was left by a task that died

vars == <<clock, task, SyscallEnterTime, Events, line, ghost>>

\* A task outside a call; in call id since t; or dead.
TaskState == [at : {"user", "call", "dead"}, id : Id \cup {None}, t : Nat]
User == [at |-> "user", id |-> None, t |-> 0]

Init ==
  /\ clock = Boot
  /\ task = [p \in Pid |-> User]
  /\ SyscallEnterTime = [p \in Pid |-> None] /\ Events = [p \in Pid |-> None]
  /\ line = None /\ ghost = {}

\* bpf_map_update_elem(BPF_ANY) on CPU c: the slot of c; a new entry has 0 in the others;
\* a full map takes no new entry, and the result is not looked at.
Store(map, p, c, v, max) ==
  IF map[p] # None THEN [map EXCEPT ![p][c] = v]
  ELSE IF Cardinality({q \in Pid : map[q] # None}) < max
  THEN [map EXCEPT ![p] = [d \in Cpu |-> IF d = c THEN v ELSE 0]]
  ELSE map

\* sys_enter.
SysEnter(p, c, id) ==
  /\ task[p].at = "user"
  /\ task' = [task EXCEPT ![p] = [at |-> "call", id |-> id, t |-> clock]]
  /\ Events' = Store(Events, p, c, id, MaxEvents)
  /\ SyscallEnterTime' = Store(SyscallEnterTime, p, c, clock, MaxEnter)
  /\ line' = None
  /\ UNCHANGED <<clock, ghost>>

\* Variant: everything is shown.
ShownAll(delay) == TRUE

\* The filter of syscall_delay_print.
Shown(delay) == delay <= Limit

\* sys_exit, on whatever CPU the task is now, and the line printed for its event, which
\* gets lost in a full rb or with sc_func off.
SysExit(p, c) ==
  LET time  == SyscallEnterTime[p]
      event == Events[p]
  IN
  /\ task[p].at = "call"
  /\ task' = [task EXCEPT ![p] = User]
  /\ SyscallEnterTime' = [SyscallEnterTime EXCEPT ![p] = None]
  /\ ghost' = ghost \ {p}
  /\ \/ line' = None
     \/ /\ time # None /\ event # None
        /\ Shown(clock - time[c])
        /\ line' = [pid |-> p, id |-> event[c], delay |-> clock - time[c],
                    call |-> task[p], ghost |-> p \in ghost]
  /\ UNCHANGED <<clock, Events>>

\* exit, exit_group or a fatal signal: the call does not return.
Die(p) ==
  /\ task[p].at = "call"
  /\ task' = [task EXCEPT ![p] = [at |-> "dead", id |-> None, t |-> 0]]
  /\ ghost' = IF SyscallEnterTime[p] # None THEN ghost \cup {p} ELSE ghost
  /\ line' = None
  /\ UNCHANGED <<clock, SyscallEnterTime, Events>>

\* The pid is used again: a new task is about to return from clone, which it did not enter.
Fork(p) ==
  /\ task[p].at = "dead"
  /\ task' = [task EXCEPT ![p] = [at |-> "call", id |-> None, t |-> clock]]
  /\ line' = None
  /\ UNCHANGED <<clock, SyscallEnterTime, Events, ghost>>

Tick ==
  /\ clock < MaxClock
  /\ clock' = clock + 1
  /\ line' = None
  /\ UNCHANGED <<task, SyscallEnterTime, Events, ghost>>

Next ==
  \/ Tick
  \/ \E p \in Pid :
       \/ Die(p) \/ Fork(p)
       \/ \E c \in Cpu : SysExit(p, c) \/ \E id \in Id : SysEnter(p, c, id)
------------------------------------------------------------------------------
(* Properties. *)

Slots(V) == [Pid -> [Cpu -> V] \cup {None}]

TypeOK ==
  /\ clock \in Boot..MaxClock /\ task \in [Pid -> TaskState]
  /\ SyscallEnterTime \in Slots(Nat) /\ Events \in Slots(Id)
  /\ ghost \subseteq Pid

\* A line shows the number and the duration of the call it is about, also when the task
\* changed its CPU within the call: its time on the other CPU is then 0, the delay longer
\* than the machine's uptime and filtered out (cpu_watcher.c:527).  Only what a task that
\* died in a call left behind can be shown for the next task with its pid
\* (sc_delay.bpf.c:54, 68).
LineIsOfItsCall ==
  line # None /\ ~line.ghost =>
    line.id = line.call.id /\ line.delay = clock - line.call.t
==============================================================================
