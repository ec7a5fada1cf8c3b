---------------------------- MODULE ScheduleDelay ----------------------------
(***************************************************************************)
(* cpu_watcher -d, told by controller -e to show long waits only:          *)
(* bpf/schedule_delay.bpf.c records how long tasks wait for a CPU, and     *)
(* schedule_print shows the last wait with the tasks that ran before.  The *)
(* handler of a switch writes the wait (threshold_schedule) first and the  *)
(* tasks before (proc_histories) last; the printer reads them in the same  *)
(* order while it runs.  An idle task is identified by its CPU, as in      *)
(* struct proc_id.                                                         *)
(***************************************************************************)
EXTENDS Naturals

CONSTANTS
  Pid, Cpu,
  Min,        \* min_us: shorter waits are not shown
  MaxClock,   \* bound: the last time
  None

ProcId == Pid \cup Cpu

VARIABLES
  clock,
  run,             \* [Cpu -> the task it runs]
  st,              \* [Pid -> "sleep", "ready", "run" or "dead"]
  exiting,         \* tasks past sched_process_exit
  since,           \* history: when a task that waits began to, 0 for the others
  enter_schedule,  \* [ProcId -> enter_time, or None]; has_scheduled has the same keys
  threshold,       \* threshold_schedule[0]
  proc_histories,  \* the keys of the map
  handler,         \* [Cpu -> the task whose history its switch handler still has to write]
  func,            \* schedule_func
  printer,         \* schedule_print: [at |-> "loop" | "found" | "failed", id]
  quiet,           \* history: tasks that started with schedule_func off
  refused          \* history: proc_histories was full for a new key

sched == <<run, st, exiting, since>>
vars == <<clock, sched, enter_schedule, threshold, proc_histories, handler, func, printer,
          quiet, refused>>

Looping == [at |-> "loop", id |-> None]
NoWait  == [id |-> None, delay |-> 0, real |-> 0, quiet |-> FALSE]

Init ==
  /\ clock = 0
  /\ run = [c \in Cpu |-> c]
  /\ st = [p \in Pid |-> "sleep"] /\ exiting = {} /\ since = [i \in ProcId |-> 0]
  /\ enter_schedule = [i \in ProcId |-> None] /\ threshold = NoWait /\ proc_histories = {}
  /\ handler = [c \in Cpu |-> None]
  /\ func = FALSE /\ printer = Looping
  /\ quiet = {} /\ refused = FALSE

\* cpu_watcher is there; when it has ended, so have its programs.
Alive == printer.at # "failed"
------------------------------------------------------------------------------
(* The programs. *)

\* Variant: the time of an entry that is there is left as it is.
EnteredOnce(i) == [enter_schedule EXCEPT ![i] = IF @ = None THEN clock ELSE @]

\* The entry made, or its enter_time set.
Entered(i) == [enter_schedule EXCEPT ![i] = clock]

\* sched_wakeup.
Wakeup(p) ==
  /\ Alive /\ st[p] = "sleep"
  /\ st' = [st EXCEPT ![p] = "ready"] /\ since' = [since EXCEPT ![p] = clock]
  /\ enter_schedule' = Entered(p)
  /\ UNCHANGED <<clock, run, exiting, threshold, proc_histories, handler, func, printer,
                 quiet, refused>>

\* A new task, perhaps with the pid of a dead one: sched_wakeup_new, the only program that
\* does nothing while schedule_func is off.
WakeupNew(p) ==
  /\ Alive /\ st[p] = "dead"
  /\ st' = [st EXCEPT ![p] = "ready"] /\ since' = [since EXCEPT ![p] = clock]
  /\ enter_schedule' = IF func THEN [enter_schedule EXCEPT ![p] = clock] ELSE enter_schedule
  /\ quiet' = IF func THEN quiet \ {p} ELSE quiet \cup {p}
  /\ UNCHANGED <<clock, run, exiting, threshold, proc_histories, handler, func, printer, refused>>

\* Variant: the operands are swapped.
DelaySwapped(enter) == enter - clock

\* current_time - schedule_event->enter_time.
Delay(enter) == clock - enter

\* What becomes of the running task of CPU c: it waits again (TASK_RUNNING), sleeps or,
\* after its exit, is dead.
Leaves(c, to) ==
  \/ to = "ready"
  \/ run[c] \in Pid /\ to = (IF run[c] \in exiting THEN "dead" ELSE "sleep")

\* sched_switch up to threshold_schedule, from the running task of c to a waiting one or
\* the idle task.
SchedSwitch(c, next, to) ==
  LET prev  == run[c]
      enter == IF to = "ready" THEN Entered(prev) ELSE enter_schedule
  IN
  /\ Alive /\ handler[c] = None
  /\ next # prev /\ Leaves(c, to)
  /\ next = c \/ next \in {p \in Pid : st[p] = "ready"}
  /\ run' = [run EXCEPT ![c] = next]
  /\ st' = [p \in Pid |-> IF p = prev THEN to ELSE IF p = next THEN "run" ELSE st[p]]
  /\ exiting' = IF to = "dead" THEN exiting \ {prev} ELSE exiting
  /\ since' = [i \in ProcId |-> IF i = next THEN 0
                           ELSE IF i = prev /\ to = "ready" THEN clock ELSE since[i]]
  /\ enter_schedule' = enter
  /\ IF enter[next] = None THEN UNCHANGED <<threshold, handler>>
     ELSE /\ threshold' = [id |-> next, delay |-> Delay(enter[next]),
                           real |-> clock - since[next], quiet |-> next \in quiet]
          /\ handler' = [handler EXCEPT ![c] = next]
  /\ UNCHANGED <<clock, proc_histories, func, printer, quiet, refused>>

\* The end of sched_switch: proc_histories, which is never cleaned up, may be full.
History(c) ==
  LET i == handler[c] IN
  /\ Alive /\ i # None
  /\ \/ proc_histories' = proc_histories \cup {i} /\ UNCHANGED refused
     \/ i \notin proc_histories /\ refused' = TRUE /\ UNCHANGED proc_histories
  /\ handler' = [handler EXCEPT ![c] = None]
  /\ UNCHANGED <<clock, sched, enter_schedule, threshold, func, printer, quiet>>

\* Variant: the history goes with the task.
ExitForgets(c) ==
  /\ Alive /\ handler[c] = None /\ run[c] \in Pid \ exiting
  /\ exiting' = exiting \cup {run[c]}
  /\ enter_schedule' = [enter_schedule EXCEPT ![run[c]] = None]
  /\ proc_histories' = proc_histories \ {run[c]}
  /\ UNCHANGED <<clock, run, st, since, threshold, handler, func, printer, quiet, refused>>

\* sched_process_exit, before the last switches of the task.
Exit(c) ==
  /\ Alive /\ handler[c] = None /\ run[c] \in Pid \ exiting
  /\ exiting' = exiting \cup {run[c]}
  /\ enter_schedule' = [enter_schedule EXCEPT ![run[c]] = None]
  /\ UNCHANGED <<clock, run, st, since, threshold, proc_histories, handler, func, printer,
                 quiet, refused>>
------------------------------------------------------------------------------
(* The printer and the controller. *)

\* schedule_print reads threshold_schedule.
Read ==
  /\ printer.at = "loop" /\ func
  /\ threshold.delay > Min /\ threshold.id \in Pid
  /\ printer' = [at |-> "found", id |-> threshold.id]
  /\ UNCHANGED <<clock, sched, enter_schedule, threshold, proc_histories, handler, func, quiet, refused>>

\* It looks the task up in proc_histories; without an entry it fails, and the loop ends.
Lookup ==
  /\ printer.at = "found"
  /\ printer' = IF printer.id \in proc_histories THEN Looping
                ELSE [at |-> "failed", id |-> printer.id]
  /\ UNCHANGED <<clock, sched, enter_schedule, threshold, proc_histories, handler, func, quiet, refused>>

\* The controller.
SetFunc ==
  /\ Alive
  /\ func' = ~func
  /\ UNCHANGED <<clock, sched, enter_schedule, threshold, proc_histories, handler, printer, quiet, refused>>

Tick ==
  /\ Alive /\ clock < MaxClock
  /\ clock' = clock + 1
  /\ UNCHANGED <<sched, enter_schedule, threshold, proc_histories, handler, func, printer, quiet, refused>>

Next ==
  \/ Read \/ Lookup \/ SetFunc \/ Tick
  \/ \E p \in Pid : Wakeup(p) \/ WakeupNew(p)
  \/ \E c \in Cpu : History(c) \/ Exit(c)
                    \/ \E i \in ProcId, to \in {"ready", "sleep", "dead"} : SchedSwitch(c, i, to)
------------------------------------------------------------------------------
(* Properties. *)

TypeOK ==
  /\ clock \in 0..MaxClock /\ run \in [Cpu -> ProcId]
  /\ st \in [Pid -> {"sleep", "ready", "run", "dead"}] /\ exiting \subseteq Pid
  /\ since \in [ProcId -> 0..MaxClock] /\ enter_schedule \in [ProcId -> (0..MaxClock) \cup {None}]
  /\ threshold \in [id : ProcId \cup {None}, delay : 0..MaxClock, real : 0..MaxClock, quiet : BOOLEAN]
  /\ proc_histories \subseteq ProcId /\ handler \in [Cpu -> ProcId \cup {None}]
  /\ func \in BOOLEAN /\ quiet \subseteq Pid /\ refused \in BOOLEAN
  /\ printer \in [at : {"loop", "found", "failed"}, id : Pid \cup {None}]

\* The wait that is shown is the one the task had, although a task that is preempted after
\* its exit leaves an entry for the next task with its pid, unless that one started while
\* schedule_func was off (schedule_delay.bpf.c:74, 125, 212).
WaitIsExact == ~threshold.quiet => threshold.delay = threshold.real

\* The printer ends the tool when it finds no history (cpu_watcher.c:641-645).  That
\* happens only between the two writes of the handler for the first wait recorded of the
\* task, or when proc_histories was full.
FailsInFirstSwitchOnly ==
  printer.at = "failed" =>
    refused \/ (printer.id \notin proc_histories /\ \E c \in Cpu : handler[c] = printer.id)
==============================================================================
