---------------------------- MODULE SyscallImage ----------------------------
(***************************************************************************)
(* The syscall image: the handlers of bpf/syscall_image.bpf.c, which       *)
(* collect the system calls of every task in batches, the ring buffer, and *)
(* the statistics print_syscall of proc_image.c keeps of what it receives. *)
(* The entry of a task is touched by handlers of that task only, so a      *)
(* handler is one step, but for its write of the variables all CPUs share; *)
(* what interleaves are the tasks, the controller that changes the policy  *)
(* at any time, and the printer, which looks at the policy of its own      *)
(* moment.  Times are abstracted to the delay a call turns out to have had.*)
(***************************************************************************)
EXTENDS Naturals, Sequences, FiniteSets

CONSTANTS
  Task,        \* thread ids
  Tgid,        \* [Task -> thread group]
  Ids,         \* system call numbers other than 0
  Delays,      \* the delays a call may have, in some unit
  Policies,    \* what the controller may write into sc_ctrl_map
  MAX_SYSCALL_COUNT,
  MaxEntries,  \* max_entries of proc_syscall
  RingSize,    \* events syscall_rb has room for
  MaxCalls,    \* bound: system calls of a behaviour
  MaxCmds,     \* bound: policy changes of a behaviour
  Nil          \* -1 of the targets; no map entry

Groups == {Tgid[t] : t \in Task}

\* sc_ctrl.  runs is what sc_func, enable_myproc and is_container come to: the
\* tasks whose handlers get past the early returns.
Policy == [sc_func : BOOLEAN, runs : SUBSET Task, target_pid : Task \cup {Nil},
           target_tgid : Groups \cup {Nil}, syscalls : 0..MAX_SYSCALL_COUNT]

ASSUME SyscallAssumption ==
  /\ Nil \notin Task /\ Nil \notin Groups
  /\ Delays \subseteq Nat \ {0} /\ Ids \subseteq Nat \ {0}
  /\ MAX_SYSCALL_COUNT \in Nat \ {0} /\ RingSize \in Nat
  /\ Policies \subseteq {p \in Policy : IF p.sc_func THEN p.syscalls > 0 ELSE p.runs = {}}

\* syscall_seq in the map; enter_time is left out (see Exit).
Entry == [count : 0..MAX_SYSCALL_COUNT, sum_delay : Nat, max_delay : Nat, min_delay : Nat,
          proc_count : Nat, proc_sd : Nat, record : [1..MAX_SYSCALL_COUNT -> Ids \cup {0}]]
ASSUME SyscallNilAssumption == Nil \notin Entry

\* "kernel" is in a call; "drop_pid" and "drop_tgid" are in sys_exit, about to
\* remember the target.
At == {"user", "kernel", "drop_pid", "drop_tgid", "dead"}

VARIABLES
  st,            \* [Task -> where it is: see At]
  sc_ctrl, cmds, \* the policy, and how often it was changed
  proc_syscall,  \* [Task -> Entry or Nil]
  pre_target_pid, pre_target_tgid,
  ring,          \* syscall_rb
  env,           \* the totals of print_syscall
  calls,         \* system calls so far
  \* History, read by no guard.
  since,         \* [Task -> ids of its calls since its batch began]
  whole,         \* [Task -> they were all recorded: its handler ran, t selected]
  odd,           \* [Task -> a call was counted without its delay, or the reverse]
  tainted        \* such a batch has entered env

ghost == <<since, whole, odd, tainted>>
vars == <<st, sc_ctrl, cmds, proc_syscall, pre_target_pid, pre_target_tgid, ring, env,
          calls, ghost>>

\* The policy proc_image starts with has sc_func = false.
Init ==
  /\ st = [t \in Task |-> "user"]
  /\ sc_ctrl \in {p \in Policies : ~p.sc_func} /\ cmds = 0
  /\ proc_syscall = [t \in Task |-> Nil]
  /\ pre_target_pid = Nil /\ pre_target_tgid = Nil
  /\ ring = <<>>
  /\ env = [sum_delay |-> 0, max_delay |-> 0, min_delay |-> 0, sum_count |-> 0]
  /\ calls = 0
  /\ since = [t \in Task |-> <<>>]
  /\ whole = [t \in Task |-> TRUE]
  /\ odd = [t \in Task |-> FALSE] /\ tainted = FALSE
-----------------------------------------------------------------------------
Runs(t) == t \in sc_ctrl.runs

\* The condition on the targets that guards the sequence and the process totals.
Selected(t) ==
  \/ sc_ctrl.target_tgid = Nil /\ sc_ctrl.target_pid \in {Nil, t}
  \/ sc_ctrl.target_tgid # Nil /\ sc_ctrl.target_tgid = Tgid[t]

Room == Cardinality({u \in Task : proc_syscall[u] # Nil}) < MaxEntries

NewEntry == [count |-> 0, sum_delay |-> 0, max_delay |-> 0, min_delay |-> 0,
             proc_count |-> 0, proc_sd |-> 0, record |-> [i \in 1..MAX_SYSCALL_COUNT |-> 0]]

\* Variant: the id is stored after the increment, one slot off.
RecordedLate(e, t, id) ==
  IF e.count = MAX_SYSCALL_COUNT THEN e
  ELSE [e EXCEPT !.count = e.count + 1,
                 !.record = IF Selected(t) THEN [e.record EXCEPT ![e.count] = id] ELSE e.record]

\* sys_enter, the entry of the task: a full sequence is left as it is.
Recorded(e, t, id) ==
  IF e.count = MAX_SYSCALL_COUNT THEN e
  ELSE [e EXCEPT !.count = e.count + 1,
                 !.record = IF Selected(t) THEN [e.record EXCEPT ![e.count + 1] = id] ELSE e.record]

\* A task enters the kernel and sys_enter runs.
Enter(t, id) ==
  LET e == proc_syscall[t] IN
  /\ st[t] = "user" /\ calls < MaxCalls
  /\ st' = [st EXCEPT ![t] = "kernel"]
  /\ calls' = calls + 1
  /\ since' = [since EXCEPT ![t] = IF Runs(t) /\ e = Nil THEN <<id>> ELSE Append(@, id)]
  /\ whole' = [whole EXCEPT ![t] = Runs(t) /\ Selected(t) /\ (e = Nil \/ @)]
  /\ \/ /\ ~Runs(t)
        /\ odd' = [odd EXCEPT ![t] = TRUE]
        /\ UNCHANGED proc_syscall
     \/ /\ Runs(t) /\ e = Nil
        /\ proc_syscall' = IF Room THEN [proc_syscall EXCEPT ![t] = Recorded(NewEntry, t, id)]
                                   ELSE proc_syscall
        /\ odd' = [odd EXCEPT ![t] = FALSE]
     \/ /\ Runs(t) /\ e # Nil
        /\ proc_syscall' = [proc_syscall EXCEPT ![t] = Recorded(e, t, id)]
        /\ odd' = [odd EXCEPT ![t] = @ \/ e.count = MAX_SYSCALL_COUNT]
  /\ UNCHANGED <<sc_ctrl, cmds, pre_target_pid, pre_target_tgid, ring, env, tainted>>

\* The delay of the call that returns is added to the entry.
Delayed(e, d) ==
  [e EXCEPT !.sum_delay = e.sum_delay + d,
            !.max_delay = IF d > e.max_delay THEN d ELSE e.max_delay,
            !.min_delay = IF e.min_delay = 0 \/ d < e.min_delay THEN d ELSE e.min_delay]

\* Variant: the sum of the delays is not reset with the count.
ResetCountOnly(e) == [e EXCEPT !.count = 0]

Reset(e) == [e EXCEPT !.sum_delay = 0, !.count = 0]

\* The first batch under a new target is dropped.
SwitchedPid(t) ==
  /\ sc_ctrl.target_tgid = Nil /\ sc_ctrl.target_pid = t
  /\ sc_ctrl.target_pid # pre_target_pid
SwitchedTgid(t) ==
  /\ sc_ctrl.target_tgid # Nil /\ sc_ctrl.target_tgid = Tgid[t]
  /\ sc_ctrl.target_tgid # pre_target_tgid

\* A finished batch enters the totals of a selected task.
Totalled(e, t) ==
  IF Selected(t) THEN [e EXCEPT !.proc_count = e.proc_count + e.count,
                                !.proc_sd = e.proc_sd + e.sum_delay]
  ELSE e

\* The event: filled tells whether proc_count and proc_sd were written; odd and
\* cmds are history.
EventOf(e, t) == [t |-> t, sum_delay |-> e.sum_delay, max_delay |-> e.max_delay,
                  min_delay |-> e.min_delay, count |-> e.count, filled |-> Selected(t),
                  odd |-> odd[t], cmds |-> cmds]

\* Nothing of a batch is kept: the next one begins.
NewBatch(t) ==
  since' = [since EXCEPT ![t] = <<>>] /\ whole' = [whole EXCEPT ![t] = TRUE]

\* sys_exit of a task with an entry whose batch is complete; e has the delay.
Flush(t, e) ==
  \/ /\ SwitchedPid(t) \/ SwitchedTgid(t)
     /\ st' = [st EXCEPT ![t] = IF SwitchedPid(t) THEN "drop_pid" ELSE "drop_tgid"]
     /\ proc_syscall' = [proc_syscall EXCEPT ![t] = Reset(e)]
     /\ NewBatch(t)
     /\ UNCHANGED ring
  \/ /\ ~SwitchedPid(t) /\ ~SwitchedTgid(t)
     /\ st' = [st EXCEPT ![t] = "user"]
     /\ IF Len(ring) < RingSize
        THEN /\ ring' = Append(ring, EventOf(e, t))
             /\ proc_syscall' = [proc_syscall EXCEPT ![t] = Reset(Totalled(e, t))]
             /\ NewBatch(t)
        ELSE /\ proc_syscall' = [proc_syscall EXCEPT ![t] = Totalled(e, t)]
             /\ UNCHANGED <<ring, since, whole>>

\* The call returns and sys_exit runs.  The delay is measured from the enter_time
\* of the entry: that of this call, or of an earlier one when sys_enter did not
\* run for it; either way some positive delay.
Exit(t, d) ==
  LET e == proc_syscall[t] IN
  /\ st[t] = "kernel"
  /\ \/ /\ ~Runs(t) \/ e = Nil
        /\ st' = [st EXCEPT ![t] = "user"]
        /\ odd' = [odd EXCEPT ![t] = TRUE]
        /\ UNCHANGED <<proc_syscall, ring, since, whole>>
     \/ /\ Runs(t) /\ e # Nil /\ e.count < sc_ctrl.syscalls
        /\ st' = [st EXCEPT ![t] = "user"]
        /\ proc_syscall' = [proc_syscall EXCEPT ![t] = Delayed(e, d)]
        /\ UNCHANGED <<ring, since, whole, odd>>
     \/ /\ Runs(t) /\ e # Nil /\ e.count >= sc_ctrl.syscalls
        /\ Flush(t, Delayed(e, d))
        /\ UNCHANGED odd
  /\ UNCHANGED <<sc_ctrl, cmds, pre_target_pid, pre_target_tgid, env, calls, tainted>>

\* A batch was dropped: the variable all CPUs share is written, with the target the
\* control map holds by now.
Remember(t) ==
  /\ st[t] \in {"drop_pid", "drop_tgid"}
  /\ st' = [st EXCEPT ![t] = "user"]
  /\ pre_target_pid' = IF st[t] = "drop_pid" THEN sc_ctrl.target_pid ELSE pre_target_pid
  /\ pre_target_tgid' = IF st[t] = "drop_tgid" THEN sc_ctrl.target_tgid ELSE pre_target_tgid
  /\ UNCHANGED <<sc_ctrl, cmds, proc_syscall, ring, env, calls, ghost>>

\* exit(2) does not return: sched_process_exit removes the entry.  The pid is free.
Die(t) ==
  /\ st[t] = "kernel"
  /\ st' = [st EXCEPT ![t] = "dead"]
  /\ proc_syscall' = IF sc_ctrl.sc_func THEN [proc_syscall EXCEPT ![t] = Nil] ELSE proc_syscall
  /\ UNCHANGED <<sc_ctrl, cmds, pre_target_pid, pre_target_tgid, ring, env, calls, ghost>>

\* A new task gets the pid.  Its first calls belong to no batch of the dead one.
Spawn(t) ==
  /\ st[t] = "dead"
  /\ st' = [st EXCEPT ![t] = "user"]
  /\ since' = [since EXCEPT ![t] = <<>>]
  /\ whole' = [whole EXCEPT ![t] = proc_syscall[t] = Nil]
  /\ odd' = [odd EXCEPT ![t] = proc_syscall[t] # Nil]
  /\ UNCHANGED <<sc_ctrl, cmds, proc_syscall, pre_target_pid, pre_target_tgid, ring, env, calls,
                 tainted>>

\* update_sc_ctrl_map.
SetPolicy(p) ==
  /\ cmds < MaxCmds /\ cmds' = cmds + 1
  /\ p # sc_ctrl /\ sc_ctrl' = p
  /\ UNCHANGED <<st, proc_syscall, pre_target_pid, pre_target_tgid, ring, env, calls, ghost>>
-----------------------------------------------------------------------------
(* print_syscall. *)

\* The totals of the system.
Added(x, e) ==
  [sum_delay |-> x.sum_delay + e.sum_delay,
   max_delay |-> IF e.max_delay > x.max_delay THEN e.max_delay ELSE x.max_delay,
   min_delay |-> IF x.min_delay = 0 \/ e.min_delay < x.min_delay THEN e.min_delay ELSE x.min_delay,
   sum_count |-> x.sum_count + e.count]

\* Variant: every event is printed.
PrintsAll(e) == TRUE

\* The rows it prints, and so the events whose proc_count it divides by.
Prints(e) ==
  \/ sc_ctrl.target_pid = Nil /\ sc_ctrl.target_tgid = Nil
  \/ sc_ctrl.target_pid = e.t
  \/ sc_ctrl.target_tgid = Tgid[e.t]

\* The event at the head of the ring buffer is consumed.
PrintSyscall ==
  /\ ring # <<>>
  /\ ring' = Tail(ring)
  /\ env' = IF sc_ctrl.sc_func THEN Added(env, Head(ring)) ELSE env
  /\ tainted' = (tainted \/ (sc_ctrl.sc_func /\ Head(ring).odd))
  /\ UNCHANGED <<st, sc_ctrl, cmds, proc_syscall, pre_target_pid, pre_target_tgid, calls,
                 since, whole, odd>>
-----------------------------------------------------------------------------
Next ==
  \/ \E t \in Task :
       \/ \E id \in Ids : Enter(t, id)
       \/ \E d \in Delays : Exit(t, d)
       \/ Remember(t) \/ Die(t) \/ Spawn(t)
  \/ \E p \in Policies : SetPolicy(p)
  \/ PrintSyscall

Spec == Init /\ [][Next]_vars
-----------------------------------------------------------------------------
(* Properties. *)

RingEvent == [t : Task, sum_delay : Nat, max_delay : Nat, min_delay : Nat,
              count : 0..MAX_SYSCALL_COUNT, filled : BOOLEAN, odd : BOOLEAN,
              cmds : Nat]

\* The types; in particular count stays within record_syscall.
TypeOK ==
  /\ st \in [Task -> At]
  /\ sc_ctrl \in Policy /\ cmds \in Nat /\ calls \in Nat
  /\ proc_syscall \in [Task -> Entry \cup {Nil}]
  /\ pre_target_pid \in Task \cup {Nil} /\ pre_target_tgid \in Groups \cup {Nil}
  /\ ring \in Seq(RingEvent) /\ Len(ring) <= RingSize
  /\ env \in [sum_delay : Nat, max_delay : Nat, min_delay : Nat, sum_count : Nat]
  /\ since \in [Task -> Seq(Ids)]
  /\ whole \in [Task -> BOOLEAN] /\ odd \in [Task -> BOOLEAN] /\ tainted \in BOOLEAN

\* The sequence of a task whose calls were all recorded since its batch began is
\* the sequence of calls it made, in order and without a gap, up to the capacity
\* of record_syscall: a full ring buffer prolongs the batch but does not disturb it
\* (syscall_image.bpf.c:131, 139, 146, 217, 236).
RecordIsTheSequence ==
  \A t \in Task :
    LET e == proc_syscall[t] IN
    e # Nil /\ whole[t] =>
      /\ e.count = IF Len(since[t]) < MAX_SYSCALL_COUNT THEN Len(since[t]) ELSE MAX_SYSCALL_COUNT
      /\ \A i \in 1..e.count : e.record[i] = since[t][i]

\* P_AVG_DELAY lies between P_MIN_DELAY and P_MAX_DELAY, although a batch that found
\* the ring buffer full is added to proc_count and proc_sd again, and a batch under
\* a new target is dropped (syscall_image.bpf.c:196-213; proc_image.c:458).
ProcAverageInRange ==
  \A t \in Task :
    LET e == proc_syscall[t] IN
    e # Nil /\ ~odd[t] =>
      e.proc_count * e.min_delay <= e.proc_sd /\ e.proc_sd <= e.proc_count * e.max_delay

\* As long as no batch was received whose calls were counted without their delays,
\* S_AVG_DELAY lies between S_MIN_DELAY and S_MAX_DELAY, whichever batches of which
\* tasks the ring buffer had no room for (proc_image.c:430-436).
SysAverageInRange ==
  ~tainted =>
    /\ env.sum_count * env.min_delay <= env.sum_delay
    /\ env.sum_delay <= env.sum_count * env.max_delay

\* Both averages that print_syscall shows lie between the minimum and the maximum shown
\* beside them (proc_image.c:430-458).
AveragesInRange == ProcAverageInRange /\ SysAverageInRange

\* controller takes -p and -P together (controller.c:113-132): the thread is of the group.
OneTarget ==
  sc_ctrl.target_pid # Nil => sc_ctrl.target_tgid \in {Nil, Tgid[sc_ctrl.target_pid]}

\* A row is printed with a quotient proc_sd / proc_count that the handler wrote,
\* and that is not 0, if the policy is still the one the event was made under
\* (syscall_image.bpf.c:228, proc_image.c:444, 458) and is not one for a thread and a
\* group the thread is not in, which the two sides read differently.
QuotientIsWritten ==
  ring # <<>> /\ sc_ctrl.sc_func /\ Head(ring).cmds = cmds /\ OneTarget /\ Prints(Head(ring)) =>
    Head(ring).filled /\ Head(ring).count > 0
=============================================================================
