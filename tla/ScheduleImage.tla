--------------------------- MODULE ScheduleImage ---------------------------
(***************************************************************************)
(* The schedule image: the four handlers of bpf/schedule_image.bpf.c, the  *)
(* kernel scheduler that fires them, the control map the controller writes *)
(* and the printer print_schedule of proc_image.c that walks the maps.     *)
(*                                                                         *)
(* A handler runs on one CPU with preemption off; handlers on two CPUs     *)
(* interleave.  The kernel holds the run queue lock around sched_wakeup    *)
(* and sched_switch, so two handlers about the same task never overlap     *)
(* (Busy), but nothing protects the map element all CPUs share,            *)
(* sys_schedule: its read-modify-writes are split into a load and a store. *)
(***************************************************************************)
EXTENDS Naturals, FiniteSets

CONSTANTS
  Proc,        \* the processes (pid # 0)
  Cpu,         \* the CPUs; c also names the idle task of CPU c (pid 0, cpu_id c)
  Tgid,        \* thread group of each task, Tgid \in [Task -> Groups]
  Policies,    \* what the controller may write: [target, target_tgid] records
  Nil,         \* no task, no group, no map entry (-1 or NULL in the code)
  Pid0,        \* the pid every idle task has
  Slot,        \* position of a key in the hash maps, the order get_next_key follows
  MaxEntries,  \* max_entries of proc_schedule and of enable_add
  TgEntries,   \* max_entries of tg_schedule
  MaxClock,    \* bound: scheduler events of a behaviour
  MaxCmds      \* bound: controller commands of a behaviour

Task == Proc \cup Cpu
Pid  == Proc \cup {Pid0}

\* Everything target_pid/target_cpu_id and target_tgid of sched_ctrl can say.
Groups == {Tgid[t] : t \in Task}
Policy == [target : Task \cup {Nil}, target_tgid : Groups \cup {Nil}]

ASSUME ConstantsAssumption ==
  /\ Proc \cap Cpu = {}
  /\ Pid0 \notin Proc
  /\ Nil \notin Task /\ Nil \notin Groups
  /\ Policies \subseteq Policy
  /\ Slot \in [Task \cup Pid -> Nat]
  /\ \A j, k \in Task \cup Pid : Slot[j] = Slot[k] => j = k
  /\ MaxEntries \in Nat /\ TgEntries \in Nat /\ MaxClock \in Nat
  /\ MaxCmds \in Nat

\* A schedule_event (pid and tgid are those of its key).
Event == [count : Nat, enter_time : Nat, sum_delay : Nat,
          max_delay : Nat, min_delay : Nat]
ASSUME NilAssumption == Nil \notin Event
\* sum_schedule: its four fields in the order sched_switch updates them.
SUM_COUNT == 1
SUM_DELAY == 2
MAX_DELAY == 3
MIN_DELAY == 4
SysField  == 1..4

VARIABLES
  run, cur, exiting,        \* scheduler: state of a task, task on a CPU, in do_exit
  clock,                    \* bpf_ktime_get_ns
  sched_func, policy,       \* sched_ctrl_map
  cmds,                     \* controller commands so far (bounded by MaxCmds)
  proc_schedule, enable_add, target_schedule, tg_schedule, sys_schedule,
  h,                        \* the handler running on each CPU, with its locals
  pat, pmap, pkey,          \* print_schedule: its step, the map it reads, lookup_key
  \* History, read by no guard.
  since,   \* when an observed wait of a task began; 0: not waiting or not observed
  ins,     \* switch-ins charged to an entry since its creation
  doneN, doneD,  \* completed updates of sum_count, and the delays added to sum_delay
  left     \* has an exiting task left the maps under the printer's walk

sched == <<run, cur, exiting>>
ctrl  == <<sched_func, policy, cmds>>
maps  == <<proc_schedule, enable_add, target_schedule, tg_schedule>>
print == <<pat, pmap, pkey>>
ghost == <<since, ins, doneN, doneD, left>>
vars  == <<sched, clock, ctrl, maps, sys_schedule, h, print, ghost>>
-----------------------------------------------------------------------------
ZeroEvent == [count |-> 0, enter_time |-> 0, sum_delay |-> 0,
              max_delay |-> 0, min_delay |-> 0]

NoPolicy == [target |-> Nil, target_tgid |-> Nil]

\* at: the next step of the handler; rec: the task it records or removes (prev
\* in sched_switch); nxt: next in sched_switch; now: current_time; delay:
\* this_delay; fld, val: the field of sys_schedule being updated, as loaded.
Handler == [at : {"none", "add", "create", "next", "load", "store", "exit"},
            rec : Task \cup {Nil}, nxt : Task \cup {Nil},
            now : Nat, delay : Nat, fld : SysField, val : Nat]
NoHandler == [at |-> "none", rec |-> Nil, nxt |-> Nil,
              now |-> 0, delay |-> 0, fld |-> SUM_COUNT, val |-> 0]

Init ==
  /\ run = [t \in Task |-> IF t \in Cpu THEN "running" ELSE "new"]
  /\ cur = [c \in Cpu |-> c]
  /\ exiting = {}
  /\ clock = 0
  /\ sched_func = FALSE /\ policy = NoPolicy /\ cmds = 0
  /\ proc_schedule = [t \in Task |-> Nil]
  /\ enable_add = [t \in Task |-> "absent"]
  /\ target_schedule = ZeroEvent
  /\ tg_schedule = [p \in Pid |-> Nil]
  /\ sys_schedule = [f \in SysField |-> 0]
  /\ h = [c \in Cpu |-> NoHandler]
  /\ pat = "idle" /\ pmap = "proc" /\ pkey = Nil
  /\ since = [t \in Task |-> 0]
  /\ ins = [t \in Task |-> 0]
  /\ doneN = 0 /\ doneD = 0 /\ left = FALSE
-----------------------------------------------------------------------------
\* The run queue lock: a handler about t is running.
Busy(t) == \E c \in Cpu : t \in {h[c].rec, h[c].nxt}

PidOf(t) == IF t \in Cpu THEN Pid0 ELSE t

\* bpf_map_update_elem(BPF_ANY) on a hash map: a new key needs a free element.
Room(present, key, max) == key \in present \/ Cardinality(present) < max

InProc == {t \in Task : proc_schedule[t] # Nil}
InAdd  == {t \in Task : enable_add[t] # "absent"}
InTg   == {p \in Pid : tg_schedule[p] # Nil}

\* proc_image still runs: its exit detaches the handlers.
Alive == pat \notin {"failed", "fpe_row", "fpe_sys"}

\* Time passes between two events of the scheduler.
Tick == Alive /\ clock < MaxClock /\ clock' = clock + 1

\* Variant: a coarse clock, which may not have moved since the last event.
BeginCoarse(c, step, t, n) ==
  h' = [h EXCEPT ![c] = [NoHandler EXCEPT !.at = step, !.rec = t, !.nxt = n,
                                          !.now = clock]]

\* A handler starts on CPU c, reads the time and will go on at step.
Begin(c, step, t, n) ==
  h' = [h EXCEPT ![c] = [NoHandler EXCEPT !.at = step, !.rec = t, !.nxt = n,
                                          !.now = clock + 1]]
Return(c) == h' = [h EXCEPT ![c] = NoHandler]

\* Variant: an existing entry is left alone.
StampMissing(t) == proc_schedule' = proc_schedule

\* Record that t waits from now on: an existing entry is stamped, a missing one
\* is created by the steps Add and Create.
StampEntry(t) ==
  proc_schedule' = IF t \in InProc
                   THEN [proc_schedule EXCEPT ![t].enter_time = clock + 1]
                   ELSE proc_schedule

\* sched_wakeup and sched_wakeup_new, fired on CPU c for t.
WakeupHandler(c, t, waiting) ==
  /\ Tick
  /\ IF ~sched_func
     THEN /\ since' = [since EXCEPT ![t] = 0]
          /\ UNCHANGED <<proc_schedule, h>>
     ELSE /\ StampEntry(t)
          /\ IF t \in InProc THEN UNCHANGED h ELSE Begin(c, "add", t, Nil)
          /\ since' = [since EXCEPT ![t] = IF waiting THEN clock + 1 ELSE 0]

\* A sleeping task, or one preempted on its way to sleep ("parked"), is woken.
\* The wakeup of a task that is still on its CPU fires the handler too.
Wakeup(c, t) ==
  /\ h[c].at = "none" /\ ~Busy(t)
  /\ t \in Proc /\ run[t] \in {"blocked", "parked", "running"}
  /\ run' = IF run[t] = "running" THEN run ELSE [run EXCEPT ![t] = "ready"]
  /\ WakeupHandler(c, t, run[t] # "running")
  /\ UNCHANGED <<cur, exiting, ctrl, enable_add, target_schedule, tg_schedule,
                 sys_schedule, print, ins, doneN, doneD, left>>

\* A task is created, possibly with the pid of a dead one.
WakeupNew(c, t) ==
  /\ h[c].at = "none" /\ ~Busy(t)
  /\ t \in Proc /\ run[t] \in {"new", "dead"}
  /\ run' = [run EXCEPT ![t] = "ready"]
  /\ exiting' = exiting \ {t}
  /\ WakeupHandler(c, t, TRUE)
  /\ UNCHANGED <<cur, ctrl, enable_add, target_schedule, tg_schedule,
                 sys_schedule, print, ins, doneN, doneD, left>>

\* bpf_map_update_elem(&enable_add, &pd, false).
Add(c) ==
  /\ h[c].at = "add"
  /\ enable_add' = IF Room(InAdd, h[c].rec, MaxEntries)
                   THEN [enable_add EXCEPT ![h[c].rec] = "false"] ELSE enable_add
  /\ h' = [h EXCEPT ![c].at = "create"]
  /\ UNCHANGED <<sched, clock, ctrl, proc_schedule, target_schedule, tg_schedule,
                 sys_schedule, print, ghost>>

NewEvent(time) == [ZeroEvent EXCEPT !.count = 1, !.enter_time = time]

\* bpf_map_update_elem(&proc_schedule, &pd, &schedule_event).
Create(c) ==
  LET t == h[c].rec IN
  /\ h[c].at = "create"
  /\ IF Room(InProc, t, MaxEntries)
     THEN /\ proc_schedule' = [proc_schedule EXCEPT ![t] = NewEvent(h[c].now)]
          /\ ins' = [ins EXCEPT ![t] = 0]
     ELSE UNCHANGED <<proc_schedule, ins>>
  /\ IF h[c].nxt = Nil THEN Return(c) ELSE h' = [h EXCEPT ![c].at = "next"]
  /\ UNCHANGED <<sched, clock, ctrl, enable_add, target_schedule, tg_schedule,
                 sys_schedule, print, since, doneN, doneD, left>>

\* What becomes of prev in a switch: it stays TASK_RUNNING, goes to sleep, is
\* preempted with a sleeping __state (it stays on the run queue and no wakeup
\* need follow; sched_switch ignores its argument preempt), or is dead.
Fate == [running |-> "ready", sleep |-> "blocked", preempted |-> "parked",
         dead |-> "dead"]

\* sched_switch on CPU c from its current task to n, up to line 189.
Switch(c, n, how) ==
  LET prev == cur[c] IN
  /\ h[c].at = "none" /\ ~Busy(prev) /\ ~Busy(n)
  /\ run[n] \in {"ready", "parked"} /\ n \in Proc \cup {c}
  /\ prev = c => how = "running"
  /\ how = "dead" => prev \in exiting
  /\ run' = [run EXCEPT ![prev] = Fate[how], ![n] = "running"]
  /\ cur' = [cur EXCEPT ![c] = n]
  /\ Tick
  /\ \/ /\ ~sched_func
        /\ since' = [since EXCEPT ![prev] = 0, ![n] = 0]
        /\ UNCHANGED <<proc_schedule, h>>
     \/ /\ sched_func /\ how = "running"
        /\ StampEntry(prev)
        /\ Begin(c, IF prev \in InProc THEN "next" ELSE "add", prev, n)
        /\ since' = [since EXCEPT ![prev] = clock + 1]
     \/ /\ sched_func /\ how # "running"
        /\ Begin(c, "next", prev, n)
        /\ since' = [since EXCEPT ![prev] = 0]
        /\ UNCHANGED proc_schedule
  /\ UNCHANGED <<exiting, ctrl, enable_add, target_schedule, tg_schedule,
                 sys_schedule, print, ins, doneN, doneD, left>>

\* this_delay.
Waited(e, time) == time - e.enter_time

\* Variant: the first switch-in is counted although count is preset.
ChargeTwice(e, added, d) ==
  [e EXCEPT !.count = @ + 1, !.sum_delay = @ + d,
            !.max_delay = IF d > @ THEN d ELSE @,
            !.min_delay = IF @ = 0 \/ d < @ THEN d ELSE @]

\* Variant: a new minimum keeps the maximum from being updated.
ChargeElse(e, added, d) ==
  [e EXCEPT !.count = IF added THEN @ + 1 ELSE @, !.sum_delay = @ + d,
            !.max_delay = IF d > @ /\ e.min_delay # 0 THEN d ELSE @,
            !.min_delay = IF @ = 0 \/ d < @ THEN d ELSE @]

\* What one switch-in that waited d does to the entry of the task.
Charge(e, added, d) ==
  [e EXCEPT !.count = IF added THEN @ + 1 ELSE @,
            !.sum_delay = @ + d,
            !.max_delay = IF d > @ THEN d ELSE @,
            !.min_delay = IF @ = 0 \/ d < @ THEN d ELSE @]

\* The part of sched_switch about next, up to the system-wide totals.
SwitchIn(c) ==
  LET n == h[c].nxt
      d == Waited(proc_schedule[n], h[c].now)
      e == Charge(proc_schedule[n], enable_add[n] = "true", d)
  IN
  /\ h[c].at = "next"
  /\ since' = [since EXCEPT ![n] = 0]
  /\ IF n \notin InProc \/ n \notin InAdd
     THEN /\ Return(c)
          /\ UNCHANGED <<maps, ins>>
     ELSE /\ enable_add' = [enable_add EXCEPT ![n] = "true"]
          /\ proc_schedule' = [proc_schedule EXCEPT ![n] = e]
          /\ target_schedule' = IF policy.target = n THEN e ELSE target_schedule
          /\ tg_schedule' =
               IF policy.target_tgid = Tgid[n] /\ Room(InTg, PidOf(n), TgEntries)
               THEN [tg_schedule EXCEPT ![PidOf(n)] = e] ELSE tg_schedule
          /\ ins' = [ins EXCEPT ![n] = @ + 1]
          /\ h' = [h EXCEPT ![c].delay = d, ![c].at = "load"]
  /\ UNCHANGED <<sched, clock, ctrl, sys_schedule, print, doneN, doneD, left>>

\* The read-modify-write of the fields of sys_schedule, one field at a time.
SysLoad(c) ==
  /\ h[c].at = "load"
  /\ h' = [h EXCEPT ![c].val = sys_schedule[h[c].fld], ![c].at = "store"]
  /\ UNCHANGED <<sched, clock, ctrl, maps, sys_schedule, print, ghost>>

\* Variants: count and delay are mixed up; the count is not incremented.
StoredMixed(f, v, d) == CASE f = SUM_COUNT -> v + d
                          [] f = SUM_DELAY -> v + 1
                          [] OTHER         -> d
StoredSame(f, v, d) == IF f = SUM_COUNT THEN v ELSE d

Stored(f, v, d) == CASE f = SUM_COUNT -> v + 1
                     [] f = SUM_DELAY -> v + d
                     [] OTHER         -> d

\* max_delay and min_delay are written only when the comparison says so.
Writes(f, v, d) == CASE f = MAX_DELAY -> d > v
                     [] f = MIN_DELAY -> v = 0 \/ d < v
                     [] OTHER         -> TRUE

SysStore(c) ==
  LET f == h[c].fld
      v == h[c].val
      d == h[c].delay
  IN
  /\ h[c].at = "store"
  /\ sys_schedule' = IF Writes(f, v, d)
                     THEN [sys_schedule EXCEPT ![f] = Stored(f, v, d)]
                     ELSE sys_schedule
  /\ doneN' = IF f = SUM_COUNT THEN doneN + 1 ELSE doneN
  /\ doneD' = IF f = SUM_DELAY THEN doneD + d ELSE doneD
  /\ IF f = MIN_DELAY THEN Return(c)
     ELSE h' = [h EXCEPT ![c].fld = f + 1, ![c].at = "load"]
  /\ UNCHANGED <<sched, clock, ctrl, maps, print, since, ins, left>>

\* sched_process_exit, fired in the middle of do_exit: the task runs on, may be
\* preempted, sleep and be woken, before its last switch.
Exit(c) ==
  LET t == cur[c] IN
  /\ h[c].at = "none" /\ ~Busy(t)
  /\ t \in Proc \ exiting
  /\ exiting' = exiting \cup {t}
  /\ Tick
  /\ IF sched_func
     THEN /\ proc_schedule' = [proc_schedule EXCEPT ![t] = Nil]
          /\ h' = [h EXCEPT ![c].at = "exit", ![c].rec = t]
          /\ left' = (pat # "idle")
     ELSE UNCHANGED <<proc_schedule, h, left>>
  /\ UNCHANGED <<run, cur, ctrl, enable_add, target_schedule, tg_schedule,
                 sys_schedule, print, since, ins, doneN, doneD>>

ExitRest(c) ==
  LET t == h[c].rec IN
  /\ h[c].at = "exit"
  /\ enable_add' = [enable_add EXCEPT ![t] = "absent"]
  /\ target_schedule' = IF policy.target = t
                        THEN [target_schedule EXCEPT !.count = 0]
                        ELSE target_schedule
  /\ tg_schedule' = IF policy.target_tgid = Tgid[t]
                    THEN [tg_schedule EXCEPT ![PidOf(t)] = Nil] ELSE tg_schedule
  /\ left' = (pat # "idle")
  /\ Return(c)
  /\ UNCHANGED <<sched, clock, ctrl, proc_schedule, sys_schedule, print,
                 since, ins, doneN, doneD>>
-----------------------------------------------------------------------------
\* Variant: a new policy empties tg_schedule.
SetCtrlClear(func, p) ==
  /\ Alive /\ cmds < MaxCmds /\ cmds' = cmds + 1
  /\ sched_func' = func /\ policy' = p
  /\ tg_schedule' = [q \in Pid |-> Nil]
  /\ UNCHANGED <<sched, clock, proc_schedule, enable_add, target_schedule,
                 sys_schedule, h, print, ghost>>

\* The controller: update_sched_ctrl_map in activate and in deactivate mode.
SetCtrl(func, p) ==
  /\ Alive /\ cmds < MaxCmds /\ cmds' = cmds + 1
  /\ sched_func' = func /\ policy' = p
  /\ UNCHANGED <<sched, clock, maps, sys_schedule, h, print, ghost>>

Activate(p) == SetCtrl(TRUE, p)
Deactivate  == SetCtrl(FALSE, NoPolicy)
-----------------------------------------------------------------------------
(* print_schedule.  The policy is read once, at the start. *)
PrintUnchanged == UNCHANGED <<sched, clock, ctrl, maps, sys_schedule, h,
                              since, ins, doneN, doneD>>

\* The set of keys of the map being walked.
Walked == IF pmap = "tg" THEN InTg ELSE InProc

PrintStart ==
  /\ pat = "idle" /\ sched_func
  /\ policy.target = Nil \/ policy.target_tgid = Nil
  /\ pkey' = Nil /\ left' = FALSE
  /\ \/ /\ policy.target = Nil
        /\ pmap' = IF policy.target_tgid = Nil THEN "proc" ELSE "tg"
        /\ pat' = "walk"
     \/ /\ policy.target # Nil
        /\ pmap' = "target"
        /\ pat' = IF target_schedule.count # 0 THEN "sys" ELSE "idle"
  /\ PrintUnchanged

\* bpf_map_get_next_key: starts over when the key it is given has been deleted.
PrintNext ==
  LET ahead == {k \in Walked : pkey \in Walked => Slot[k] > Slot[pkey]} IN
  /\ pat = "walk"
  /\ \/ /\ ahead = {}
        /\ pkey' = Nil /\ pat' = "idle"
     \/ \E k \in ahead :
        /\ \A j \in ahead : Slot[k] <= Slot[j]
        /\ pkey' = k /\ pat' = "lookup"
  /\ UNCHANGED <<pmap, left>> /\ PrintUnchanged

\* The row is looked up (a failure ends the tool) and divided by its count.
PrintLookup ==
  LET row == IF pmap = "tg" THEN tg_schedule[pkey] ELSE proc_schedule[pkey] IN
  /\ pat = "lookup"
  /\ pat' = IF row = Nil THEN "failed"
            ELSE IF row.count = 0 THEN "fpe_row" ELSE "sys"
  /\ UNCHANGED <<pmap, pkey, left>> /\ PrintUnchanged

\* sys_avg_delay = sys_event.sum_delay / sys_event.sum_count.
PrintSys ==
  /\ pat = "sys"
  /\ pat' = IF sys_schedule[SUM_COUNT] = 0 THEN "fpe_sys"
            ELSE IF pmap = "target" THEN "idle" ELSE "walk"
  /\ UNCHANGED <<pmap, pkey, left>> /\ PrintUnchanged
-----------------------------------------------------------------------------
Handlers(c) ==
  \/ \E t \in Proc : Wakeup(c, t) \/ WakeupNew(c, t)
  \/ \E n \in Task, how \in {"running", "sleep", "preempted", "dead"} :
       Switch(c, n, how)
  \/ Add(c) \/ Create(c) \/ SwitchIn(c)
  \/ SysLoad(c) \/ SysStore(c)
  \/ Exit(c) \/ ExitRest(c)

Printer ==
  PrintStart \/ PrintNext \/ PrintLookup \/ PrintSys

Next ==
  \/ \E c \in Cpu : Handlers(c)
  \/ \E p \in Policies : Activate(p)
  \/ Deactivate
  \/ Printer

Spec == Init /\ [][Next]_vars
-----------------------------------------------------------------------------
\* Type invariant.
TypeOK ==
  /\ run \in [Task -> {"new", "blocked", "ready", "parked", "running", "dead"}]
  /\ cur \in [Cpu -> Task]
  /\ exiting \subseteq Proc
  /\ clock \in Nat
  /\ sched_func \in BOOLEAN /\ policy \in Policy /\ cmds \in Nat
  /\ proc_schedule \in [Task -> Event \cup {Nil}]
  /\ enable_add \in [Task -> {"absent", "false", "true"}]
  /\ target_schedule \in Event
  /\ tg_schedule \in [Pid -> Event \cup {Nil}]
  /\ sys_schedule \in [SysField -> Nat]
  /\ h \in [Cpu -> Handler]
  /\ pat \in {"idle", "walk", "lookup", "sys", "failed", "fpe_row", "fpe_sys"}
  /\ pmap \in {"proc", "tg", "target"} /\ pkey \in Task \cup Pid \cup {Nil}
  /\ since \in [Task -> Nat] /\ ins \in [Task -> Nat]
  /\ doneN \in Nat /\ doneD \in Nat /\ left \in BOOLEAN

\* A wait whose beginning a handler saw is charged exactly: as long as the task
\* has an entry, its enter_time is the moment the wait began, whatever wakeups,
\* deactivations, exits of others and re-creations came between
\* (sched_wakeup, sched_wakeup_new and sched_switch, enter_time).
ObservedWaitIsExact ==
  \A t \in Task :
    since[t] # 0 /\ proc_schedule[t] # Nil => proc_schedule[t].enter_time = since[t]

\* this_delay = current_time - enter_time is a u64: at every switch-in the entry
\* was stamped strictly earlier, on whichever CPU that was, so it never wraps.
DelayNeverWraps ==
  \A c \in Cpu :
    h[c].at = "next" /\ h[c].nxt \in InProc
      => proc_schedule[h[c].nxt].enter_time < h[c].now

\* The count preset to 1 and the enable_add flag together count every switch-in
\* once: count is the number of switch-ins charged since the entry was created,
\* or 1 before the first, even if one of the two hash maps was full when the
\* task was recorded.
CountIsExact ==
  \A t \in InProc :
    /\ proc_schedule[t].count = IF ins[t] = 0 THEN 1 ELSE ins[t]
    /\ ins[t] > 0 <=> enable_add[t] = "true"

\* The average that print_schedule prints lies between the minimum and the
\* maximum printed beside it, in every row of every map.
AverageInRange ==
  LET InRange(e) == e.count * e.min_delay <= e.sum_delay
                 /\ e.sum_delay <= e.count * e.max_delay
  IN /\ target_schedule.count # 0 => InRange(target_schedule)
     /\ \A t \in InProc : ins[t] > 0 => InRange(proc_schedule[t])
     /\ \A p \in InTg : InRange(tg_schedule[p])

\* The unprotected updates of sys_schedule lose updates when CPUs race, but
\* they never invent any: the totals never exceed what was charged.
TotalsNeverOverstate ==
  /\ sys_schedule[SUM_COUNT] <= doneN
  /\ sys_schedule[SUM_DELAY] <= doneD

\* After the first completed update of sum_count it is a safe divisor for good,
\* however the CPUs race.
DivisorSafeAfterFirstCharge == doneN > 0 => sys_schedule[SUM_COUNT] > 0

\* A row's own count is never 0 when print_schedule divides by it.
RowDivisorIsSafe == pat # "fpe_row"

\* print_schedule gives up (and with it the tool) only if a task's exit removed
\* the key under its walk.
PrintFailsOnlyAfterExit == pat = "failed" => left

\* What the comment above the preset of count promises of the printed averages:
\* "avoid the divisor being 0 when the process has not been scheduled yet".
NoZeroDivisor == pat \notin {"fpe_row", "fpe_sys"}
=============================================================================
