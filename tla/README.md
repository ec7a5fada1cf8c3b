# Verification of eBPF_proc_image and cpu_watcher

TLA+ models of the process-image tool under `src/CPU_Subsystem/eBPF_proc_image/` and of the CPU tool under
`src/CPU_Subsystem/cpu_watcher/`, checked with TLC on small instances and, where marked, proved with TLAPS for every value of
the constants. Paths below are relative to the first directory, or to the second where they are about cpu_watcher, unless
they start with `src/`.

## 1. The system

| part | files | state it keeps | operations |
|---|---|---|---|
| schedule image | `bpf/schedule_image.bpf.c`, `print_schedule` in `proc_image.c` | hash maps `proc_schedule`, `enable_add`, `tg_schedule`; arrays `target_schedule`, `sys_schedule` | tracepoints sched_wakeup, sched_wakeup_new, sched_switch, sched_process_exit; periodic print |
| lock image | `bpf/lock_image.bpf.c`, `include/lock_image.h`, `print_lock` | hash maps `proc_lock`, `proc_unlock`, `locktype`; ring buffer | uprobes and uretprobes of the pthread mutex, rwlock and spinlock functions |
| keytime image | `bpf/keytime_image.bpf.c`, `include/keytime_image.h`, `print_keytime` | hash maps of children and of off-CPU starts; ring buffer | execve, fork, vfork, pthread_create, clone3, exit, exit_group, sched_switch |
| syscall image | `bpf/syscall_image.bpf.c`, `print_syscall`, `update_syscalls` | `proc_syscall`, container map; user-space hash map of frequencies; ring buffer | sys_enter, sys_exit, process exit; print |
| resource image | `bpf/resource_image.bpf.c`, `print_resource` | hash maps `start`, `total` | switch probes, periodic print and clear |
| event loop and timer | `proc_image.c` `main`, `enable_function` | `env` flags, one thread handle | loop body, timer thread |
| set-up and clean-up | `proc_image.c` `main`, `include/helpers.h` | one pinned control map per image | open, load, pin, initialise, attach, unpin |
| controller | `controller.c`, `include/helpers.h` | its options, an alarm | activate, deactivate, finish |
| cpu_watcher | `cpu_watcher.c`, `include/cpu_watcher_helper.h` | one watcher per run, its pinned control map | open, load, pin, initialise, attach, loop, clean-up |
| its watchers | `bpf/mq_delay.bpf.c`, `sc_delay`, `cs_delay`, `preempt`, `schedule_delay`, `sar`, `mutrace`, with their printers | times of entry keyed by pid, CPU, vector or message address; totals; a table of mutexes | probes of the kernel, periodic or event-driven output |
| its controller | `controller.c` | its options | activate, deactivate, finish |

The controller and proc_image are separate processes. They share nothing but the pinned control
maps, which the eBPF handlers read on every event. The handlers run on every CPU at once, in the
middle of the scheduler or of the traced program; user space reads the maps while they change, or
receives events through ring buffers that lose an event when they are full.

**What is hard here.** Handlers of several CPUs update one map element without synchronisation. Two probes of one call, or the probes
of a parent and its child, communicate through map entries and may run in either order, under different policies, or
not at all. Maps and ring buffers fill up and the handlers return early. User space walks maps that change under it. The
periodic output is paced by threads that share unlocked flags with the loop. The pinned maps outlive the process that made
them. Pids are used again. `PROJECT.json` lists each hazard at its line.

**What makes each part correct.**

- schedule image: the delay charged to a task is that of its wait; counts, averages and extremes of a row fit together; the
  totals do not invent anything; no division by zero.
- lock image: an event names the lock of its call; a lock reported as taken is held; no entry outlives the lock's use.
- keytime image: an exit is reported as that of the task it is, however the pid was used before.
- syscall image: a reported sequence is the real one; averages lie between the extremes beside them; the ranking of a
  process's calls agrees with its counters.
- event loop: output and polling never stop while the program runs; `pthread_join` gets a joinable handle.
- set-up and controller: a killed run does not block the next; the controller reaches the run that is alive; a command that
  succeeded is in force; a time limit ends.
- resource image: a row is the time its own task ran, printed once and then cleared.
- cpu_watcher: what a watcher reports (a delay, a wait, a preemption, an interval, a count) is about the call, message, task or
  interval it names; its printers neither hang nor end the tool; commands and pins hold as in proc_image.

## 2. Modules

| module | models | extended by |
|---|---|---|
| `ScheduleImage` | schedule image | `MCScheduleImage`, `ScheduleImageProofs` |
| `TimerThread` | event loop and timer thread | `MCTimerThread`, `TimerThreadProofs` |
| `LockImage` | lock image | `MCLockImage`, `LockImageProofs` |
| `ControlPlane` | set-up and clean-up, controller, pinned maps: the composition of the two programs | `MCControlPlane`, `ControlPlaneProofs` |
| `SyscallImage` | syscall image with its printer | `MCSyscallImage`, `SyscallImageProofs` |
| `TopSyscalls` | the ranking of `update_syscalls` | `MCTopSyscalls`, `SyscallImageProofs` |
| `KeytimeImage` | keytime image, task creation and exit | `MCKeytimeImage`, `KeytimeImageProofs` |
| `ResourceImage` | resource image with its printer | `MCResourceImage`, `ResourceImageProofs` |
| `PeriodicOutput` | abstract specification: what the loop and its timer promise | instantiated by `TimerThread` |
| `MqDelay`, `ScDelay`, `CsDelay`, `PreemptTime`, `ScheduleDelay`, `SarMeter`, `LockCounts` | the watchers of cpu_watcher: `-m`, `-S`, `-c`, `-p`, `-d` with `-e`, `-s`, `-x` | instantiated by `CpuWatcher` |
| `WatcherControl` | set-up, control map and end of cpu_watcher, and its controller | instantiated by `CpuWatcher` |
| `CpuWatcher` | a run of cpu_watcher: one of the above, as in the else-if chain of `main` | `MCCpuWatcher`, `CpuWatcherProofs` |

Variables have the names of the maps, globals and fields of the code. Variables marked *history* record what happened; no guard
reads them. Definitions that start with the comment "Variant:" are the mutations named in `PROJECT.json`; no action uses them.

### ScheduleImage

`Wakeup`, `WakeupNew`, `Switch` and `Exit` are the scheduler firing a handler; the steps that follow (`Add`, `Create`,
`SwitchIn`, `SysLoad`, `SysStore`, `ExitRest`) are the handler itself, cut where another CPU can get in between. The run queue lock keeps two
handlers about one task apart (`Busy`), and the model relies on that; nothing protects `sys_schedule`, so each of its fields is loaded and stored in
separate steps. An idle task is a key `(0, cpu)` of `proc_schedule`, but all idle tasks share pid 0 in `tg_schedule`. `Activate` and `Deactivate` are the controller's writes;
they leave the hash maps as they are, as the code does. `PrintStart` to `PrintSys` are `print_schedule`, with the walk of `bpf_map_get_next_key` in the order `Slot` and its
restart when the current key is gone. `pat = "failed"` is `return -1`, which ends the loop; `"fpe_row"` and `"fpe_sys"` are the divisions by zero. The model's clock is the number
of scheduler events.

### TimerThread

One step per access to `create_thread`, `exit_thread`, the output flags and `thread_enable`. The program is built without
optimisation for x86-64, so accesses are neither merged nor reordered. `th[t]` is the position of thread t
in `enable_function`; a handle is free again after its join. A `pthread_join` of a free handle is the failure that exits
the process. A print function is left with its request taken back, or with an error that ends the loop; inside it the other threads go on.

`PeriodicOutput` is what a user sees of this: tables asked for, printed one at a time, of images that are switched on. The refinement mapping
takes the raised output flags for the requests (`asked`), the position of the loop inside a print function for `printing`, and `Stopped` for the end.
Everything about threads, handles and `create_thread` is invisible. `ImplementsPeriodicOutput` is its safety part, `OutputKeepsComing` its liveness.

### LockImage

`LockEnter`, `Acquire`, `LockMark`, `LockReport` are the entry probe, the lock function, and the two parts of the return probe
before and after its access to `locktype`; `UnlockEnter`, `Release`, `UnlockTake`, `UnlockReport` the same for
unlocking. `own` is the lock itself (external). Every ring buffer reservation may fail. Times are left out: no handler decides anything by them.

### ControlPlane

A run of `proc_image` goes through its images in the order of `main`, with one step per system call that can fail: `Open`, `Load`,
`Unpin`, `Pin`, `InitMap`, `Attach`; errors go to `cleanup` or, for a failed open, return at once. `Die` is a kill at any moment. A run of
`controller` goes through its images in its own order (`CtlGet`, `CtlPut`); the alarm may come at any step after `parse_arg`, and its
handler, which deactivates what it can reach and returns to the interrupted code, is one step. `pin` is bpffs.

### SyscallImage and TopSyscalls

The entry of a task is touched by its own handlers only, so `Enter` and `Exit` are one step each, except for the write of
`pre_target_pid` or `pre_target_tgid`, which all CPUs share (`Remember`). `since` and `whole` remember the calls actually made.
`odd` marks batches in which a call was counted without its delay: the two handlers of one call ran under different policies. `PrintSyscall` consumes one event under the
policy of its own moment. The per-process ranking of the printer is `TopSyscalls`: `Update` is one turn of the loop in `update_syscalls`.

### KeytimeImage

The kernel's part (`Fork`, `Vfork`, `Clone`, `Kill`, `Gone`, the reuse of pids) is external. `ForkReturn`, `VforkChild`, `VforkReturn`, `CloneReturn`,
`PthreadEnter`, `PthreadReturn` and `Exit` are the handlers; `ChildCreate` and `ChildExit` the two functions of
`keytime_image.h`; the delete at the end of `child_exit` is in `ExitEnd`, after a point where the parent's probe may run. A call that
fails is one step with its probe. `kt.watch` stands for `enable_myproc` and the two targets. A pid is given out again only after the call that made its previous owner has returned: the kernel
hands out pids in turn. Events that only name the task (execve, exit, on and off CPU) are left out.

### ResourceImage

`Switch` is the probe up to its first lookup in `total`; `Create`, or `Find`, `Add` and `Put`, its accesses to the map; `StartNext` its second half. The scheduler lets no other CPU
take a task before the probe of its switch has ended, so only the printer gets in between. `total` is preallocated: `Update` writes a free element and puts it in the place of the old one, and a probe that holds a pointer may be
writing into an element that belongs to another key by now. `PrintStart` to `ClearDelete` are `print_resource`; the first call jumps past the initialisation of `fd`, whose value is then
any the stack may hold: one that works or one that does not. The history `odd` marks the rows into which a stale start, a concurrent delete or another task's charge went.

### The watchers of cpu_watcher

- `MqDelay`: senders and receivers of a POSIX queue; a probe per step of the kernel. `Free` lets an address be used again as soon as its message was taken, so that the
  return probes of both sides may meet a later message's record; `reused` names those calls.
- `ScDelay`: a per-CPU hash map is a function from CPUs per pid; the CPU of the exit is any CPU. `Boot` is later than the longest delay shown, as on a machine that
  has been up for more than a second.
- `CsDelay`: the slot, with a step between reading the clock and accessing it. A CPU may enter `schedule()` twice without a return: a new task starts in `ret_from_fork`.
- `PreemptTime`: the switch and `finish_task_switch`, the ring buffer, and the rounds of the loop, with the division.
- `ScheduleDelay`: the handlers, cut between the write of the wait and the write of the history, and the two reads of the printer.
- `SarMeter`: one meter in four kinds, which differ in their keys and in what an absent note looks like; `spoilt` names what has gone wrong: two CPUs in one vector, two additions at
  once, a thread from before the start of the tool.
- `LockCounts`: the table with open addressing. `hung` is the search that never ends.
- `WatcherControl`: two runs of the tool, one after the other or overlapping, and the controller; `opt` is the kind of watcher. `overtaken` and `between` name the two windows.

## 3. Runs

All on two workers, the longest in a little more than three minutes. Each module states its types as `TypeOK`, which its proofs establish as
part of the inductive invariant; a run checks it besides for the watchers of cpu_watcher. A run's property may join two of a module: `AveragesInRange` both averages of the
syscall image, `TableIsRight` and `FiguresAreRight` two each of `LockCounts` and `SarMeter`.

| run | question | result |
|---|---|---|
| `schedule_life` | one process, one CPU, all policies: creation, waits, preemption, exit, pid reuse, printing | observed waits and averages are right; printing fails only on a concurrent exit |
| `schedule_race` | two processes on two CPUs, maps with two entries | counts exact, delays do not wrap, totals never overstate |
| `schedule_divisor` | does the preset of `count` prevent division by zero? | no: `sum_count` is not covered (finding) |
| `timer` | three overlapping timer threads | every step is one of `PeriodicOutput`; the timer never dies out, output and polling go on, no uninitialised join |
| `lock` | two threads, two rwlocks, updates that may find their map full, two policy changes | events of observed calls name their lock; taken is held; no entry of `locktype` outlives its lock |
| `control` | two runs of proc_image, one controller, every failure and kill | a restart is not blocked; the loop is reachable; commands hold, and half-done or timed ones can be or are undone |
| `control_pause` | does a controller with `-t` end? | no: the alarm may come before `pause()` (finding) |
| `syscall` | two tasks of a group, four policies, ring buffer of one event, batches of at most two calls | sequences, averages and quotients are right |
| `top` | five system call numbers, up to four calls of each | the ranking is right |
| `keytime` | three pids, two tasks made besides the root, maps of two entries, any number of policy changes | exits name the right task; reported tasks stay forgotten |
| `resource` | two processes on two CPUs, maps of two entries, three elements, two policy changes, printing at any time | rows are exact but for named races, none is printed twice, the printer does not fail |
| `cpu_watcher` | every watcher and the control, one per behaviour | see the properties in `CpuWatcher`: reports are about what they name, but for named races |

**Why the bounds are enough to be interesting.** Two CPUs and two processes give every pairwise race on the totals. A map of one or two entries is full in most behaviours. `MaxClock` 5 and 6 allow a task to be
created, wait, run, exit and come back. Three threads are needed for a late thread to meet a created and a joined one. Five calls with batches of one or
two give a complete batch, an overrun one and one cut by a policy change. Two made tasks on three pids give a child and a
grandchild, two children, and one pid used twice. Three places need at least four numbers to push one out; five add ties.
In `resource`, three elements for maps of two make an element change hands, and five switches let a task be charged, cleared and charged again. In `cpu_watcher`, one address makes every second message reuse it; four calls are two sends and two
receives, or three sends of which one fails; three tasks let two receivers and a sender overlap; two CPUs race for each slot; five mutexes fill a table of four, and the chosen addresses collide and wrap around; one ring buffer place is full at the second event; three commands come before, in and after each window; one far pid has no slot. Between them the passing runs fire every action. Symmetry is used where all
pids, threads or locks permuted are treated alike by the constants, for invariants and one action property, never for liveness.

`CHECK_DEADLOCK FALSE` is set where a bound on events (`MaxClock`, `MaxCalls`, `MaxCount`, `MaxCmds`, `MaxLocks`) or the end of all runs of the programs really stops the behaviour.

**Fairness.** `TimerThread` assumes weak fairness of the loop and of every thread: the kernel runs runnable threads and `sleep(1)` ends. `ControlPlane` assumes it of a running
controller and of an armed alarm. Nothing is assumed of signals, of the user or of the traced programs. The other
modules have safety properties only.

## 4. Proofs

Every invariant a passing run checks, and the refinement of `PeriodicOutput`, is also a theorem, for every value of the constants
that satisfies the assumptions of its module: any number of CPUs, tasks, threads, locks and messages, any size of the maps and ring buffers, any policies.
The assumptions say that the names of different things differ (`Nil` is no task), that bounds and sizes are numbers, and what the code sees to: policies are
those the controller can write. Three say more. `SyscallAssumption`: delays and the numbers of the calls are above 0 (0 is the empty value of the maps), and a policy that is on
asks for at least one call. `ResourceAssumption`: the preallocated map has an element more than entries, for the replacement of an entry that is still in the map. `WatcherAssumption`: `Limit < Boot`, the tool starts later after boot than the longest delay it shows.

No property is inductive alone. Each proof module defines the invariant that is, shows that it holds initially and that each action keeps it, and reads the properties off.
Its parts, and why they are needed:

- `ScheduleImageProofs`, two layers. `IInv` gives `TypeCorrect`, `ObservedWaits`, `DelaysDoNotWrap`, `CountsAreExact`, `TotalsAreSound`, `DivisorsAreSafe`.
  `OnCpu` says that a task runs on one CPU at most and `Shape` which locals a handler uses at which step; `Exclusive` is the run queue lock, two
  handlers never concern one task; `Stamps` says every enter_time is in the past of any handler that may subtract it; `Pending` describes a task between the two updates that create its entry, or the two that remove it; `Loaded` says that what a CPU
  has loaded from `sys_schedule` and not yet stored is at most what was charged; `Rows` that a row copied for a thread group was charged and that the printer's key belongs to the map it walks. An exact count needs
  `enable_add` to change together with the entry under `Exclusive`, and the totals need the stale loads bounded. On top of `IInv`, `Ranges` gives
  `AveragesAreInRange`: an entry not charged yet is zero but for its preset count, and one that was has a minimum above 0, so that 0 is never mistaken for a minimum. `Walk` gives `PrintSurvivesWithoutExit`: the key the printer is about to look up is in the map, or a task has exited.
- `TimerThreadProofs`: `TimerTypeCorrect`, `CreateFlagIsOwned` and `JoinIsInitialised`. `JoinHasAHandle` needs that threads exist, and the exit flag is up, only once
  `thread_enable` was assigned. `LoopImplementsPeriodicOutput`: the refinement, for any set of images; every step of the loop, a thread, the controller or a signal is
  shown to be a step of `PeriodicOutput` or to leave its four variables alone. It rests on the invariant through the position of the loop: inside a print function its image's flag is up, because only the end of
  the function takes it back.
- `LockImageProofs`: `EventsNameTheirLock`, `ReportedLocksAreHeld`, `TypesAreForgotten`. `EntriesOK`: while a call is selected, its entry in `proc_lock` or `proc_unlock` is its own lock, or the map refused it, never what an earlier
  call left. `CallsOK`: a function that returned success owns its lock until its probe has reported it. `KindsOK` keeps the three kinds of locks, which share the maps, apart by their flags. `QuietOK`: with the image always on and no map full, no call goes unseen, so that whoever took a type out of `locktype` was there to put it in.
- `ControlPlaneProofs`: `RestartsAreNotBlocked`, `LoopsAreReachable`, `CommandsHold`, `PartialCommandsAreUndone`. `MonOK` and `CtlOK` say where each program is in its list of images; `PinsOK`, that a run alone finds its own map at the path of every image
  it has been through (`Passed`). `SoloOK` is about one run of each program: what is on has been visited by the controller, and what it visited is on unless it came between the pin and the initialisation (`early`). The two programs
  visit the images in different orders (`Pos`, `CPos`); a lemma shows that both have each image once.
- `SyscallImageProofs`: `RecordsAreSequences`, `AveragesAreInRange`, `QuotientsAreWritten`. `EntriesOK`: the delays summed in an entry are as many as the calls that have *returned*, which is one less than `count` inside a call, and lie between its extremes (`Within`); `RingOK` says the same of each
  event on its way and that an event made under the policy in force has its quotient; `EnvOK` of the printer's totals. Averages need the products of counts and extremes, hence the lemmas on `Within`.
  Its last part is about `TopSyscalls`: `TopIsRight`, for any set of numbers with 0, where the places start (`TopAssumption`). `TopInv` is the ranking with its types; after one increment one place at most is out of order, and the
  three comparisons, or the insertion, restore it.
- `KeytimeImageProofs`: `ExitsNameTheirMaker`, `ReportedTasksAreForgotten`. `NewOK`: the task a call remembers is still the one it made, or gone; `NotedOK`: the entry of a noted task says how and by whom it was made; `LateOK`: for a noted or reported task
  no probe of a parent is to come that would write its entry again, which is what keeps a reused pid and a late probe apart; `ReportedOK`: a reported task is about to delete its entry or has done so. `TaskOK` has what the kernel guarantees, such as that only Root inherits.
- `ResourceImageProofs`: `MetersAreExact`, `NothingPrintsTwice`, `PrintsNeverFail`. `ProbeOK`: the task whose switch a probe handles runs nowhere and in no other probe; `PointerOK`: the pointer of a probe is to the element of its task, or that was deleted; `ElemOK`: two keys never have one element; `TimesOK`: starts are
  in the past and those noted are the stint's. `PrinterOK` orders what was shown along the walk and the delete loop. That the next key is the least one after the current is an induction on `Slot` (`WellFoundedInduction`).
- `CpuWatcherProofs`: one invariant per watcher, joined in `WatcherInv` under the option the tool serves, and one theorem per property of the run. `MqInv`: `Calls` (a message belongs to one call of its sender), `Addresses` (of two messages with one address,
  the calls that matter are in `reused`), `Entries` and `Records` (the record of a message waits under its address until its receiver's probe); from these also the action property `ReceiptsAreReported`. `ScInv`: the time of a task in a call lies in the slot of exactly one CPU, beside its number. `CsInv`: the last writer of the
  slot finds its own time. `PtInv`: a time in `preemptTime` that no lost event left behind is that of a preemption about to be taken up. `SdInv`: a waiting task has no time noted or the one its wait began at, and a history is written, on its way or was refused. `MuInv`: no slot on the path to a mutex is free,
  and the slot holds its count; lemmas show that the path visits every slot and a search ends at the first slot that is free or the mutex's own. `SmInv`: a stint finds its own begin or a later one of its key; a total lags behind the stints, and is equal to them when nothing
  was spoilt. `ControlInv`: a printer about to write its control value back has read one that was on, and an instance whose path was taken is between its unpin and its pin. `WatcherAssumption`, `NameAssumption` and `RecordAssumption` are the assumptions.

**Only model-checked:** the liveness properties `OutputKeepsComing` and `PollingGoesOn`, because fairness is out of the prover's reach, and the two runs that end in a counterexample. The reachability of the interesting cases is TLC's to show as well: the theorems hold
in a system that never moves, the runs fire every action and each property fails for its mutant.

## 5. Disagreements between the code and its comments

Two are shown by runs (`findings` in `PROJECT.json`). Others were met while modelling and are not runs:

- `bpf/schedule_image.bpf.c:269` says the data of an exiting process are removed "to prevent overflow". The tracepoint fires before the last switch of the task; a
  wakeup or preemption after it records the task again and nothing removes it.
- `proc_image.c:983` waits "for the new thread to end" and reclaims its resources. A thread that starts late raises `create_thread` after the last created one was joined; the loop then starts none, and the next `exit_thread`
  makes it join the same handle again (`proc_image.c:986`). Handles that were overwritten are never joined.
- `include/lock_image.h:167-173`: the kind of a released rwlock is read after the release. A reader's release is reported as a
  write lock's when a writer got the lock in between, and of two readers the second to release is not reported.
- `controller.c:250-274`: a controller that fails at a later image leaves the earlier ones on, also with `-t`. `-s` falls through into `-S` (`controller.c:167-177`), so that `controller -s` against `proc_image -s` always fails this way.
- `bpf/syscall_image.bpf.c:195`: "after a policy switch the first data are not recorded" holds for a new single target and for one thread of a new group
  only. After other switches a batch is sent that mixes calls from before and after.
- `proc_image.c:444` against `bpf/syscall_image.bpf.c:228`: with `-p` of a thread and `-P` of another group (`controller.c:113-132` allows both) the handler fills the fields of the one target and the printer divides those of the other, which
  were never written. `QuotientIsWritten` is about one target (`OneTarget`).
- `bpf/keytime_image.bpf.c:203`: `vfork_exit` also runs in the parent and then reports the parent as a vfork child of its own parent.
- `include/helpers.h:108-147`: the three places start at number 0, so that one number may hold several until three others have been called.

In cpu_watcher:

- `cpu_watcher.c:1101`: every option falls from the loop into the clean-up of `-c`; the other labels are reached on errors only, so that the other watchers leave their
  map pinned when they end. The alarm of `-t` has no handler and ends the tool without clean-up (`cpu_watcher.c:152`). The next run unpins what was left.
- `cpu_watcher.c:277-288, 588-602`: the printer writes the whole control value back after the head of a table; a command that came after its read is undone.
- The probes of `-c`, `-p`, `-m`, `-S` and `-s` read their control map and ignore it; it stops the output of some and nothing of others.
- `controller.c:89-93`: `-P` has no break and falls into `-c`.
- `cpu_watcher.c:1052`: a round without a preemption divides by zero. `cpu_watcher.c:344`: a look before the first softirq has ended finds no entry and ends the tool.
- `bpf/sar.bpf.c:33`: times of tasks with pids of 1024 and more are never noted and not counted. The first stint of a thread that ran when the tool started counts as long as the machine is up.
- `bpf/cs_delay.bpf.c:26`: one slot for all CPUs; only the CPU that entered `schedule()` last gets its own duration.

## 6. Abstractions

- A `struct` in an array map is written by the controller with one system call; a handler that reads it field by field while it is written could see a mixture. The models read
  a policy as a whole.
- A signal handler is one step. Counters of 64 bits are naturals; `DelayNeverWraps` shows that the one subtraction among them is safe.
- Hash maps are functions with a bound on the number of entries; `bpf_map_update_elem` fails exactly when a new key finds the map full. A ring buffer refuses an event when
  full (`SyscallImage`, `PreemptTime`) or whenever it likes (`LockImage`, `KeytimeImage`, `MqDelay`, `CsDelay`, `ScDelay`).
- `ResourceImage`: a probe takes one time for the end of a stint and the start of the next; the code reads the clock twice. Memory and I/O are left out.
- `MqDelay`: a probe is one step; its maps are keyed by the task or by an address only one side uses at a time, except where `reused` says so. Error pointers of `load_msg` and its callers from System V queues are left out.
- `ScheduleDelay`: `has_scheduled` has the keys of `enter_schedule`; its value and `count` are never shown. The totals in `sys_schedule` are the code of the schedule image. Times are those of the threshold's unit.
- `PreemptTime` ignores that `preemptTime` may be full: the preemption is then not reported. `SarMeter`: `print_all` with `sar_func` off is no step.
- `CpuWatcher`: a behaviour is about one watcher, as the tool serves one option; the parts it is not about stay in one initial state.

## 7. Not modelled, and the plan

Not modelled for good: libbpf, bpftool, blazesym, vmlinux headers and the copied helpers (third party); `tools/` (earlier versions of the images); `src/CPU_Subsystem/old_project`, `src/ospp`, data and documents; formatting
of output; the test programs, which are workloads.

Of cpu_watcher: the histogram of `-c`, the EWMA filter, the list of waits already shown, the counters `sar` copies from the kernel and its sampled ticks, the probes of `mutrace.bpf.c` (one event per call; the map they fill besides is never read).

Planned, in this order:

1. `ExecArgs`: the argument buffer of the execve handler: its size stays below the limit; when the ellipsis is printed; with its proof.
2. Proofs of further action properties: what a step of the printer of the schedule and resource images may never do to a map, and that a command of the controller changes no image but its own.
3. The structure of the longest proofs, `CpuWatcherProofs` first: lemmas its watchers share.
