----------------------------- MODULE CpuWatcher -----------------------------
(***************************************************************************)
(* cpu_watcher: a run of the tool sets up one of its watchers (the else-if *)
(* chain of main) and serves it until it ends.  Each watcher is a module   *)
(* of its own, and so is the set-up and control that all have in common:   *)
(* a behaviour is about one of them.                                       *)
(***************************************************************************)
EXTENDS Naturals

CONSTANTS
  Task, Addr, MaxCalls,                     \* mq_delay
  Pid, Cpu, MaxClock,
  Id, MaxEnter, MaxEvents, Limit, Boot,     \* sc_delay
  MaxRing, MaxCount,                        \* preempt
  Min, Core,                                \* schedule_delay; Core are its CPUs
  Ptr, HASH_SIZE, MaxLocks,                 \* mutrace
  Vec, Far,                                 \* sar
  Tool, MaxCmds,                            \* control
  None

ASSUME WatcherAssumption ==
  /\ Limit \in Nat /\ Boot \in Nat /\ Limit < Boot
  /\ 0 \in Id /\ Id \subseteq Nat
  /\ HASH_SIZE \in Nat \ {0} /\ Ptr \subseteq Nat \ {0}
  /\ Min \in Nat
  \* the bounds
  /\ MaxClock \in Nat /\ MaxClock >= 2
  /\ MaxCalls \in Nat /\ MaxCmds \in Nat /\ MaxLocks \in Nat

\* A pid is no CPU and no vector, and None is nothing else.
ASSUME NameAssumption ==
  /\ Pid \cap (Cpu \cup Core) = {}
  /\ None \notin Nat \cup BOOLEAN \cup Task \cup Addr \cup Pid \cup Cpu \cup Core \cup Tool

VARIABLES
  watcher,   \* the option the tool was started with, or "control"
  mq_calls, mq_task, mq_queue, mq_send1, mq_send2, mq_rcv1, mq_ev, mq_reused, mq_refused, mq_lost,
  sc_clock, sc_task, sc_time, sc_event, sc_line, sc_ghost,
  cs_clock, cs_cpu, cs_start, cs_ev, cs_alone,
  pt_clock, pt_cpu, pt_time, pt_rb, pt_count, pt_sum, pt_started, pt_loop, pt_lost,
  sd_clock, sd_run, sd_st, sd_exiting, sd_since, sd_enter, sd_threshold, sd_histories,
  sd_handler, sd_func, sd_printer, sd_quiet, sd_refused,
  mu_counts, mu_hung, mu_seen,
  sm_kind, sm_clock, sm_cpu, sm_start, sm_total, sm_seen, sm_figure, sm_enabled,
  sm_alive, sm_real, sm_base, sm_spoilt,
  wc_opt, wc_tool, wc_map, wc_path, wc_ctl, wc_cmds, wc_last, wc_overtaken, wc_between

Mq == INSTANCE MqDelay WITH
  calls <- mq_calls, task <- mq_task, queue <- mq_queue, send_msg1 <- mq_send1,
  send_msg2 <- mq_send2, rcv_msg1 <- mq_rcv1, ev <- mq_ev, reused <- mq_reused,
  refused <- mq_refused, lost <- mq_lost
Sc == INSTANCE ScDelay WITH
  clock <- sc_clock, task <- sc_task, SyscallEnterTime <- sc_time, Events <- sc_event,
  line <- sc_line, ghost <- sc_ghost, MaxClock <- Boot + MaxClock
Cs == INSTANCE CsDelay WITH
  clock <- cs_clock, cpu <- cs_cpu, start <- cs_start, ev <- cs_ev, alone <- cs_alone
Pt == INSTANCE PreemptTime WITH
  clock <- pt_clock, cpu <- pt_cpu, preemptTime <- pt_time, rb <- pt_rb,
  count <- pt_count, sum <- pt_sum, started <- pt_started, loop <- pt_loop, lost <- pt_lost,
  MaxClock <- MaxClock - 1
Sd == INSTANCE ScheduleDelay WITH
  clock <- sd_clock, run <- sd_run, st <- sd_st, exiting <- sd_exiting, since <- sd_since,
  enter_schedule <- sd_enter, threshold <- sd_threshold, proc_histories <- sd_histories,
  handler <- sd_handler, func <- sd_func, printer <- sd_printer, quiet <- sd_quiet,
  refused <- sd_refused, Cpu <- Core, MaxClock <- MaxClock - 2
Mu == INSTANCE LockCounts WITH
  lock_counts <- mu_counts, hung <- mu_hung, seen <- mu_seen, MaxEvents <- MaxLocks
Sm == INSTANCE SarMeter WITH
  kind <- sm_kind, clock <- sm_clock, cpu <- sm_cpu, start <- sm_start, total <- sm_total,
  seen <- sm_seen, figure <- sm_figure, enabled <- sm_enabled,
  alive <- sm_alive, real <- sm_real, base <- sm_base, spoilt <- sm_spoilt,
  MaxClock <- Boot + MaxClock - 1
Wc == INSTANCE WatcherControl WITH
  opt <- wc_opt, tool <- wc_tool, map <- wc_map, path <- wc_path, ctl <- wc_ctl, cmds <- wc_cmds,
  last <- wc_last, overtaken <- wc_overtaken, between <- wc_between

\* nor a record of the maps of mq_delay.
ASSUME RecordAssumption == None \notin Mq!Message \cup Mq!SendInfo \cup Mq!RcvInfo \cup Mq!Event

mq == <<mq_calls, mq_task, mq_queue, mq_send1, mq_send2, mq_rcv1, mq_ev, mq_reused,
        mq_refused, mq_lost>>
sc == <<sc_clock, sc_task, sc_time, sc_event, sc_line, sc_ghost>>
cs == <<cs_clock, cs_cpu, cs_start, cs_ev, cs_alone>>
pt == <<pt_clock, pt_cpu, pt_time, pt_rb, pt_count, pt_sum, pt_started, pt_loop, pt_lost>>
sd == <<sd_clock, sd_run, sd_st, sd_exiting, sd_since, sd_enter, sd_threshold, sd_histories,
        sd_handler, sd_func, sd_printer, sd_quiet, sd_refused>>
mu == <<mu_counts, mu_hung, mu_seen>>
sm == <<sm_kind, sm_clock, sm_cpu, sm_start, sm_total, sm_seen, sm_figure, sm_enabled,
        sm_alive, sm_real, sm_base, sm_spoilt>>
wc == <<wc_opt, wc_tool, wc_map, wc_path, wc_ctl, wc_cmds, wc_last, wc_overtaken, wc_between>>
vars == <<watcher, mq, sc, cs, pt, sd, mu, sm, wc>>

Init ==
  /\ watcher \in {"cs", "preempt", "sc", "schedule", "sar", "mq", "mutrace", "control"}
  /\ Mq!Init /\ Sc!Init /\ Cs!Init /\ Pt!Init /\ Sd!Init /\ Mu!Init /\ Sm!Init /\ Wc!Init
  \* one initial state of the parts the behaviour is not about
  /\ watcher # "sar" => sm_kind = "idle" /\ \A c \in Cpu : sm_cpu[c].at = "out"
  /\ watcher # "control" => wc_opt = "cs"

Next ==
  /\ \/ watcher = "mq" /\ Mq!Next /\ UNCHANGED <<sc, cs, pt, sd, mu, sm, wc>>
     \/ watcher = "sc" /\ Sc!Next /\ UNCHANGED <<mq, cs, pt, sd, mu, sm, wc>>
     \/ watcher = "cs" /\ Cs!Next /\ UNCHANGED <<mq, sc, pt, sd, mu, sm, wc>>
     \/ watcher = "preempt" /\ Pt!Next /\ UNCHANGED <<mq, sc, cs, sd, mu, sm, wc>>
     \/ watcher = "schedule" /\ Sd!Next /\ UNCHANGED <<mq, sc, cs, pt, mu, sm, wc>>
     \/ watcher = "mutrace" /\ Mu!Next /\ UNCHANGED <<mq, sc, cs, pt, sd, sm, wc>>
     \/ watcher = "sar" /\ Sm!Next /\ UNCHANGED <<mq, sc, cs, pt, sd, mu, wc>>
     \/ watcher = "control" /\ Wc!Next /\ UNCHANGED <<mq, sc, cs, pt, sd, mu, sm>>
  /\ UNCHANGED watcher

Spec == Init /\ [][Next]_vars
-----------------------------------------------------------------------------
(* Properties: see the watchers' modules. *)

TypeOK ==
  /\ watcher \in {"cs", "preempt", "sc", "schedule", "sar", "mq", "mutrace", "control"}
  /\ watcher = "mq" => Mq!TypeOK
  /\ watcher = "sc" => Sc!TypeOK
  /\ watcher = "cs" => Cs!TypeOK
  /\ watcher = "preempt" => Pt!TypeOK
  /\ watcher = "schedule" => Sd!TypeOK
  /\ watcher = "mutrace" => Mu!TypeOK
  /\ watcher = "sar" => Sm!TypeOK
  /\ watcher = "control" => Wc!TypeOK

\* An event of mq_delay names the sender of the message received and that send's times,
\* unless the address was shared or a map full.
EventIsOfItsMessage == watcher = "mq" => Mq!EventIsOfItsMessage
\* Under the same conditions every message received gets its event.
ReceiptIsReported == [][watcher = "mq" => Mq!ReceiptStep]_vars
\* A line of sc_delay shows the number and the duration of its call, wherever the task
\* moved, unless a task that died in a call left its time behind.
LineIsOfItsCall == watcher = "sc" => Sc!LineIsOfItsCall
\* The CPU that entered schedule() last gets its own duration from the slot all share.
LastEntryIsExact == watcher = "cs" => Cs!LastEntryIsExact
\* An event of preempt is about a preemption and has its duration, unless an event of the
\* same task was lost before.
EventIsOfAPreemption == watcher = "preempt" => Pt!EventIsOfAPreemption
\* The wait schedule_delay shows is the task's own.
WaitIsExact == watcher = "schedule" => Sd!WaitIsExact
\* The printer of waits ends the tool only between the two writes of a task's first wait.
FailsInFirstSwitchOnly == watcher = "schedule" => Sd!FailsInFirstSwitchOnly
\* Every mutex has its own count in the table of mutrace, whatever others collide with it,
\* and the search runs for ever only when the table is full.
TableIsRight == watcher = "mutrace" => Mu!CountIsExact /\ Mu!HangsOnlyWhenFull
\* A total of sar is the time of the stints that ended, which races only make smaller, and
\* what sar shows is what was added to it since the last look.
FiguresAreRight == watcher = "sar" => Sm!TotalIsExact /\ Sm!FigureIsOfItsInterval
\* A watcher is on or off as the last command said, but for two windows.
CommandIsKept == watcher = "control" => Wc!CommandIsKept
\* What an earlier instance left behind never keeps the tool from starting.
PinIsFree == watcher = "control" => Wc!PinIsFree
=============================================================================
