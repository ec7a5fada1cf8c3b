------------------------------ MODULE SarMeter ------------------------------
(***************************************************************************)
(* cpu_watcher -s: the times that bpf/sar.bpf.c adds up and print_all      *)
(* shows as differences between two looks.  A meter notes when a stint     *)
(* began under a key and adds its length to one total when it ends; the    *)
(* meters differ in their keys and in what a key without a note holds:     *)
(*   "idle"     the CPU, in an array; 0 is no note;                        *)
(*   "softirq"  the vector, whatever the CPU, in a hash, as is the total;  *)
(*   "irq"      the interrupt, whatever the CPU, in a hash;                *)
(*   "thread"   the pid, in an array; 0 is taken for a time; a pid beyond  *)
(*              the array has no slot.                                     *)
(* The total is read and written back in two steps.  sar_ctrl stops the    *)
(* output only.                                                            *)
(***************************************************************************)
EXTENDS Integers

CONSTANTS
  Cpu, Vec,
  Pid, Far,   \* pids within the array and beyond it
  Boot,       \* the time the tool starts at
  MaxClock,   \* bound: the last time
  None

VARIABLES
  kind,       \* the meter
  clock,
  cpu,        \* [Cpu -> Stint]
  start,      \* [Key -> time or None]
  total,      \* None while a hash has no entry
  seen,       \* what print_all read last
  figure,     \* what it showed in the last step, if it did
  enabled,    \* env.enable_proc
  alive,
  real,       \* history: the length of the stints that were added
  base,       \* history: real when print_all looked last
  spoilt      \* history: what has happened that the meter does not cope with

vars == <<kind, clock, cpu, start, total, seen, figure, enabled, alive, real, base, spoilt>>

Key == Cpu \cup Vec \cup Pid \cup Far
\* at: "out"; "in" a stint; "add" after it with the sum to be written, made from old:
\* since is then the length of the stint.
Stint == [at : {"out", "in", "add"}, key : Key \cup {None}, since : Nat, old : Nat, sum : Nat]
Out == [at |-> "out", key |-> None, since |-> 0, old |-> 0, sum |-> 0]
In(k, t) == [at |-> "in", key |-> k, since |-> t, old |-> 0, sum |-> 0]

Keys(c) == CASE kind = "idle" -> {c} [] kind \in {"softirq", "irq"} -> Vec
                  [] kind = "thread" -> Pid \cup Far

Busy(k) == \E c \in Cpu : cpu[c].key = k

\* A stint may be under way when the programs are attached; since is 0 for those.
Init ==
  /\ kind \in {"idle", "softirq", "irq", "thread"}
  /\ clock = Boot
  /\ cpu \in [Cpu -> {Out} \cup {In(k, 0) : k \in Key}]
  /\ \A c \in Cpu : cpu[c].at = "in" => cpu[c].key \in Keys(c)
  /\ kind = "thread" => \A b, c \in Cpu : b # c /\ cpu[b].at = "in" => cpu[b].key # cpu[c].key
  /\ start = [k \in Key |-> IF kind \in {"softirq", "irq"} \/ k \in Far THEN None ELSE 0]
  /\ total = (IF kind = "softirq" THEN None ELSE 0)
  /\ seen = 0 /\ figure = None /\ enabled = FALSE /\ alive = TRUE
  /\ real = 0 /\ base = 0 /\ spoilt = {}
-----------------------------------------------------------------------------
(* The programs. *)

\* bpf_map_update_elem of the start; fails beyond the end of an array.
Noted(k) == IF k \in Far THEN start ELSE [start EXCEPT ![k] = clock]

\* cpu_idle with a state, softirq_entry, irq_handler_entry, sched_switch to k.
Begin(c, k) ==
  /\ cpu[c].at = "out" /\ k \in Keys(c)
  /\ kind = "thread" => ~Busy(k)
  /\ cpu' = [cpu EXCEPT ![c] = In(k, clock)]
  /\ start' = Noted(k)
  /\ spoilt' = IF Busy(k) THEN spoilt \cup {"shared"} ELSE spoilt
  /\ figure' = None
  /\ UNCHANGED <<kind, clock, total, seen, enabled, alive, real, base>>

\* Whether the end of a stint under k is added up.
Counts(k) == start[k] # None /\ (kind = "idle" => start[k] # 0)

\* cpu_idle with state -1, softirq_exit, irq_handler_exit, finish_task_switch from k, up to
\* the load of the total.
End(c) ==
  LET k == cpu[c].key
      old == IF total = None THEN 0 ELSE total
  IN
  /\ cpu[c].at = "in"
  /\ IF Counts(k)
     THEN /\ cpu' = [cpu EXCEPT ![c] = [at |-> "add", key |-> k, since |-> clock - @.since,
                                        old |-> old, sum |-> old + (clock - start[k])]]
          /\ spoilt' = IF kind = "thread" /\ cpu[c].since = 0 THEN spoilt \cup {"before"} ELSE spoilt
     ELSE cpu' = [cpu EXCEPT ![c] = Out] /\ UNCHANGED spoilt
  /\ figure' = None
  /\ UNCHANGED <<kind, clock, start, total, seen, enabled, alive, real, base>>

\* The sum is written.
Add(c) ==
  /\ cpu[c].at = "add"
  /\ total' = cpu[c].sum
  /\ real' = real + cpu[c].since
  /\ spoilt' = IF total \in {None, cpu[c].old} THEN spoilt ELSE spoilt \cup {"raced"}
  /\ cpu' = [cpu EXCEPT ![c] = Out]
  /\ figure' = None
  /\ UNCHANGED <<kind, clock, start, seen, enabled, alive, base>>
-----------------------------------------------------------------------------
(* print_all. *)

\* Variant: the value read is not kept when nothing is shown.
SeenWhenShown == IF enabled THEN total ELSE seen

\* The global that holds the value between two calls.
Seen == total

\* The first look shows nothing; one that finds no entry ends the tool.  With sar_func
\* off there is none.
Look ==
  /\ alive
  /\ IF total = None
     THEN alive' = FALSE /\ figure' = None /\ UNCHANGED <<seen, enabled, base>>
     ELSE /\ seen' = Seen
          /\ figure' = IF enabled THEN [shown |-> total - seen, real |-> real - base] ELSE None
          /\ enabled' = TRUE /\ base' = real
          /\ UNCHANGED alive
  /\ UNCHANGED <<kind, clock, cpu, start, total, real, spoilt>>

Tick ==
  /\ clock < MaxClock /\ clock' = clock + 1 /\ figure' = None
  /\ UNCHANGED <<kind, cpu, start, total, seen, enabled, alive, real, base, spoilt>>

Next ==
  \/ Look \/ Tick
  \/ \E c \in Cpu : End(c) \/ Add(c) \/ \E k \in Key : Begin(c, k)
-----------------------------------------------------------------------------
(* Properties. *)

TypeOK ==
  /\ kind \in {"idle", "softirq", "irq", "thread"} /\ clock \in Boot..MaxClock
  /\ cpu \in [Cpu -> Stint] /\ start \in [Key -> Nat \cup {None}]
  /\ total \in Nat \cup {None} /\ seen \in Nat /\ real \in Nat /\ base \in Nat
  /\ enabled \in BOOLEAN /\ alive \in BOOLEAN
  /\ spoilt \subseteq {"shared", "before", "raced"}

Total == IF total = None THEN 0 ELSE total

\* The total is the time of the stints that ended, unless two CPUs added at once or were
\* in the same vector at once; those only make it too small.  Only a thread that ran
\* before the tool started adds time it did not use (sar.bpf.c:96, 119, 154, 170, 217).
TotalIsExact ==
  /\ spoilt = {} => Total = real
  /\ "before" \notin spoilt => Total <= real

\* What print_all shows is what was added between two looks, also around a pause of the
\* output and after the first look, which shows nothing; and only an addition that was
\* overtaken by another can make it negative (cpu_watcher.c:337, 361, 373, 403).
FigureIsOfItsInterval ==
  figure # None =>
    /\ spoilt = {} => figure.shown = figure.real
    /\ "raced" \notin spoilt => figure.shown >= 0
=============================================================================
