---------------------------- MODULE ResourceImage ----------------------------
(***************************************************************************)
(* The resource image: the probe on finish_task_switch that charges CPU    *)
(* time to the task that leaves a CPU (bpf/resource_image.bpf.c), and      *)
(* print_resource of proc_image.c, which prints the charges of an interval *)
(* and clears the map while the probes go on.  The probe of a task that    *)
(* leaves ends before another CPU may take the task, so two probes never   *)
(* charge one task; only the printer interferes, by deleting entries.  The *)
(* hash map total is preallocated: a deleted element may be handed out     *)
(* again while a probe still holds a pointer to it.  Memory and I/O figures*)
(* are charged and cleared together with the time and are left out; rss is *)
(* the address of an array and never NULL.                                 *)
(***************************************************************************)
EXTENDS Integers, FiniteSets

CONSTANTS
  Proc, Cpu,
  Slot,        \* position of a key in total, the order get_next_key follows
  Policies,    \* the rsc_ctrl values: sets of selected tasks, {} is rsc_func = false
  MaxEntries,  \* max_entries of start and of total
  Elem,        \* the elements preallocated for total
  MaxClock,    \* bound: task switches in a behaviour
  MaxCmds,     \* bound: policy changes in a behaviour
  Nil

\* The keys of the maps.  struct proc_id of the idle task of a CPU is (0, cpu): it is
\* named after its CPU.
Task == Proc \cup Cpu

ASSUME ResourceAssumption ==
  /\ Proc \cap Cpu = {} /\ Nil \notin Task \cup Elem \cup Nat
  /\ Slot \in [Task -> Nat] /\ \A j, k \in Task : Slot[j] = Slot[k] => j = k
  /\ Policies \subseteq SUBSET Task
  /\ MaxEntries \in Nat /\ MaxClock \in Nat /\ MaxCmds \in Nat
  /\ IsFiniteSet(Elem) /\ Cardinality(Elem) > MaxEntries

VARIABLES
  clock, run,      \* bpf_ktime_get_ns; the task each CPU runs
  watch, cmds,     \* the tasks rsc_ctrl selects; policy changes so far
  start,           \* [Task -> time or Nil]
  total, elem,     \* [Task -> Elem or Nil]; what each element holds
  h,               \* the probe on each CPU
  p,               \* print_resource
  first_rsc, prevtime,
  since,           \* when each task last got its CPU
  noted,           \* history: the probe stored that time in start
  used,            \* history: length of the stints charged to the task's entry
  odd,             \* history: something else went into the entry
  shown            \* history: the entry was printed

kernel  == <<clock, run, since>>
maps    == <<start, total, elem>>
printer == <<p, first_rsc, prevtime>>
history == <<noted, used, odd, shown>>
vars == <<kernel, watch, cmds, maps, h, printer, history>>

\* at: "create" or "found" after the first lookup in total, "add" and "put" with a
\* pointer to the element, "next" before the second half of the probe.  t is the time
\* of the switch.
Probe == [at : {"idle", "create", "found", "add", "put", "next"},
          prev : Task \cup {Nil}, t : Nat, ptr : Elem \cup {Nil}]
At(a) == [at |-> a, prev |-> Nil, t |-> 0, ptr |-> Nil]

\* at: "walk" with the key met last, "lookup" with the next one; "clear" and "delete"
\* the same in the delete loop; "failed" after return -1.  fd is FALSE while the local
\* fd holds whatever the stack held.
Printer == [at : {"idle", "walk", "lookup", "clear", "delete", "failed"},
            key : Task \cup {Nil}, fd : BOOLEAN]

InTotal    == {k \in Task : total[k] # Nil}
TimeOf(k)  == IF k \in InTotal THEN elem[total[k]].time ELSE 0
Owned      == {total[k] : k \in InTotal}

Room(map, k) == map[k] # Nil \/ Cardinality({j \in Task : map[j] # Nil}) < MaxEntries

Init ==
  /\ clock = 0 /\ run = [c \in Cpu |-> c]
  /\ watch = {} /\ cmds = 0
  /\ start = [k \in Task |-> Nil] /\ total = [k \in Task |-> Nil]
  /\ elem = [e \in Elem |-> [pid |-> Nil, time |-> 0]]
  /\ h = [c \in Cpu |-> At("idle")]
  /\ p = [at |-> "idle", key |-> Nil, fd |-> FALSE]
  /\ first_rsc = TRUE /\ prevtime = 0
  /\ since = [k \in Task |-> 0]
  /\ noted = [k \in Task |-> FALSE] /\ used = [k \in Task |-> 0]
  /\ odd = [k \in Task |-> FALSE] /\ shown = [k \in Task |-> FALSE]
------------------------------------------------------------------------------
(* kprobe__finish_task_switch. *)

\* A task on no CPU, with no probe still at work on it.
Waiting(k, c) ==
  /\ k \in Proc \cup {c}
  /\ \A b \in Cpu : run[b] # k /\ h[b].prev # k

\* CPU c goes from prev to next; the probe runs up to its first lookup in total.
Switch(c, next) ==
  LET prev == run[c] IN
  /\ clock < MaxClock /\ h[c].at = "idle" /\ Waiting(next, c)
  /\ clock' = clock + 1
  /\ run' = [run EXCEPT ![c] = next]
  /\ since' = [since EXCEPT ![next] = clock + 1]
  /\ noted' = [noted EXCEPT ![next] = FALSE]
  /\ h' = [h EXCEPT ![c] =
       IF watch = {} THEN At("idle")
       ELSE IF prev \notin watch \/ start[prev] = Nil THEN At("next")
       ELSE [at |-> IF prev \in InTotal THEN "found" ELSE "create",
             prev |-> prev, t |-> clock + 1, ptr |-> Nil]]
  /\ UNCHANGED <<watch, cmds, maps, printer, used, odd, shown>>

\* bpf_ktime_get_ns() - prev_start->time.
Elapsed(c) == h[c].t - start[h[c].prev]

\* What a charge should be: the length of the stint that ended.
Stint(c) == h[c].t - since[h[c].prev]

\* bpf_map_update_elem(&total, k, v, BPF_ANY): the value goes to a free element, which
\* replaces the one k had.
Update(k, v) ==
  \E e \in Elem \ Owned :
    /\ total' = [total EXCEPT ![k] = e]
    /\ elem' = [elem EXCEPT ![e] = v]

\* The task had no entry.
Create(c) ==
  LET k == h[c].prev IN
  /\ h[c].at = "create"
  /\ h' = [h EXCEPT ![c] = At("next")]
  /\ IF Room(total, k)
     THEN /\ Update(k, [pid |-> k, time |-> Elapsed(c)])
          /\ used' = [used EXCEPT ![k] = Stint(c)]
          /\ odd' = [odd EXCEPT ![k] = ~noted[k]]
     ELSE UNCHANGED <<total, elem, used, odd>>
  /\ UNCHANGED <<kernel, watch, cmds, start, printer, noted, shown>>

\* The second lookup.  If the printer has deleted the entry since the first one the
\* probe returns, and the task that comes is not recorded.
Find(c) ==
  LET k == h[c].prev IN
  /\ h[c].at = "found"
  /\ h' = [h EXCEPT ![c] = IF k \in InTotal THEN [h[c] EXCEPT !.at = "add", !.ptr = total[k]]
                                            ELSE At("idle")]
  /\ UNCHANGED <<kernel, watch, cmds, maps, printer, history>>

\* prev_total->time += ...: the element may be another task's by now.
Add(c) ==
  LET k == h[c].prev  e == h[c].ptr IN
  /\ h[c].at = "add"
  /\ h' = [h EXCEPT ![c] = [@ EXCEPT !.at = "put"]]
  /\ elem' = [elem EXCEPT ![e] = [@ EXCEPT !.time = elem[e].time + Elapsed(c)]]
  /\ used' = [used EXCEPT ![k] = @ + Stint(c)]
  /\ odd' = [j \in Task |-> odd[j] \/ (total[j] = e /\ (j # k \/ ~noted[k]))]
  /\ UNCHANGED <<kernel, watch, cmds, start, total, printer, noted, shown>>

\* bpf_map_update_elem(&total, &prev_pd, &(*prev_total), BPF_ANY): an entry deleted in
\* the meantime comes back.
Put(c) ==
  LET k == h[c].prev  e == h[c].ptr IN
  /\ h[c].at = "put"
  /\ h' = [h EXCEPT ![c] = At("next")]
  /\ IF Room(total, k)
     THEN /\ Update(k, elem[e])
          /\ odd' = [odd EXCEPT ![k] = @ \/ total[k] # e]
     ELSE UNCHANGED <<total, elem, odd>>
  /\ UNCHANGED <<kernel, watch, cmds, start, printer, noted, used, shown>>

\* Variant: a start that is there already is kept.
StartNextKept(c) ==
  LET k == run[c] IN
  /\ h[c].at = "next"
  /\ h' = [h EXCEPT ![c] = At("idle")]
  /\ IF k \in watch /\ Room(start, k)
     THEN /\ start' = [start EXCEPT ![k] = IF @ = Nil THEN since[k] ELSE @]
          /\ noted' = [noted EXCEPT ![k] = TRUE]
     ELSE UNCHANGED <<start, noted>>
  /\ UNCHANGED <<kernel, watch, cmds, total, elem, printer, used, odd, shown>>

\* The second half: the task that comes.
StartNext(c) ==
  LET k == run[c] IN
  /\ h[c].at = "next"
  /\ h' = [h EXCEPT ![c] = At("idle")]
  /\ IF k \in watch /\ Room(start, k)
     THEN /\ start' = [start EXCEPT ![k] = since[k]]
          /\ noted' = [noted EXCEPT ![k] = TRUE]
     ELSE UNCHANGED <<start, noted>>
  /\ UNCHANGED <<kernel, watch, cmds, total, elem, printer, used, odd, shown>>
------------------------------------------------------------------------------
(* print_resource. *)

PrintUnchanged == UNCHANGED <<kernel, watch, cmds, start, elem, h, noted>>

\* The first call jumps to the delete loop, past the initialisation of fd.
PrintStart ==
  /\ p.at = "idle" /\ watch # {}
  /\ first_rsc' = FALSE
  /\ IF first_rsc THEN \E fd \in BOOLEAN : p' = [at |-> "clear", key |-> Nil, fd |-> fd]
                  ELSE p' = [at |-> "walk", key |-> Nil, fd |-> TRUE]
  /\ PrintUnchanged /\ UNCHANGED <<total, prevtime, used, odd, shown>>

\* bpf_map_get_next_key: starts over when the key it is given is not there.
Ahead == IF ~p.fd THEN {} ELSE {k \in InTotal : p.key \in InTotal => Slot[k] > Slot[p.key]}
NextKey == CHOOSE k \in Ahead : \A j \in Ahead : Slot[k] <= Slot[j]

PrintNext ==
  /\ p.at = "walk"
  /\ p' = IF Ahead = {} THEN [p EXCEPT !.at = "clear", !.key = Nil]
                        ELSE [p EXCEPT !.at = "lookup", !.key = NextKey]
  /\ PrintUnchanged /\ UNCHANGED <<total, first_rsc, prevtime, used, odd, shown>>

\* A row is printed if 0 < time and its share of the interval is at most 100%.
PrintRow ==
  LET k == p.key IN
  /\ p.at = "lookup"
  /\ p' = [p EXCEPT !.at = IF k \in InTotal THEN "walk" ELSE "failed"]
  /\ shown' = [shown EXCEPT ![k] = @ \/ TimeOf(k) \in 1..(clock - prevtime)]
  /\ PrintUnchanged /\ UNCHANGED <<total, first_rsc, prevtime, used, odd>>

\* Variant: only the first entry is deleted.
ClearNextOnce ==
  /\ p.at = "clear"
  /\ \/ /\ Ahead # {} /\ p.key = Nil
        /\ p' = [p EXCEPT !.at = "delete", !.key = NextKey]
        /\ UNCHANGED prevtime
     \/ /\ Ahead = {} \/ p.key # Nil
        /\ p' = [at |-> "idle", key |-> Nil, fd |-> FALSE]
        /\ prevtime' = clock
  /\ PrintUnchanged /\ UNCHANGED <<total, first_rsc, used, odd, shown>>

\* The delete loop; when it finds no key the interval ends.
ClearNext ==
  /\ p.at = "clear"
  /\ \/ /\ Ahead # {}
        /\ p' = [p EXCEPT !.at = "delete", !.key = NextKey]
        /\ UNCHANGED prevtime
     \/ /\ Ahead = {}
        /\ p' = [at |-> "idle", key |-> Nil, fd |-> FALSE]
        /\ prevtime' = clock
  /\ PrintUnchanged /\ UNCHANGED <<total, first_rsc, used, odd, shown>>

\* Variant: the key is deleted once more.
ClearDeleteAgain ==
  LET k == p.key IN
  /\ p.at = "delete"
  /\ p' = [p EXCEPT !.at = IF k \in InTotal THEN "delete" ELSE "failed"]
  /\ total' = [total EXCEPT ![k] = Nil]
  /\ used' = [used EXCEPT ![k] = 0]
  /\ odd' = [odd EXCEPT ![k] = FALSE] /\ shown' = [shown EXCEPT ![k] = FALSE]
  /\ PrintUnchanged /\ UNCHANGED <<first_rsc, prevtime>>

ClearDelete ==
  LET k == p.key IN
  /\ p.at = "delete"
  /\ p' = [p EXCEPT !.at = IF k \in InTotal THEN "clear" ELSE "failed"]
  /\ total' = [total EXCEPT ![k] = Nil]
  /\ used' = [used EXCEPT ![k] = 0]
  /\ odd' = [odd EXCEPT ![k] = FALSE] /\ shown' = [shown EXCEPT ![k] = FALSE]
  /\ PrintUnchanged /\ UNCHANGED <<first_rsc, prevtime>>
------------------------------------------------------------------------------
\* update_rsc_ctrl_map.
SetPolicy ==
  /\ cmds < MaxCmds /\ cmds' = cmds + 1
  /\ watch' \in Policies
  /\ UNCHANGED <<kernel, maps, h, printer, history>>

Next ==
  \/ \E c \in Cpu :
       \/ \E k \in Task : Switch(c, k)
       \/ Create(c) \/ Find(c) \/ Add(c) \/ Put(c) \/ StartNext(c)
  \/ PrintStart \/ PrintNext \/ PrintRow \/ ClearNext \/ ClearDelete
  \/ SetPolicy

Spec == Init /\ [][Next]_vars
------------------------------------------------------------------------------
(* Properties. *)

TypeOK ==
  /\ clock \in Nat /\ run \in [Cpu -> Task]
  /\ watch \subseteq Task /\ cmds \in Nat
  /\ start \in [Task -> Nat \cup {Nil}]
  /\ total \in [Task -> Elem \cup {Nil}]
  /\ elem \in [Elem -> [pid : Task \cup {Nil}, time : Nat]]
  /\ h \in [Cpu -> Probe] /\ p \in Printer
  /\ first_rsc \in BOOLEAN /\ prevtime \in Nat
  /\ since \in [Task -> Nat] /\ used \in [Task -> Nat]
  /\ noted \in [Task -> BOOLEAN] /\ odd \in [Task -> BOOLEAN] /\ shown \in [Task -> BOOLEAN]

\* A row is the task's own, and its time is the sum of the stints charged since the
\* row was last cleared, nothing twice and nothing of another task.  The exceptions
\* are named by odd: a start left by an earlier policy or by a probe that returned
\* early, and a delete between the probe's lookup and its update; they end with the
\* next clear (resource_image.bpf.c:75-137, proc_image.c:255).
MeterIsExact ==
  \A k \in InTotal : ~odd[k] =>
    /\ elem[total[k]].pid = k
    /\ elem[total[k]].time = used[k]

\* What was printed has been deleted before the next print, although the delete loop
\* restarts from the first key after every deletion, probes add entries under it, and
\* the image is switched off and on: no walk meets an entry an earlier walk printed,
\* nor the same one twice (proc_image.c:209-262).
NothingIsPrintedTwice ==
  p.at = "lookup" => ~shown[p.key]

\* print_resource finds every key it was just given, so it never ends the program,
\* with whatever the stack held in fd on the first call (proc_image.c:187-189, 224, 257).
PrintNeverFails == p.at # "failed"
==============================================================================
