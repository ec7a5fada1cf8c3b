---------------------------- MODULE KeytimeImage ----------------------------
(***************************************************************************)
(* The keytime image: the handlers of bpf/keytime_image.bpf.c that follow  *)
(* tasks from creation to exit, with child_create and child_exit of        *)
(* include/keytime_image.h.  The entry of a child is written by a probe of *)
(* its parent and taken by a probe of the child, at whatever moments these *)
(* come; pids are used again.  A step is one handler, or one step of the   *)
(* kernel between two of them.                                             *)
(***************************************************************************)
EXTENDS Naturals, FiniteSets

CONSTANTS
  Pid,
  Root,        \* the task that is always there and inherits orphans
  Policies,    \* what the controller may write into kt_ctrl_map
  MaxEntries,  \* max_entries of child and of pthread_create_enable
  MaxMade,     \* bound: tasks made in a behaviour
  Nil,         \* no task; no map entry
  Failed       \* -1, what fork returns when it fails

\* kt_func, and the tasks that enable_myproc and the targets let through.  The parent
\* of Root, Nil, can be among them.
Policy == [kt_func : BOOLEAN, watch : SUBSET (Pid \cup {Nil})]

\* What proc_image writes into the map before it attaches the handlers.
Off == [kt_func |-> FALSE, watch |-> {}]

ASSUME KeytimeAssumption ==
  /\ Root \in Pid /\ Nil \notin Pid /\ Failed \notin Pid /\ Nil # Failed
  /\ Policies \subseteq Policy

\* keytime_event.type of the creation of a task; its exit has the next number.
CreateType == [fork |-> 4, vfork |-> 6, thread |-> 8]

\* Where a task is: "none", no such task; "fork", "clone", "pclone": the call has made
\* its new task, its return was not seen yet ("pclone" is the clone3 inside
\* pthread_create); "pthread", "pret": in pthread_create before and after its clone3;
\* "vborn", a vfork child that has not returned yet; "vfork", a parent that waits for
\* it, "vforked" one that need not wait any more; "exiting", in exit or exit_group.
At == {"none", "run", "fork", "clone", "pthread", "pclone", "pret", "vborn", "vfork",
       "vforked", "exec", "exiting"}
How == {"fork", "vfork", "thread", "other"}

ChildInfo == [type : {4, 6, 8}, ppid : Pid \cup {Nil}]
Child == Pid \cup {Failed}

VARIABLES
  kt,                      \* kt_ctrl_map
  task,                    \* [Pid -> [at, how, maker, par, new]]
  child,                   \* [Child -> ChildInfo or Nil]
  pthread_create_enable,   \* the pids in the map (the value is always true)
  found,                   \* [Pid -> local of child_exit: it found an entry to delete]
  ev,                      \* what child_create or child_exit put into keytime_rb in
                           \* the last step (the other events name the task alone)
  made,                    \* tasks made so far
  \* History, read by no guard.
  noted,    \* tasks whose creation was recorded as what it was, and not over it a vfork
            \* they called themselves
  reported  \* tasks that were noted before their exit, which was reported

ghost == <<noted, reported>>
vars == <<kt, task, child, pthread_create_enable, found, ev, made, ghost>>

NoTask == [at |-> "none", how |-> "other", maker |-> Nil, par |-> Nil, new |-> Nil]

Init ==
  /\ kt = Off
  /\ task = [p \in Pid |-> IF p = Root THEN [NoTask EXCEPT !.at = "run"] ELSE NoTask]
  /\ child = [c \in Child |-> Nil]
  /\ pthread_create_enable = {}
  /\ found = [p \in Pid |-> FALSE]
  /\ ev = {} /\ made = 0
  /\ noted = {} /\ reported = {}
-----------------------------------------------------------------------------
Watched(p) == kt.kt_func /\ p \in kt.watch

\* bpf_map_update_elem(BPF_ANY) on a hash map.
Room(present, key) == key \in present \/ Cardinality(present) < MaxEntries

\* Events reach the ring buffer or find it full.
Submit(e) == ev' = {e} \/ ev' = {}

Ev(type, p, info) == [type |-> type, pid |-> p, info |-> info]

\* Variant: an entry that is still there is kept (BPF_NOEXIST).
ChildCreateKept(type, c, p) ==
  /\ child' = IF child[c] = Nil THEN [child EXCEPT ![c] = [type |-> type, ppid |-> p]] ELSE child
  /\ Submit(Ev(type, p, c))

\* child_create.
ChildCreate(type, c, p) ==
  LET present == {x \in Child : child[x] # Nil} IN
  IF Room(present, c)
  THEN /\ child' = [child EXCEPT ![c] = [type |-> type, ppid |-> p]]
       /\ Submit(Ev(type, p, c))
  ELSE UNCHANGED child /\ ev' = {}

Quiet == UNCHANGED child /\ ev' = {}

\* The task c, if it is still there, is noted when child_create has stored its entry.
Note(c) ==
  noted' = IF child'[c] # Nil /\ task[c].at # "none" THEN noted \cup {c} ELSE noted

Move(p, to) == task' = [task EXCEPT ![p] = [@ EXCEPT !.at = to, !.new = Nil]]

\* The kernel makes the task c for p, which goes on at to; c starts at from.  A pid is
\* not given out again while the call that made its last owner has not returned:
\* the kernel goes through all pids before it uses one again.
Make(p, to, c, from, how) ==
  /\ task[c].at = "none" /\ \A q \in Pid : task[q].new # c
  /\ made < MaxMade /\ made' = made + 1
  /\ task' = [task EXCEPT ![p] = [@ EXCEPT !.at = to, !.new = c],
                          ![c] = [at |-> from, how |-> how, maker |-> p, new |-> Nil,
                                  par |-> IF how = "thread" THEN task[p].par ELSE p]]
  /\ noted' = noted \ {c} /\ reported' = reported \ {c}
  /\ ev' = {}
  /\ UNCHANGED <<kt, child, pthread_create_enable, found>>
-----------------------------------------------------------------------------
(* fork and vfork. *)

Fork(p, c) == task[p].at = "run" /\ Make(p, "fork", c, "run", "fork")

\* fork_exit in the caller: any result but 0 is taken for a child.
ForkExit(p, ret) == IF Watched(p) THEN ChildCreate(CreateType["fork"], ret, p) ELSE Quiet

ForkReturn(p) ==
  LET c == task[p].new IN
  /\ task[p].at = "fork"
  /\ Move(p, "run")
  /\ ForkExit(p, c)
  /\ IF Watched(p) THEN Note(c) ELSE UNCHANGED noted
  /\ UNCHANGED <<kt, pthread_create_enable, found, made, reported>>

\* fork fails and returns -1.
ForkFails(p) ==
  /\ task[p].at = "run"
  /\ ForkExit(p, Failed)
  /\ UNCHANGED <<kt, task, pthread_create_enable, found, made, ghost>>

\* The parent waits until the child has returned and called exec or exit.
Vfork(p, c) == task[p].at = "run" /\ Make(p, "vfork", c, "vborn", "vfork")

\* vfork_exit in p: whichever task it runs in is taken for a child of its parent.
VforkExit(p) == IF Watched(task[p].par) THEN ChildCreate(CreateType["vfork"], p, task[p].par) ELSE Quiet

\* In the new task.
VforkChild(p) ==
  /\ task[p].at = "vborn"
  /\ Move(p, "run")
  /\ VforkExit(p)
  /\ IF Watched(task[p].par) THEN Note(p) ELSE UNCHANGED noted
  /\ UNCHANGED <<kt, pthread_create_enable, found, made, reported>>

\* In the caller, when it need not wait any more or when its vfork has failed.
VforkReturn(p) ==
  /\ task[p].at \in {"vforked", "run"}
  /\ Move(p, "run")
  /\ VforkExit(p)
  /\ noted' = IF child' = child THEN noted ELSE noted \ {p}
  /\ UNCHANGED <<kt, pthread_create_enable, found, made, reported>>
-----------------------------------------------------------------------------
(* pthread_create and clone3. *)

\* pthread_create_enter.
PthreadEnter(p) ==
  /\ task[p].at = "run"
  /\ Move(p, "pthread")
  /\ pthread_create_enable' =
       IF Watched(p) /\ Room(pthread_create_enable, p)
       THEN pthread_create_enable \cup {p} ELSE pthread_create_enable
  /\ Quiet
  /\ UNCHANGED <<kt, found, made, ghost>>

\* clone3 in pthread_create, and called otherwise.
Clone(p, c) ==
  \/ task[p].at = "pthread" /\ Make(p, "pclone", c, "run", "thread")
  \/ task[p].at = "run" /\ Make(p, "clone", c, "run", "other")

\* sys_exit_clone3 in the caller.
CloneReturn(p) ==
  LET c == task[p].new IN
  /\ task[p].at \in {"pclone", "clone"}
  /\ Move(p, IF task[p].at = "pclone" THEN "pret" ELSE "run")
  /\ IF Watched(p) /\ p \in pthread_create_enable
     THEN /\ ChildCreate(CreateType["thread"], c, p)
          /\ IF task[p].at = "pclone" THEN Note(c) ELSE UNCHANGED noted
     ELSE Quiet /\ UNCHANGED noted
  /\ UNCHANGED <<kt, pthread_create_enable, found, made, reported>>

\* sys_exit_clone3 of a call that failed, with a number below 0.
CloneFails(p) ==
  /\ task[p].at = "pthread"
  /\ Move(p, "pret")
  /\ Quiet
  /\ UNCHANGED <<kt, pthread_create_enable, found, made, ghost>>

\* pthread_create_exit.
PthreadReturn(p) ==
  /\ task[p].at = "pret"
  /\ Move(p, "run")
  /\ pthread_create_enable' =
       IF Watched(p) THEN pthread_create_enable \ {p} ELSE pthread_create_enable
  /\ Quiet
  /\ UNCHANGED <<kt, found, made, ghost>>
-----------------------------------------------------------------------------
(* execve and exit. *)

\* Where q is after p has left the memory it shares with the caller of its vfork.
Woken(q, p) == IF task[q].at = "vfork" /\ task[q].new = p THEN "vforked" ELSE task[q].at

\* The task p is no more: who waits for its vfork goes on, its children are inherited.
Gone(p) ==
  /\ task' = [q \in Pid |->
       IF q = p THEN NoTask
       ELSE [task[q] EXCEPT !.at = Woken(q, p), !.par = IF @ = p THEN Root ELSE @]]
  /\ noted' = noted \ {p} /\ UNCHANGED reported

\* bpf_execve_enter and bpf_execve_exit keep no state: they send the arguments and the
\* result, or return.
ExecEnter(p) ==
  /\ task[p].at = "run"
  /\ Move(p, "exec")
  /\ Quiet
  /\ UNCHANGED <<kt, pthread_create_enable, found, made, ghost>>

\* A successful execve lets a vfork parent go on.
ExecExit(p) ==
  /\ task[p].at = "exec"
  /\ \/ task' = [task EXCEPT ![p] = [@ EXCEPT !.at = "run"]]
     \/ task' = [q \in Pid |-> [task[q] EXCEPT !.at = IF q = p THEN "run" ELSE Woken(q, p)]]
  /\ Quiet
  /\ UNCHANGED <<kt, pthread_create_enable, found, made, ghost>>

\* child_exit up to the delete; when the ring buffer is full the entry stays.
ChildExit(p) ==
  \/ /\ child[p] = Nil
     /\ found' = [found EXCEPT ![p] = FALSE] /\ ev' = {}
     /\ UNCHANGED reported
  \/ /\ child[p] # Nil
     /\ found' = [found EXCEPT ![p] = TRUE]
     /\ ev' = {Ev(child[p].type + 1, child[p].ppid, p)}
     /\ reported' = IF p \in noted THEN reported \cup {p} ELSE reported
  \/ /\ child[p] # Nil
     /\ found' = [found EXCEPT ![p] = FALSE] /\ ev' = {}
     /\ UNCHANGED reported

\* sys_enter_exit and sys_enter_exit_group: a full ring buffer for the event of the
\* task itself skips child_exit.
Exit(p) ==
  /\ task[p].at = "run" /\ p # Root
  /\ Move(p, "exiting")
  /\ \/ kt.kt_func /\ ChildExit(p)
     \/ /\ kt.kt_func => Watched(p)
        /\ found' = [found EXCEPT ![p] = FALSE] /\ ev' = {}
        /\ UNCHANGED reported
  /\ UNCHANGED <<kt, child, pthread_create_enable, made, noted>>

\* Variant: the entry is not deleted.
ExitEndKept(p) ==
  /\ task[p].at = "exiting"
  /\ Gone(p)
  /\ found' = [found EXCEPT ![p] = FALSE]
  /\ ev' = {}
  /\ UNCHANGED <<kt, child, pthread_create_enable, made>>

\* bpf_map_delete_elem at the end of child_exit; the task is gone.
ExitEnd(p) ==
  /\ task[p].at = "exiting"
  /\ Gone(p)
  /\ child' = IF found[p] THEN [child EXCEPT ![p] = Nil] ELSE child
  /\ found' = [found EXCEPT ![p] = FALSE]
  /\ ev' = {}
  /\ UNCHANGED <<kt, pthread_create_enable, made>>

\* A task is killed, by a signal or with its thread group: no handler runs.
Kill(p) ==
  /\ p # Root /\ task[p].at \notin {"none", "exiting"}
  /\ Gone(p)
  /\ ev' = {}
  /\ UNCHANGED <<kt, child, pthread_create_enable, found, made>>

\* update_kt_ctrl_map.
SetPolicy(k) ==
  /\ k # kt /\ kt' = k
  /\ ev' = {}
  /\ UNCHANGED <<task, child, pthread_create_enable, found, made, ghost>>
-----------------------------------------------------------------------------
TaskStep(p) ==
  \/ \E c \in Pid : Fork(p, c) \/ Vfork(p, c) \/ Clone(p, c)
  \/ ForkFails(p) \/ ForkReturn(p) \/ VforkChild(p) \/ VforkReturn(p)
  \/ PthreadEnter(p) \/ CloneFails(p) \/ CloneReturn(p) \/ PthreadReturn(p)
  \/ ExecEnter(p) \/ ExecExit(p) \/ Exit(p) \/ ExitEnd(p) \/ Kill(p)

Next == (\E p \in Pid : TaskStep(p)) \/ (\E k \in Policies : SetPolicy(k))

Spec == Init /\ [][Next]_vars
-----------------------------------------------------------------------------
(* Properties. *)

Event == [type : 4..9, pid : Pid \cup {Nil}, info : Child \cup {Nil}]

TypeOK ==
  /\ kt \in Policy /\ made \in Nat
  /\ task \in [Pid -> [at : At, how : How, maker : Pid \cup {Nil}, par : Pid \cup {Nil},
                       new : Pid \cup {Nil}]]
  /\ child \in [Child -> ChildInfo \cup {Nil}]
  /\ pthread_create_enable \subseteq Pid
  /\ found \in [Pid -> BOOLEAN]
  /\ ev \subseteq Event
  /\ noted \subseteq Pid /\ reported \subseteq Pid

\* The exit of a task whose creation was recorded is reported as that of a task made
\* the way it was, under the task that made it or has inherited it, although entries
\* of killed tasks, of exits that overtook the parent's probe and of failed calls stay
\* in child and their pids are used again (keytime_image.h:27, 52, 59-61).  A task that
\* called vfork is not noted any more: vfork_exit takes it, too, for a child.
ExitNamesMaker ==
  \A e \in ev : e.type \in {5, 7, 9} /\ e.info \in noted =>
    /\ task[e.info].how # "other" /\ e.type = CreateType[task[e.info].how] + 1
    /\ e.pid \in {task[e.info].maker, task[e.info].par}

\* The entry of a task that was noted and whose exit was reported is gone with the
\* task, so that a later task with its pid is not taken for it: no late probe of the
\* parent brings it back (keytime_image.h:67, keytime_image.bpf.c:197, 287).
ReportedTaskIsForgotten ==
  \A p \in reported : task[p].at = "none" => child[p] = Nil
=============================================================================
