------------------------ MODULE ScheduleImageProofs ------------------------
(***************************************************************************)
(* Proofs about the schedule image, for every set of processes and CPUs,   *)
(* every policy and every size of the maps.                                *)
(***************************************************************************)
EXTENDS ScheduleImage, TLAPS

\* Each CPU runs one task, and no task runs on two CPUs.
OnCpu ==
  \A c \in Cpu : /\ run[cur[c]] = "running"
                 /\ \A d \in Cpu : cur[c] = cur[d] => c = d

\* Which locals a handler uses at which step.
Shape ==
  \A c \in Cpu :
    /\ h[c].rec = Nil <=> h[c].at = "none"
    /\ h[c].at \in {"none", "exit"} => h[c].nxt = Nil
    /\ h[c].at \in {"next", "load", "store"} => h[c].nxt # Nil

\* The run queue locks: no task is in two handlers, nor twice in one.
Exclusive ==
  \A c \in Cpu :
    /\ h[c].rec # Nil => h[c].rec # h[c].nxt
    /\ \A d \in Cpu \ {c} :
         /\ h[c].rec # Nil => h[c].rec # h[d].rec /\ h[c].rec # h[d].nxt
         /\ h[c].nxt # Nil => h[c].nxt # h[d].nxt

\* Nothing is stamped in the future, and the task being switched in was stamped
\* before its handler read the time.
Stamps ==
  /\ \A t \in InProc : proc_schedule[t].enter_time <= clock
  /\ \A c \in Cpu :
       /\ h[c].now <= clock
       /\ h[c].at \in {"add", "create", "next"} /\ h[c].nxt \in InProc
            => proc_schedule[h[c].nxt].enter_time < h[c].now

\* What holds of a task between two steps that create or remove its entry.
Pending ==
  \A c \in Cpu :
    /\ h[c].at \in {"add", "create", "exit"} => h[c].rec \notin InProc
    /\ h[c].at = "create" => enable_add[h[c].rec] # "true"
    /\ h[c].at \in {"add", "create"} => since[h[c].rec] \in {0, h[c].now}

\* What a CPU has loaded from the totals is no more than what was added.
Loaded ==
  \A c \in Cpu : h[c].at = "store" =>
    /\ h[c].fld = SUM_COUNT => h[c].val <= doneN
    /\ h[c].fld = SUM_DELAY => h[c].val <= doneD

\* The rows copied for a thread group have been charged; the printer's key is
\* one of the map it walks.
Rows ==
  /\ \A p \in InTg : tg_schedule[p].count # 0
  /\ pat = "lookup" => \/ pmap = "proc" /\ pkey \in Task
                       \/ pmap = "tg" /\ pkey \in Pid
  /\ pat = "walk" => pmap # "target"

IInv == /\ TypeOK /\ OnCpu /\ Shape /\ Exclusive /\ Stamps /\ Pending
        /\ Loaded /\ Rows /\ ObservedWaitIsExact /\ CountIsExact
        /\ TotalsNeverOverstate /\ DivisorSafeAfterFirstCharge /\ RowDivisorIsSafe
-----------------------------------------------------------------------------
(* What the building blocks of the handlers do to the variables they write. *)

\* A handler starts: CPU c gets fresh locals, no other CPU's are touched.
LEMMA BeginFacts ==
  ASSUME TypeOK, NEW c \in Cpu, NEW t \in Task, NEW n \in Task \cup {Nil},
         NEW step \in {"add", "create", "next"}, Begin(c, step, t, n)
  PROVE  /\ h' \in [Cpu -> Handler]
         /\ h'[c].at = step /\ h'[c].rec = t /\ h'[c].nxt = n
         /\ h'[c].now = clock + 1
         /\ \A d \in Cpu \ {c} : h'[d] = h[d]
<1>. DEFINE r == [NoHandler EXCEPT !.at = step, !.rec = t, !.nxt = n,
                                   !.now = clock + 1]
<1>1. NoHandler \in Handler
  BY DEF NoHandler, Handler, SysField, SUM_COUNT
<1>a. clock + 1 \in Nat
  BY DEF TypeOK
<1>2. /\ r \in Handler /\ r.at = step /\ r.rec = t /\ r.nxt = n
      /\ r.now = clock + 1
  BY <1>1, <1>a DEF Handler
<1>3. h' = [h EXCEPT ![c] = r]
  BY DEF Begin
<1>. QED
  BY <1>2, <1>3 DEF TypeOK

\* A handler returns: its locals are gone.
LEMMA ReturnFacts ==
  ASSUME TypeOK, NEW c \in Cpu, Return(c)
  PROVE  /\ h' \in [Cpu -> Handler]
         /\ h'[c].at = "none" /\ h'[c].rec = Nil /\ h'[c].nxt = Nil
         /\ h'[c].now = 0
         /\ \A d \in Cpu \ {c} : h'[d] = h[d]
<1>1. NoHandler \in Handler
  BY DEF NoHandler, Handler, SysField, SUM_COUNT
<1>. QED
  BY <1>1 DEF TypeOK, Return, NoHandler

\* Stamping touches nothing but the enter_time of an existing entry.
LEMMA StampFacts ==
  ASSUME TypeOK, NEW t \in Task, StampEntry(t)
  PROVE  /\ proc_schedule' \in [Task -> Event \cup {Nil}]
         /\ InProc' = InProc
         /\ \A u \in Task \ {t} : proc_schedule'[u] = proc_schedule[u]
         /\ t \in InProc => /\ proc_schedule'[t].enter_time = clock + 1
                            /\ proc_schedule'[t].count = proc_schedule[t].count
<1>1. CASE t \notin InProc
  BY <1>1 DEF StampEntry, TypeOK, InProc
<1>2. CASE t \in InProc
  <2>. DEFINE e == [proc_schedule[t] EXCEPT !.enter_time = clock + 1]
  <2>1. proc_schedule[t] \in Event
    BY <1>2 DEF InProc, TypeOK
  <2>2. /\ e \in Event /\ e.enter_time = clock + 1
        /\ e.count = proc_schedule[t].count
    BY <2>1 DEF Event, TypeOK
  <2>3. proc_schedule' = [proc_schedule EXCEPT ![t] = e]
    BY <1>2 DEF StampEntry
  <2>. QED
    BY <1>2, <2>2, <2>3, NilAssumption DEF TypeOK, InProc
<1>. QED
  BY <1>1, <1>2

\* A handler that goes on to the totals.
LEMMA LoadFacts ==
  ASSUME NEW x \in Handler, NEW d \in Nat
  PROVE  /\ [x EXCEPT !.delay = d, !.at = "load"] \in Handler
         /\ [x EXCEPT !.delay = d, !.at = "load"].at = "load"
         /\ [x EXCEPT !.delay = d, !.at = "load"].rec = x.rec
         /\ [x EXCEPT !.delay = d, !.at = "load"].nxt = x.nxt
         /\ [x EXCEPT !.delay = d, !.at = "load"].now = x.now
BY DEF Handler

\* What is in a busy task's handler, in the words of Exclusive and Pending.
LEMMA NotBusy ==
  ASSUME NEW t, ~Busy(t)
  PROVE  \A c \in Cpu : h[c].rec # t /\ h[c].nxt # t
BY DEF Busy
-----------------------------------------------------------------------------
(* Each action preserves the invariant. *)

\* sched_wakeup and sched_wakeup_new, but for the state of the scheduler.
LEMMA WakeupHandlerStep ==
  ASSUME IInv, NEW c \in Cpu, NEW t \in Proc, NEW w \in BOOLEAN,
         h[c].at = "none", ~Busy(t), WakeupHandler(c, t, w),
         UNCHANGED <<enable_add, tg_schedule, sys_schedule, print, ins, doneN, doneD>>
  PROVE  /\ clock' \in Nat /\ h' \in [Cpu -> Handler]
         /\ proc_schedule' \in [Task -> Event \cup {Nil}]
         /\ since' \in [Task -> Nat]
         /\ Shape' /\ Exclusive' /\ Stamps' /\ Pending' /\ Loaded' /\ Rows'
         /\ ObservedWaitIsExact' /\ CountIsExact' /\ TotalsNeverOverstate'
         /\ DivisorSafeAfterFirstCharge' /\ RowDivisorIsSafe'
<1>. t \in Task /\ t # Nil
  BY ConstantsAssumption DEF Task
<1>. USE DEF IInv
<1>a. clock \in Nat /\ clock' = clock + 1
  BY DEF WakeupHandler, Tick, TypeOK
<1>b. since' \in [Task -> Nat]
  BY <1>a DEF WakeupHandler, TypeOK
<1>c. \A d \in Cpu : h[d].rec # t /\ h[d].nxt # t
  BY NotBusy
<1>d. h[c].rec = Nil /\ h[c].nxt = Nil
  BY DEF Shape
<1>e. \A u \in Task \ {t} : since'[u] = since[u]
  BY DEF WakeupHandler, TypeOK
<1>f. /\ TotalsNeverOverstate' /\ DivisorSafeAfterFirstCharge' /\ RowDivisorIsSafe'
      /\ Rows'
  BY DEF TotalsNeverOverstate, DivisorSafeAfterFirstCharge, RowDivisorIsSafe, Rows,
         InTg, print
<1>1. CASE ~sched_func
  <2>1. h' = h /\ proc_schedule' = proc_schedule /\ since'[t] = 0
    BY <1>1 DEF WakeupHandler, TypeOK
  <2>2. Shape' /\ Exclusive' /\ Loaded' /\ CountIsExact'
    BY <2>1 DEF Shape, Exclusive, Loaded, CountIsExact, InProc
  <2>3. Stamps'
    BY <1>a, <2>1 DEF Stamps, InProc, TypeOK, Event, Handler
  <2>4. Pending' /\ ObservedWaitIsExact'
    BY <1>c, <1>e, <2>1 DEF Pending, ObservedWaitIsExact, InProc, Shape, TypeOK, Handler
  <2>. QED
    BY <1>a, <1>b, <1>f, <2>1, <2>2, <2>3, <2>4 DEF TypeOK
<1>2. CASE sched_func /\ t \in InProc
  <2>1. h' = h /\ StampEntry(t) /\ since'[t] \in {0, clock + 1}
    BY <1>2 DEF WakeupHandler, TypeOK
  <2>2. /\ proc_schedule' \in [Task -> Event \cup {Nil}]
        /\ InProc' = InProc
        /\ \A u \in Task \ {t} : proc_schedule'[u] = proc_schedule[u]
        /\ proc_schedule'[t].enter_time = clock + 1
        /\ proc_schedule'[t].count = proc_schedule[t].count
    BY <1>2, <2>1, StampFacts
  <2>3. Shape' /\ Exclusive' /\ Loaded'
    BY <2>1 DEF Shape, Exclusive, Loaded
  <2>4. CountIsExact'
    BY <2>2 DEF CountIsExact, InProc
  <2>5. Stamps'
    <3>1. \A u \in InProc : proc_schedule'[u].enter_time <= clock + 1
      BY <1>a, <2>2 DEF Stamps, InProc, TypeOK, Event
    <3>2. \A x \in Cpu : h'[x].now <= clock'
      BY <1>a, <2>1 DEF Stamps, TypeOK, Handler
    <3>3. \A x \in Cpu : h'[x].nxt \in InProc' =>
            proc_schedule'[h'[x].nxt].enter_time = proc_schedule[h[x].nxt].enter_time
      BY <1>c, <2>1, <2>2 DEF InProc
    <3>. QED
      BY <1>a, <2>1, <2>2, <3>1, <3>2, <3>3 DEF Stamps
  <2>6. Pending'
    BY <1>c, <1>e, <2>1, <2>2 DEF Pending, Shape, TypeOK, Handler
  <2>7. ObservedWaitIsExact'
    BY <1>2, <1>e, <2>1, <2>2 DEF ObservedWaitIsExact, InProc
  <2>. QED
    BY <1>a, <1>b, <1>f, <2>1, <2>2, <2>3, <2>4, <2>5, <2>6, <2>7 DEF TypeOK
<1>3. CASE sched_func /\ t \notin InProc
  <2>1. /\ Begin(c, "add", t, Nil) /\ proc_schedule' = proc_schedule
        /\ since'[t] \in {0, clock + 1}
    BY <1>3 DEF WakeupHandler, StampEntry, TypeOK
  <2>2. /\ h' \in [Cpu -> Handler]
        /\ h'[c].at = "add" /\ h'[c].rec = t /\ h'[c].nxt = Nil
        /\ h'[c].now = clock + 1
        /\ \A d \in Cpu \ {c} : h'[d] = h[d]
    BY <2>1, BeginFacts
  <2>3. Shape' /\ Exclusive' /\ Loaded'
    BY <1>c, <1>d, <2>2 DEF Shape, Exclusive, Loaded
  <2>4. CountIsExact'
    BY <2>1 DEF CountIsExact, InProc
  <2>5. Stamps'
    BY <1>a, <2>1, <2>2, ConstantsAssumption, SMTT(60)
       DEF Stamps, InProc, TypeOK, Event, Handler
  <2>6. Pending'
    BY <1>3, <1>c, <1>e, <2>1, <2>2 DEF Pending, InProc, Shape, TypeOK, Handler
  <2>7. ObservedWaitIsExact'
    BY <1>3, <1>e, <2>1 DEF ObservedWaitIsExact, InProc
  <2>. QED
    BY <1>a, <1>b, <1>f, <2>1, <2>2, <2>3, <2>4, <2>5, <2>6, <2>7 DEF TypeOK
<1>. QED
  BY <1>1, <1>2, <1>3

LEMMA WakeupStep ==
  ASSUME IInv, NEW c \in Cpu, NEW t \in Proc, Wakeup(c, t)
  PROVE  IInv'
<1>1. PICK w \in BOOLEAN : WakeupHandler(c, t, w)
  BY DEF Wakeup
<1>2. /\ clock' \in Nat /\ h' \in [Cpu -> Handler]
      /\ proc_schedule' \in [Task -> Event \cup {Nil}]
      /\ since' \in [Task -> Nat]
      /\ Shape' /\ Exclusive' /\ Stamps' /\ Pending' /\ Loaded' /\ Rows'
      /\ ObservedWaitIsExact' /\ CountIsExact' /\ TotalsNeverOverstate'
      /\ DivisorSafeAfterFirstCharge' /\ RowDivisorIsSafe'
  BY <1>1, WakeupHandlerStep DEF Wakeup
<1>3. OnCpu'
  BY DEF IInv, TypeOK, OnCpu, Wakeup, Task
<1>4. TypeOK'
  BY <1>2 DEF IInv, TypeOK, Wakeup, Task, ctrl, print
<1>. QED
  BY <1>2, <1>3, <1>4 DEF IInv

LEMMA WakeupNewStep ==
  ASSUME IInv, NEW c \in Cpu, NEW t \in Proc, WakeupNew(c, t)
  PROVE  IInv'
<1>1. WakeupHandler(c, t, TRUE)
  BY DEF WakeupNew
<1>2. /\ clock' \in Nat /\ h' \in [Cpu -> Handler]
      /\ proc_schedule' \in [Task -> Event \cup {Nil}]
      /\ since' \in [Task -> Nat]
      /\ Shape' /\ Exclusive' /\ Stamps' /\ Pending' /\ Loaded' /\ Rows'
      /\ ObservedWaitIsExact' /\ CountIsExact' /\ TotalsNeverOverstate'
      /\ DivisorSafeAfterFirstCharge' /\ RowDivisorIsSafe'
  BY <1>1, WakeupHandlerStep DEF WakeupNew
<1>3. OnCpu'
  BY DEF IInv, TypeOK, OnCpu, WakeupNew, Task
<1>4. TypeOK'
  BY <1>2 DEF IInv, TypeOK, WakeupNew, Task, ctrl, print
<1>. QED
  BY <1>2, <1>3, <1>4 DEF IInv

LEMMA AddStep ==
  ASSUME IInv, NEW c \in Cpu, Add(c)
  PROVE  IInv'
<1>. USE DEF IInv
<1>1. h[c].rec \in Task /\ h[c].rec \notin InProc
  BY DEF Add, Shape, Pending, TypeOK, Handler
<1>2. /\ h' \in [Cpu -> Handler]
      /\ h'[c] = [h[c] EXCEPT !.at = "create"]
      /\ \A d \in Cpu \ {c} : h'[d] = h[d]
  BY SMTT(30) DEF Add, TypeOK, Handler
<1>3. /\ h'[c].at = "create" /\ h'[c].rec = h[c].rec /\ h'[c].nxt = h[c].nxt
      /\ h'[c].now = h[c].now
  BY <1>2 DEF TypeOK, Handler
<1>4. /\ enable_add' \in [Task -> {"absent", "false", "true"}]
      /\ \A u \in Task \ {h[c].rec} : enable_add'[u] = enable_add[u]
      /\ enable_add'[h[c].rec] # "true"
  <2>1. CASE Room(InAdd, h[c].rec, MaxEntries)
    BY <1>1, <2>1 DEF Add, TypeOK
  <2>2. CASE ~Room(InAdd, h[c].rec, MaxEntries)
    <3>1. h[c].rec \notin InAdd
      BY <2>2 DEF Room
    <3>. QED
      BY <1>1, <2>2, <3>1 DEF Add, TypeOK, InAdd
  <2>. QED
    BY <2>1, <2>2
<1>5. TypeOK'
  BY <1>2, <1>4 DEF TypeOK, Add, sched, ctrl, print, ghost
<1>6. OnCpu' /\ ObservedWaitIsExact' /\ TotalsNeverOverstate'
      /\ DivisorSafeAfterFirstCharge' /\ RowDivisorIsSafe'
  BY DEF Add, OnCpu, ObservedWaitIsExact, TotalsNeverOverstate,
         DivisorSafeAfterFirstCharge, RowDivisorIsSafe, sched, print, ghost
<1>7. Rows'
  BY DEF Add, Rows, InTg, print
<1>8. Shape' /\ Exclusive' /\ Loaded'
  BY <1>2, <1>3 DEF Add, Shape, Exclusive, Loaded, ghost
<1>9. Stamps'
  BY <1>2, <1>3 DEF Add, Stamps, InProc
<1>10. Pending'
  BY <1>1, <1>2, <1>3, <1>4 DEF Add, Pending, Shape, InProc, TypeOK, Handler, ghost
<1>11. CountIsExact'
  BY <1>1, <1>4 DEF Add, CountIsExact, InProc, ghost
<1>. QED
  BY <1>5, <1>6, <1>7, <1>8, <1>9, <1>10, <1>11

LEMMA CreateStep ==
  ASSUME IInv, NEW c \in Cpu, Create(c)
  PROVE  IInv'
<1>. USE DEF IInv
<1>. DEFINE t == h[c].rec
<1>1. /\ t \in Task /\ t \notin InProc /\ enable_add[t] # "true"
      /\ since[t] \in {0, h[c].now}
  BY DEF Create, Shape, Pending, TypeOK, Handler
<1>2. /\ h' \in [Cpu -> Handler]
      /\ \A d \in Cpu \ {c} : h'[d] = h[d]
      /\ \/ h'[c].at = "none" /\ h'[c].rec = Nil /\ h'[c].nxt = Nil /\ h'[c].now = 0
         \/ /\ h'[c].at = "next" /\ h'[c].rec = t /\ h'[c].nxt = h[c].nxt
            /\ h[c].nxt # Nil /\ h'[c].now = h[c].now
  <2>1. CASE h[c].nxt = Nil
    BY <2>1, ReturnFacts DEF Create
  <2>2. CASE h[c].nxt # Nil
    BY <2>2, SMTT(30) DEF Create, TypeOK, Handler
  <2>. QED
    BY <2>1, <2>2
<1>3. /\ NewEvent(h[c].now) \in Event
      /\ NewEvent(h[c].now).enter_time = h[c].now
      /\ NewEvent(h[c].now).count = 1
  <2>1. ZeroEvent \in Event
    BY DEF ZeroEvent, Event
  <2>2. h[c].now \in Nat
    BY DEF TypeOK, Handler
  <2>. QED
    BY <2>1, <2>2 DEF NewEvent, Event
<1>4. /\ proc_schedule' \in [Task -> Event \cup {Nil}]
      /\ ins' \in [Task -> Nat]
      /\ \A u \in Task \ {t} : proc_schedule'[u] = proc_schedule[u] /\ ins'[u] = ins[u]
      /\ t \in InProc' => /\ proc_schedule'[t].enter_time = h[c].now
                          /\ proc_schedule'[t].count = 1
                          /\ ins'[t] = 0
  <2>1. CASE Room(InProc, t, MaxEntries)
    BY <1>1, <1>3, <2>1 DEF Create, TypeOK
  <2>2. CASE ~Room(InProc, t, MaxEntries)
    BY <1>1, <2>2 DEF Create, TypeOK, InProc
  <2>. QED
    BY <2>1, <2>2
<1>5. TypeOK'
  BY <1>2, <1>4 DEF TypeOK, Create, sched, ctrl, print
<1>6. OnCpu' /\ TotalsNeverOverstate' /\ DivisorSafeAfterFirstCharge'
      /\ RowDivisorIsSafe'
  BY DEF Create, OnCpu, TotalsNeverOverstate, DivisorSafeAfterFirstCharge,
         RowDivisorIsSafe, sched, print
<1>7. Rows'
  BY DEF Create, Rows, InTg, print
<1>8. Shape' /\ Exclusive' /\ Loaded'
  BY <1>1, <1>2 DEF Create, Shape, Exclusive, Loaded
<1>9. Stamps'
  <2>1. /\ clock' = clock /\ clock \in Nat
        /\ \A d \in Cpu : h[d].now \in Nat /\ h[d].now <= clock
    BY DEF Create, Stamps, TypeOK, Handler
  <2>2. \A u \in InProc' : proc_schedule'[u].enter_time <= clock
    BY <1>4, <2>1 DEF Stamps, InProc
  <2>3. \A d \in Cpu : h'[d].now <= clock
    BY <1>2, <2>1
  <2>4. ASSUME NEW d \in Cpu, h'[d].at \in {"add", "create", "next"},
               h'[d].nxt \in InProc'
        PROVE  proc_schedule'[h'[d].nxt].enter_time < h'[d].now
    <3>1. /\ h[d].at \in {"add", "create", "next"}
          /\ h'[d].nxt = h[d].nxt /\ h'[d].now = h[d].now
      BY <1>2, <2>4, ConstantsAssumption DEF Create, InProc
    <3>2. h[d].nxt # t
      BY <1>1, <2>4, <3>1, ConstantsAssumption DEF Exclusive, Shape, InProc
    <3>. QED
      BY <1>4, <2>4, <3>1, <3>2 DEF Stamps, InProc
  <2>. QED
    BY <2>1, <2>2, <2>3, <2>4 DEF Stamps
<1>10. Pending'
  <2>1. \A d \in Cpu \ {c} : h[d].rec # t
    BY <1>1, ConstantsAssumption DEF Exclusive
  <2>. QED
    BY <1>1, <1>2, <1>4, <2>1 DEF Create, Pending, Shape, InProc, TypeOK, Handler
<1>11. ObservedWaitIsExact'
  BY <1>1, <1>4 DEF Create, ObservedWaitIsExact, InProc
<1>12. CountIsExact'
  BY <1>1, <1>4 DEF Create, CountIsExact, InProc
<1>. QED
  BY <1>5, <1>6, <1>7, <1>8, <1>9, <1>10, <1>11, <1>12

LEMMA SwitchStep ==
  ASSUME IInv, NEW c \in Cpu, NEW n \in Task,
         NEW how \in {"running", "sleep", "preempted", "dead"}, Switch(c, n, how)
  PROVE  IInv'
<1>. USE DEF IInv
<1>. DEFINE prev == cur[c]
<1>a. /\ clock \in Nat /\ clock' = clock + 1
      /\ prev \in Task /\ prev # Nil /\ n # Nil
  BY ConstantsAssumption DEF Switch, Tick, TypeOK
<1>b. run[prev] = "running" /\ run[n] # "running" /\ prev # n
  BY DEF OnCpu, Switch
<1>c. \A d \in Cpu : h[d].rec \notin {prev, n} /\ h[d].nxt \notin {prev, n}
  BY NotBusy DEF Switch
<1>d. h[c].rec = Nil /\ h[c].nxt = Nil
  BY DEF Shape, Switch
<1>e. /\ since' \in [Task -> Nat]
      /\ \A u \in Task \ {prev, n} : since'[u] = since[u]
  BY <1>a DEF Switch, TypeOK
<1>1. OnCpu'
  <2>1. \A d \in Cpu : cur[d] # n
    BY <1>b DEF OnCpu
  <2>2. \A d \in Cpu \ {c} : cur[d] # prev
    BY DEF OnCpu
  <2>3. cur' = [cur EXCEPT ![c] = n] /\ run'[n] = "running"
    BY <1>a DEF Switch, TypeOK
  <2>4. \A u \in Task \ {prev, n} : run'[u] = run[u]
    BY DEF Switch, TypeOK
  <2>. QED
    BY <2>1, <2>2, <2>3, <2>4 DEF OnCpu, TypeOK
<1>2. run' \in [Task -> {"new", "blocked", "ready", "parked", "running", "dead"}]
  <2>1. Fate[how] \in {"ready", "blocked", "parked", "dead"}
    BY DEF Fate
  <2>. QED
    BY <2>1 DEF Switch, TypeOK
<1>3. cur' \in [Cpu -> Task]
  BY DEF Switch, TypeOK
<1>4. /\ Rows' /\ TotalsNeverOverstate' /\ DivisorSafeAfterFirstCharge'
      /\ RowDivisorIsSafe'
  BY DEF Switch, Rows, InTg, TotalsNeverOverstate, DivisorSafeAfterFirstCharge,
         RowDivisorIsSafe, print
<1>5. /\ h' \in [Cpu -> Handler]
      /\ \A d \in Cpu \ {c} : h'[d] = h[d]
      /\ \/ ~sched_func /\ h'[c] = h[c]
         \/ /\ sched_func
            /\ h'[c].rec = prev /\ h'[c].nxt = n /\ h'[c].now = clock + 1
            /\ \/ h'[c].at = "next"
               \/ h'[c].at = "add" /\ prev \notin InProc /\ since'[prev] = clock + 1
  <2>1. CASE ~sched_func
    BY <2>1 DEF Switch, TypeOK
  <2>2. CASE sched_func /\ how = "running"
    <3>1. since'[prev] = clock + 1
      BY <1>a, <2>2 DEF Switch, TypeOK
    <3>2. Begin(c, IF prev \in InProc THEN "next" ELSE "add", prev, n)
      BY <2>2 DEF Switch
    <3>3. CASE prev \in InProc
      BY <1>a, <2>2, <3>2, <3>3, BeginFacts
    <3>4. CASE prev \notin InProc
      BY <1>a, <2>2, <3>1, <3>2, <3>4, BeginFacts
    <3>. QED
      BY <3>3, <3>4
  <2>3. CASE sched_func /\ how # "running"
    <3>1. Begin(c, "next", prev, n)
      BY <2>3 DEF Switch
    <3>. QED
      BY <1>a, <2>3, <3>1, BeginFacts
  <2>. QED
    BY <2>1, <2>2, <2>3
<1>6. /\ proc_schedule' \in [Task -> Event \cup {Nil}]
      /\ InProc' = InProc
      /\ \A u \in Task \ {prev} : proc_schedule'[u] = proc_schedule[u]
      /\ prev \in InProc =>
           /\ proc_schedule'[prev].enter_time \in
                {proc_schedule[prev].enter_time, clock + 1}
           /\ proc_schedule'[prev].count = proc_schedule[prev].count
           /\ since'[prev] # 0 => proc_schedule'[prev].enter_time = since'[prev]
  <2>1. CASE sched_func /\ how = "running"
    <3>1. StampEntry(prev) /\ since'[prev] = clock + 1
      BY <1>a, <2>1 DEF Switch, TypeOK
    <3>. QED
      BY <1>a, <3>1, StampFacts
  <2>2. CASE ~(sched_func /\ how = "running")
    <3>1. proc_schedule' = proc_schedule /\ since'[prev] = 0
      BY <1>a, <1>b, <2>2 DEF Switch, TypeOK
    <3>. QED
      BY <3>1 DEF TypeOK, InProc
  <2>. QED
    BY <2>1, <2>2
<1>7. since'[n] \in {0, since[n]}
  BY <1>a, <1>b DEF Switch, TypeOK
<1>8. TypeOK'
  BY <1>a, <1>e, <1>2, <1>3, <1>5, <1>6 DEF TypeOK, Switch, ctrl, print
<1>9. Shape'
  BY <1>a, <1>5 DEF Shape
<1>10. Exclusive'
  <2>1. CASE h'[c] = h[c]
    BY <1>5, <2>1 DEF Exclusive
  <2>2. CASE h'[c].rec = prev /\ h'[c].nxt = n
    BY <1>b, <1>c, <1>5, <2>2 DEF Exclusive
  <2>. QED
    BY <1>5, <2>1, <2>2
<1>11. Loaded'
  BY <1>5 DEF Loaded, Switch
<1>12. Stamps'
  <2>1. \A u \in InProc : proc_schedule[u].enter_time \in Nat
                          /\ proc_schedule[u].enter_time <= clock
    BY DEF Stamps, InProc, TypeOK, Event
  <2>2. \A u \in InProc' : proc_schedule'[u].enter_time <= clock'
    BY <1>a, <1>6, <2>1 DEF InProc
  <2>3. \A d \in Cpu : h[d].now \in Nat /\ h[d].now <= clock
    BY DEF Stamps, TypeOK, Handler
  <2>4. \A d \in Cpu : h'[d].now <= clock'
    BY <1>a, <1>5, <2>3
  <2>5. ASSUME NEW d \in Cpu, h'[d].at \in {"add", "create", "next"},
               h'[d].nxt \in InProc'
        PROVE  proc_schedule'[h'[d].nxt].enter_time < h'[d].now
    <3>1. CASE h'[d] = h[d]
      <4>1. h[d].nxt # prev
        BY <1>c
      <4>. QED
        BY <1>6, <2>5, <3>1, <4>1 DEF Stamps, InProc
    <3>2. CASE d = c /\ h'[c].nxt = n /\ h'[c].now = clock + 1
      BY <1>a, <1>b, <1>6, <2>1, <2>5, <3>2
    <3>. QED
      BY <1>5, <3>1, <3>2
  <2>. QED
    BY <2>2, <2>4, <2>5 DEF Stamps
<1>13. Pending'
  <2>1. ASSUME NEW d \in Cpu, h'[d] = h[d]
        PROVE  /\ h'[d].at \in {"add", "create", "exit"} => h'[d].rec \notin InProc'
               /\ h'[d].at = "create" => enable_add'[h'[d].rec] # "true"
               /\ h'[d].at \in {"add", "create"} => since'[h'[d].rec] \in {0, h'[d].now}
    <3>1. h[d].at # "none" => h[d].rec \in Task \ {prev, n}
      BY <1>c DEF Shape, TypeOK, Handler
    <3>. QED
      BY <1>e, <1>6, <2>1, <3>1 DEF Pending, Switch
  <2>2. CASE h'[c] # h[c]
    BY <1>5, <1>6, <2>1, <2>2 DEF Pending
  <2>. QED
    BY <1>5, <2>1, <2>2 DEF Pending
<1>14. ObservedWaitIsExact'
  BY <1>b, <1>e, <1>6, <1>7 DEF ObservedWaitIsExact, InProc
<1>15. CountIsExact'
  BY <1>6 DEF CountIsExact, InProc, Switch
<1>. QED
  BY <1>1, <1>4, <1>8, <1>9, <1>10, <1>11, <1>12, <1>13, <1>14, <1>15

LEMMA SwitchInStep ==
  ASSUME IInv, NEW c \in Cpu, SwitchIn(c)
  PROVE  IInv'
<1>. USE DEF IInv
<1>. DEFINE n == h[c].nxt
            d == Waited(proc_schedule[n], h[c].now)
            e == Charge(proc_schedule[n], enable_add[n] = "true", d)
<1>a. /\ n \in Task /\ h[c].at = "next"
      /\ since' = [since EXCEPT ![n] = 0]
  BY DEF SwitchIn, Shape, TypeOK, Handler
<1>b. /\ since' \in [Task -> Nat] /\ since'[n] = 0
      /\ \A u \in Task \ {n} : since'[u] = since[u]
  BY <1>a DEF TypeOK
<1>c. OnCpu' /\ TotalsNeverOverstate' /\ DivisorSafeAfterFirstCharge'
      /\ RowDivisorIsSafe'
  BY DEF SwitchIn, OnCpu, TotalsNeverOverstate, DivisorSafeAfterFirstCharge,
         RowDivisorIsSafe, sched, print
<1>1. CASE n \notin InProc \/ n \notin InAdd
  <2>1. UNCHANGED <<maps, ins>> /\ Return(c)
    BY <1>1 DEF SwitchIn
  <2>2. /\ h' \in [Cpu -> Handler]
        /\ h'[c].at = "none" /\ h'[c].rec = Nil /\ h'[c].nxt = Nil
        /\ h'[c].now = 0
        /\ \A x \in Cpu \ {c} : h'[x] = h[x]
    BY <2>1, ReturnFacts
  <2>3. TypeOK'
    BY <1>b, <2>1, <2>2 DEF SwitchIn, TypeOK, sched, ctrl, maps, print
  <2>4. Shape' /\ Exclusive' /\ Loaded'
    BY <2>2 DEF SwitchIn, Shape, Exclusive, Loaded
  <2>5. Rows' /\ CountIsExact'
    BY <2>1 DEF SwitchIn, Rows, InTg, CountIsExact, InProc, maps, print
  <2>6. Stamps'
    BY <2>1, <2>2, ConstantsAssumption DEF SwitchIn, Stamps, InProc, maps, TypeOK
  <2>7. ObservedWaitIsExact'
    BY <1>b, <2>1 DEF ObservedWaitIsExact, maps
  <2>8. Pending'
    <3>1. /\ InProc' = InProc /\ enable_add' = enable_add
      BY <2>1 DEF InProc, maps
    <3>2. \A x \in Cpu \ {c} : h[x].at \in {"add", "create"} => h[x].rec \in Task
      BY DEF Shape, TypeOK, Handler
    <3>3. \A x \in Cpu \ {c} : h[x].at \in {"add", "create"} =>
             since'[h[x].rec] \in {0, h[x].now}
      BY <1>b, <3>2 DEF Pending
    <3>. QED
      BY <2>2, <3>1, <3>3 DEF Pending
  <2>. QED
    BY <1>c, <2>3, <2>4, <2>5, <2>6, <2>7, <2>8
<1>2. CASE n \in InProc /\ n \in InAdd
  <2>1. /\ proc_schedule[n] \in Event /\ proc_schedule[n] # Nil
        /\ proc_schedule[n].enter_time \in Nat /\ h[c].now \in Nat
        /\ proc_schedule[n].enter_time < h[c].now
        /\ proc_schedule[n].count = (IF ins[n] = 0 THEN 1 ELSE ins[n])
        /\ ins[n] \in Nat
        /\ ins[n] > 0 <=> enable_add[n] = "true"
    BY <1>a, <1>2 DEF InProc, TypeOK, Event, Handler, Stamps, CountIsExact
  <2>2. d \in Nat
    BY <2>1 DEF Waited
  <2>3. /\ e \in Event
        /\ e.enter_time = proc_schedule[n].enter_time
        /\ e.count = IF enable_add[n] = "true" THEN proc_schedule[n].count + 1
                                               ELSE proc_schedule[n].count
    <3>. DEFINE x == proc_schedule[n]
                k == IF enable_add[n] = "true" THEN x.count + 1 ELSE x.count
                s == x.sum_delay + d
                m == IF d > x.max_delay THEN d ELSE x.max_delay
                l == IF x.min_delay = 0 \/ d < x.min_delay THEN d ELSE x.min_delay
    <3>1. k \in Nat /\ s \in Nat /\ m \in Nat /\ l \in Nat
      <4>. HIDE DEF d, e
      <4>. QED
        BY <2>1, <2>2 DEF Event
    <3>2. e = [x EXCEPT !.count = k, !.sum_delay = s, !.max_delay = m, !.min_delay = l]
      BY DEF Charge
    <3>. HIDE DEF e, d, k, s, m, l
    <3>3. e \in Event /\ e.enter_time = x.enter_time /\ e.count = k
      BY <2>1, <3>1, <3>2 DEF Event
    <3>. QED
      BY <3>3 DEF k
  <2>4. e.count = ins[n] + 1 /\ e # Nil
    BY <2>1, <2>3, NilAssumption
  <2>5. /\ enable_add' = [enable_add EXCEPT ![n] = "true"]
        /\ proc_schedule' = [proc_schedule EXCEPT ![n] = e]
        /\ target_schedule' = (IF policy.target = n THEN e ELSE target_schedule)
        /\ tg_schedule' =
             (IF policy.target_tgid = Tgid[n] /\ Room(InTg, PidOf(n), TgEntries)
              THEN [tg_schedule EXCEPT ![PidOf(n)] = e] ELSE tg_schedule)
        /\ ins' = [ins EXCEPT ![n] = @ + 1]
        /\ h' = [h EXCEPT ![c].delay = d, ![c].at = "load"]
    BY <1>2 DEF SwitchIn
  <2>. HIDE DEF e, d
  <2>6. /\ proc_schedule' \in [Task -> Event \cup {Nil}] /\ InProc' = InProc
        /\ proc_schedule'[n].enter_time = proc_schedule[n].enter_time
        /\ proc_schedule'[n].count = ins[n] + 1
        /\ \A u \in Task \ {n} : proc_schedule'[u] = proc_schedule[u]
    BY <1>a, <1>2, <2>3, <2>4, <2>5 DEF TypeOK, InProc
  <2>7. /\ ins' \in [Task -> Nat] /\ ins'[n] = ins[n] + 1
        /\ enable_add' \in [Task -> {"absent", "false", "true"}]
        /\ enable_add'[n] = "true"
        /\ \A u \in Task \ {n} : ins'[u] = ins[u] /\ enable_add'[u] = enable_add[u]
    BY <1>a, <2>5 DEF TypeOK
  <2>8. /\ h' \in [Cpu -> Handler]
        /\ h'[c].at = "load" /\ h'[c].rec = h[c].rec /\ h'[c].nxt = n
        /\ h'[c].now = h[c].now
        /\ \A x \in Cpu \ {c} : h'[x] = h[x]
    <3>. DEFINE hc == [h[c] EXCEPT !.delay = d, !.at = "load"]
    <3>1. hc \in Handler /\ hc.at = "load" /\ hc.rec = h[c].rec /\ hc.nxt = n
          /\ hc.now = h[c].now
      <4>1. h[c] \in Handler
        BY DEF TypeOK
      <4>. QED
        BY <2>2, <4>1, LoadFacts
    <3>2. h' = [h EXCEPT ![c] = hc]
      BY <2>5
    <3>. HIDE DEF hc
    <3>. QED
      BY <3>1, <3>2 DEF TypeOK
  <2>9. /\ target_schedule' \in Event
        /\ tg_schedule' \in [Pid -> Event \cup {Nil}]
        /\ \A p \in InTg' : tg_schedule'[p].count # 0
    <3>1. PidOf(n) \in Pid
      BY <1>a DEF PidOf, Pid, Task
    <3>2. e.count # 0
      BY <2>1, <2>4
    <3>. QED
      BY <2>3, <2>5, <3>1, <3>2 DEF TypeOK, Rows, InTg
  <2>10. TypeOK'
    BY <1>b, <2>6, <2>7, <2>8, <2>9 DEF SwitchIn, TypeOK, sched, ctrl, print
  <2>11. Shape' /\ Exclusive' /\ Loaded'
    BY <1>a, <2>8 DEF SwitchIn, Shape, Exclusive, Loaded
  <2>12. Rows'
    BY <2>9 DEF SwitchIn, Rows, print
  <2>13. CountIsExact'
    BY <1>a, <2>1, <2>6, <2>7 DEF CountIsExact, InProc
  <2>14. Stamps'
    <3>1. \A u \in InProc : proc_schedule'[u].enter_time = proc_schedule[u].enter_time
      BY <2>6 DEF InProc
    <3>. QED
      BY <1>a, <2>6, <2>8, <3>1 DEF SwitchIn, Stamps
  <2>15. Pending'
    <3>1. \A x \in Cpu : h[x].at \in {"add", "create"} => h[x].rec \in Task \ {n}
      BY <1>2 DEF Pending, Shape, TypeOK, Handler
    <3>. QED
      BY <1>b, <2>6, <2>7, <2>8, <3>1 DEF Pending
  <2>16. ObservedWaitIsExact'
    BY <1>b, <2>6 DEF ObservedWaitIsExact
  <2>. QED
    BY <1>c, <2>10, <2>11, <2>12, <2>13, <2>14, <2>15, <2>16
<1>. QED
  BY <1>1, <1>2

LEMMA SysLoadStep ==
  ASSUME IInv, NEW c \in Cpu, SysLoad(c)
  PROVE  IInv'
<1>. USE DEF IInv
<1>1. /\ h' \in [Cpu -> Handler]
      /\ h'[c].at = "store" /\ h'[c].rec = h[c].rec /\ h'[c].nxt = h[c].nxt
      /\ h'[c].now = h[c].now /\ h'[c].fld = h[c].fld
      /\ h'[c].val = sys_schedule[h[c].fld]
      /\ \A d \in Cpu \ {c} : h'[d] = h[d]
  BY DEF SysLoad, TypeOK, Handler
<1>2. TypeOK'
  BY <1>1 DEF SysLoad, TypeOK, sched, ctrl, maps, print, ghost
<1>3. /\ OnCpu' /\ Rows' /\ ObservedWaitIsExact' /\ CountIsExact'
      /\ TotalsNeverOverstate' /\ DivisorSafeAfterFirstCharge' /\ RowDivisorIsSafe'
  BY DEF SysLoad, OnCpu, Rows, InTg, ObservedWaitIsExact, CountIsExact, InProc,
         TotalsNeverOverstate, DivisorSafeAfterFirstCharge, RowDivisorIsSafe,
         sched, maps, print, ghost
<1>4. Shape' /\ Exclusive'
  <2>1. h[c].at = "load" /\ h[c].rec # Nil /\ h[c].nxt # Nil
    BY DEF SysLoad, Shape
  <2>. QED
    BY <1>1, <2>1 DEF Shape, Exclusive
<1>5. Stamps' /\ Pending'
  BY <1>1 DEF SysLoad, Stamps, Pending, InProc, maps, ghost
<1>6. Loaded'
  BY <1>1 DEF SysLoad, Loaded, TotalsNeverOverstate, ghost
<1>. QED
  BY <1>2, <1>3, <1>4, <1>5, <1>6

LEMMA SysStoreStep ==
  ASSUME IInv, NEW c \in Cpu, SysStore(c)
  PROVE  IInv'
<1>. USE DEF IInv
<1>. DEFINE f == h[c].fld
            v == h[c].val
            d == h[c].delay
<1>a. /\ f \in SysField /\ v \in Nat /\ d \in Nat /\ h[c].at = "store"
      /\ doneN \in Nat /\ doneD \in Nat /\ sys_schedule \in [SysField -> Nat]
  BY DEF SysStore, TypeOK, Handler
<1>b. /\ f = SUM_COUNT => v <= doneN
      /\ f = SUM_DELAY => v <= doneD
  BY <1>a DEF Loaded
<1>c. Stored(f, v, d) \in Nat
  BY <1>a DEF Stored
<1>d. /\ sys_schedule' = (IF Writes(f, v, d)
                          THEN [sys_schedule EXCEPT ![f] = Stored(f, v, d)]
                          ELSE sys_schedule)
      /\ doneN' = (IF f = SUM_COUNT THEN doneN + 1 ELSE doneN)
      /\ doneD' = (IF f = SUM_DELAY THEN doneD + d ELSE doneD)
  BY DEF SysStore
<1>1. /\ h' \in [Cpu -> Handler]
      /\ \A x \in Cpu \ {c} : h'[x] = h[x]
      /\ \/ h'[c].at = "none" /\ h'[c].rec = Nil /\ h'[c].nxt = Nil /\ h'[c].now = 0
         \/ /\ h'[c].at = "load" /\ h'[c].rec = h[c].rec /\ h'[c].nxt = h[c].nxt
            /\ h'[c].now = h[c].now
  <2>1. CASE f = MIN_DELAY
    BY <2>1, ReturnFacts DEF SysStore
  <2>2. CASE f # MIN_DELAY
    <3>1. f + 1 \in SysField
      BY <1>a, <2>2 DEF SysField, MIN_DELAY
    <3>2. h' = [h EXCEPT ![c].fld = f + 1, ![c].at = "load"]
      BY <2>2 DEF SysStore
    <3>. DEFINE r == [h[c] EXCEPT !.fld = f + 1, !.at = "load"]
    <3>3. /\ r \in Handler /\ r.at = "load" /\ r.rec = h[c].rec
          /\ r.nxt = h[c].nxt /\ r.now = h[c].now
      <4>1. h[c] \in Handler
        BY DEF TypeOK
      <4>. QED
        BY <3>1, <4>1 DEF Handler
    <3>4. h' = [h EXCEPT ![c] = r]
      BY <3>2
    <3>. QED
      BY <3>3, <3>4 DEF TypeOK
  <2>. QED
    BY <2>1, <2>2
<1>2. sys_schedule' \in [SysField -> Nat] /\ doneN' \in Nat /\ doneD' \in Nat
  BY <1>a, <1>c, <1>d
<1>3. TotalsNeverOverstate' /\ DivisorSafeAfterFirstCharge'
  <2>1. CASE f = SUM_COUNT
    <3>1. sys_schedule' = [sys_schedule EXCEPT ![SUM_COUNT] = v + 1]
      <4>1. Writes(SUM_COUNT, v, d) /\ Stored(SUM_COUNT, v, d) = v + 1
        BY DEF Writes, Stored, SUM_COUNT, SUM_DELAY, MAX_DELAY, MIN_DELAY
      <4>. QED
        BY <1>d, <2>1, <4>1
    <3>. QED
      BY <1>a, <1>b, <1>d, <2>1, <3>1
         DEF TotalsNeverOverstate, DivisorSafeAfterFirstCharge, SysField, SUM_COUNT,
             SUM_DELAY
  <2>2. CASE f = SUM_DELAY
    <3>1. sys_schedule' = [sys_schedule EXCEPT ![SUM_DELAY] = v + d]
      <4>1. Writes(SUM_DELAY, v, d) /\ Stored(SUM_DELAY, v, d) = v + d
        BY DEF Writes, Stored, SUM_COUNT, SUM_DELAY, MAX_DELAY, MIN_DELAY
      <4>. QED
        BY <1>d, <2>2, <4>1
    <3>. QED
      BY <1>a, <1>b, <1>d, <2>2, <3>1
         DEF TotalsNeverOverstate, DivisorSafeAfterFirstCharge, SysField, SUM_COUNT,
             SUM_DELAY
  <2>3. CASE f \notin {SUM_COUNT, SUM_DELAY}
    BY <1>a, <1>d, <2>3
       DEF TotalsNeverOverstate, DivisorSafeAfterFirstCharge, SysField, SUM_COUNT,
           SUM_DELAY
  <2>. QED
    BY <2>1, <2>2, <2>3
<1>4. Loaded'
  <2>1. doneN <= doneN' /\ doneD <= doneD'
    BY <1>a, <1>d
  <2>2. \A x \in Cpu : h[x].val \in Nat
    BY DEF TypeOK, Handler
  <2>. QED
    BY <1>1, <1>2, <1>a, <2>1, <2>2 DEF Loaded
<1>5. TypeOK'
  BY <1>1, <1>2 DEF SysStore, TypeOK, sched, ctrl, maps, print
<1>6. /\ OnCpu' /\ Rows' /\ ObservedWaitIsExact' /\ CountIsExact'
      /\ RowDivisorIsSafe'
  BY DEF SysStore, OnCpu, Rows, InTg, ObservedWaitIsExact, CountIsExact, InProc,
         RowDivisorIsSafe, sched, maps, print
<1>7. Shape' /\ Exclusive'
  BY <1>1, <1>a DEF Shape, Exclusive
<1>8. Stamps' /\ Pending'
  BY <1>1 DEF SysStore, Stamps, Pending, InProc, maps, TypeOK
<1>. QED
  BY <1>3, <1>4, <1>5, <1>6, <1>7, <1>8

LEMMA ExitStep ==
  ASSUME IInv, NEW c \in Cpu, Exit(c)
  PROVE  IInv'
<1>. USE DEF IInv
<1>. DEFINE t == cur[c]
<1>a. /\ t \in Proc /\ t \in Task /\ t # Nil
      /\ clock \in Nat /\ clock' = clock + 1
      /\ h[c].at = "none" /\ h[c].rec = Nil /\ h[c].nxt = Nil
  BY ConstantsAssumption DEF Exit, Tick, TypeOK, Shape, Task
<1>b. \A d \in Cpu : h[d].rec # t /\ h[d].nxt # t
  BY NotBusy DEF Exit
<1>1. /\ h' \in [Cpu -> Handler]
      /\ \A d \in Cpu \ {c} : h'[d] = h[d]
      /\ h'[c].nxt = Nil /\ h'[c].now = h[c].now
      /\ \/ sched_func /\ h'[c].at = "exit" /\ h'[c].rec = t
         \/ ~sched_func /\ h'[c].at = "none" /\ h'[c].rec = Nil
  <2>1. CASE sched_func
    BY <1>a, <2>1 DEF Exit, TypeOK, Handler
  <2>2. CASE ~sched_func
    BY <1>a, <2>2 DEF Exit, TypeOK, Handler
  <2>. QED
    BY <2>1, <2>2
<1>2. /\ proc_schedule' \in [Task -> Event \cup {Nil}]
      /\ \A u \in Task \ {t} : proc_schedule'[u] = proc_schedule[u]
      /\ proc_schedule'[t] \in {Nil, proc_schedule[t]}
      /\ sched_func => proc_schedule'[t] = Nil
  BY <1>a DEF Exit, TypeOK
<1>3. exiting' \subseteq Proc /\ left' \in BOOLEAN
  BY <1>a DEF Exit, TypeOK
<1>4. TypeOK'
  BY <1>a, <1>1, <1>2, <1>3 DEF Exit, TypeOK, ctrl, print
<1>5. /\ OnCpu' /\ Rows' /\ TotalsNeverOverstate' /\ DivisorSafeAfterFirstCharge'
      /\ RowDivisorIsSafe'
  BY DEF Exit, OnCpu, Rows, InTg, TotalsNeverOverstate, DivisorSafeAfterFirstCharge,
         RowDivisorIsSafe, print
<1>6. Shape' /\ Exclusive' /\ Loaded'
  BY <1>a, <1>b, <1>1 DEF Exit, Shape, Exclusive, Loaded
<1>7. ObservedWaitIsExact' /\ CountIsExact'
  BY <1>2 DEF Exit, ObservedWaitIsExact, CountIsExact, InProc
<1>8. Stamps'
  <2>1. \A u \in InProc' : u \in InProc /\ proc_schedule'[u] = proc_schedule[u]
    BY <1>2 DEF InProc
  <2>2. /\ \A u \in InProc : proc_schedule[u].enter_time \in Nat
        /\ \A d \in Cpu : h[d].now \in Nat
    BY DEF TypeOK, InProc, Event, Handler
  <2>. QED
    BY <1>a, <1>1, <2>1, <2>2 DEF Stamps
<1>9. Pending'
  BY <1>a, <1>1, <1>2 DEF Exit, Pending, Shape, InProc, TypeOK, Handler
<1>. QED
  BY <1>4, <1>5, <1>6, <1>7, <1>8, <1>9

LEMMA ExitRestStep ==
  ASSUME IInv, NEW c \in Cpu, ExitRest(c)
  PROVE  IInv'
<1>. USE DEF IInv
<1>. DEFINE t == h[c].rec
<1>a. t \in Task /\ t \notin InProc
  BY DEF ExitRest, Shape, Pending, TypeOK, Handler
<1>1. /\ h' \in [Cpu -> Handler]
      /\ h'[c].at = "none" /\ h'[c].rec = Nil /\ h'[c].nxt = Nil
      /\ h'[c].now = 0
      /\ \A d \in Cpu \ {c} : h'[d] = h[d]
  BY ReturnFacts DEF ExitRest
<1>2. /\ enable_add' \in [Task -> {"absent", "false", "true"}]
      /\ enable_add'[t] = "absent"
      /\ \A u \in Task \ {t} : enable_add'[u] = enable_add[u]
  BY <1>a DEF ExitRest, TypeOK
<1>3. target_schedule' \in Event
  <2>1. [target_schedule EXCEPT !.count = 0] \in Event
    BY DEF TypeOK, Event
  <2>. QED
    BY <2>1 DEF ExitRest, TypeOK
<1>4. /\ tg_schedule' \in [Pid -> Event \cup {Nil}]
      /\ \A p \in Pid : tg_schedule'[p] \in {Nil, tg_schedule[p]}
  <2>1. PidOf(t) \in Pid
    BY <1>a DEF PidOf, Pid, Task
  <2>. QED
    BY <2>1 DEF ExitRest, TypeOK
<1>5. TypeOK'
  BY <1>1, <1>2, <1>3, <1>4 DEF ExitRest, TypeOK, sched, ctrl, print
<1>6. /\ OnCpu' /\ TotalsNeverOverstate' /\ DivisorSafeAfterFirstCharge'
      /\ RowDivisorIsSafe' /\ ObservedWaitIsExact'
  BY DEF ExitRest, OnCpu, TotalsNeverOverstate, DivisorSafeAfterFirstCharge,
         RowDivisorIsSafe, ObservedWaitIsExact, sched, print
<1>7. Rows'
  BY <1>4 DEF ExitRest, Rows, InTg, print
<1>8. Shape' /\ Exclusive' /\ Loaded'
  BY <1>1 DEF ExitRest, Shape, Exclusive, Loaded
<1>9. Stamps'
  BY <1>1, ConstantsAssumption, SMTT(60) DEF ExitRest, Stamps, InProc, TypeOK
<1>10. Pending'
  BY <1>1, <1>2 DEF ExitRest, Pending, InProc, Shape, TypeOK, Handler
<1>11. CountIsExact'
  BY <1>a, <1>2 DEF ExitRest, CountIsExact, InProc
<1>. QED
  BY <1>5, <1>6, <1>7, <1>8, <1>9, <1>10, <1>11

LEMMA SetCtrlStep ==
  ASSUME IInv, NEW func \in BOOLEAN, NEW p \in Policy, SetCtrl(func, p)
  PROVE  IInv'
<1>. USE DEF IInv, SetCtrl, sched, maps, print, ghost
<1>1. TypeOK'
  BY DEF TypeOK
<1>2. /\ OnCpu' /\ Shape' /\ Exclusive' /\ Stamps' /\ Pending' /\ Loaded' /\ Rows'
  BY DEF OnCpu, Shape, Exclusive, Stamps, Pending, Loaded, Rows, InTg, InProc
<1>3. /\ ObservedWaitIsExact' /\ CountIsExact' /\ TotalsNeverOverstate'
      /\ DivisorSafeAfterFirstCharge' /\ RowDivisorIsSafe'
  BY DEF ObservedWaitIsExact, CountIsExact, TotalsNeverOverstate,
         DivisorSafeAfterFirstCharge, RowDivisorIsSafe, InProc
<1>. QED
  BY <1>1, <1>2, <1>3

LEMMA PrinterStep ==
  ASSUME IInv, Printer
  PROVE  IInv'
<1>. USE DEF IInv
<1>1. PrintUnchanged
  BY DEF Printer, PrintStart, PrintNext, PrintLookup, PrintSys
<1>2. /\ OnCpu' /\ Shape' /\ Exclusive' /\ Stamps' /\ Pending' /\ Loaded'
      /\ ObservedWaitIsExact' /\ CountIsExact' /\ TotalsNeverOverstate'
      /\ DivisorSafeAfterFirstCharge'
  BY <1>1 DEF PrintUnchanged, sched, maps, OnCpu, Shape, Exclusive, Stamps, Pending,
              Loaded, ObservedWaitIsExact, CountIsExact, TotalsNeverOverstate,
              DivisorSafeAfterFirstCharge, InProc
<1>3. Walked \subseteq Task \cup Pid
  BY DEF Walked, InTg, InProc
<1>4. /\ pat' \in {"idle", "walk", "lookup", "sys", "failed", "fpe_row", "fpe_sys"}
      /\ pmap' \in {"proc", "tg", "target"} /\ pkey' \in Task \cup Pid \cup {Nil}
      /\ left' \in BOOLEAN
  BY <1>3 DEF Printer, PrintStart, PrintNext, PrintLookup, PrintSys, TypeOK
<1>5. TypeOK'
  BY <1>1, <1>4 DEF PrintUnchanged, TypeOK, sched, ctrl, maps
<1>6. InTg' = InTg /\ tg_schedule' = tg_schedule
  BY <1>1 DEF PrintUnchanged, InTg, maps
<1>7. CASE PrintStart
  BY <1>2, <1>5, <1>6, <1>7 DEF PrintStart, Rows, RowDivisorIsSafe
<1>8. CASE PrintNext
  BY <1>2, <1>5, <1>6, <1>8 DEF PrintNext, Rows, RowDivisorIsSafe, Walked, InTg, InProc, TypeOK
<1>9. CASE PrintLookup
  <2>1. /\ pmap = "tg" /\ tg_schedule[pkey] # Nil => tg_schedule[pkey].count # 0
        /\ pmap = "proc" /\ proc_schedule[pkey] # Nil => proc_schedule[pkey].count # 0
    BY <1>9 DEF PrintLookup, Rows, InTg, InProc, CountIsExact, TypeOK
  <2>. QED
    BY <1>2, <1>5, <1>6, <1>9, <2>1 DEF PrintLookup, Rows, RowDivisorIsSafe
<1>10. CASE PrintSys
  BY <1>2, <1>5, <1>6, <1>10 DEF PrintSys, Rows, RowDivisorIsSafe, TypeOK
<1>. QED
  BY <1>2, <1>5, <1>7, <1>8, <1>9, <1>10 DEF Printer

-----------------------------------------------------------------------------
LEMMA InitIInv == Init => IInv
<1>. SUFFICES ASSUME Init PROVE IInv
  OBVIOUS
<1>. USE DEF Init
<1>1. NoHandler \in Handler /\ ZeroEvent \in Event /\ NoPolicy \in Policy
  BY DEF NoHandler, Handler, SysField, SUM_COUNT, ZeroEvent, Event, NoPolicy, Policy
<1>2. TypeOK
  BY <1>1 DEF TypeOK, Task
<1>3. OnCpu
  BY ConstantsAssumption DEF OnCpu, Task
<1>4. Shape /\ Exclusive
  BY DEF Shape, Exclusive, NoHandler
<1>5. /\ InProc = {} /\ InTg = {}
  BY DEF InProc, InTg
<1>6. Stamps /\ Pending /\ Loaded /\ Rows
  BY <1>5 DEF Stamps, Pending, Loaded, Rows, NoHandler
<1>7. /\ ObservedWaitIsExact /\ CountIsExact /\ TotalsNeverOverstate
      /\ DivisorSafeAfterFirstCharge /\ RowDivisorIsSafe
  BY <1>5 DEF ObservedWaitIsExact, CountIsExact, TotalsNeverOverstate,
              DivisorSafeAfterFirstCharge, RowDivisorIsSafe, SysField, SUM_COUNT,
              SUM_DELAY
<1>. QED
  BY <1>2, <1>3, <1>4, <1>6, <1>7 DEF IInv

LEMMA NextIInv == IInv /\ [Next]_vars => IInv'
<1>. SUFFICES ASSUME IInv, [Next]_vars PROVE IInv'
  OBVIOUS
<1>1. CASE UNCHANGED vars
  BY <1>1 DEF vars, sched, ctrl, maps, print, ghost, IInv, TypeOK, OnCpu, Shape,
     Exclusive, Stamps, Pending, Loaded, Rows, InProc, InTg, ObservedWaitIsExact,
     CountIsExact, TotalsNeverOverstate, DivisorSafeAfterFirstCharge, RowDivisorIsSafe
<1>2. ASSUME NEW c \in Cpu, Handlers(c)
      PROVE  IInv'
  BY <1>2, WakeupStep, WakeupNewStep, SwitchStep, AddStep, CreateStep, SwitchInStep,
     SysLoadStep, SysStoreStep, ExitStep, ExitRestStep DEF Handlers
<1>3. ASSUME NEW p \in Policies, Activate(p)
      PROVE  IInv'
  BY <1>3, SetCtrlStep, ConstantsAssumption DEF Activate
<1>4. CASE Deactivate
  <2>1. NoPolicy \in Policy
    BY DEF NoPolicy, Policy
  <2>. QED
    BY <1>4, <2>1, SetCtrlStep DEF Deactivate
<1>5. CASE Printer
  BY <1>5, PrinterStep
<1>. QED
  BY <1>1, <1>2, <1>3, <1>4, <1>5 DEF Next

\* The inductive invariant holds in every state of every behaviour.
THEOREM Invariance == Spec => []IInv
BY InitIInv, NextIInv, PTL DEF Spec

\* Every variable keeps its type; in particular this_delay never wraps, so the
\* sums and extremes of sched_switch stay natural numbers.
THEOREM TypeCorrect == Spec => []TypeOK
<1>1. IInv => TypeOK
  BY DEF IInv
<1>. QED
  BY <1>1, Invariance, PTL

\* enter_time of a task whose wait was observed is the moment the wait began,
\* for any number of CPUs (sched_wakeup, sched_wakeup_new, sched_switch).
THEOREM ObservedWaits == Spec => []ObservedWaitIsExact
<1>1. IInv => ObservedWaitIsExact
  BY DEF IInv
<1>. QED
  BY <1>1, Invariance, PTL

\* The task a CPU switches in was stamped before the switch read the time.
THEOREM DelaysDoNotWrap == Spec => []DelayNeverWraps
<1>1. IInv => DelayNeverWraps
  BY DEF IInv, Stamps, DelayNeverWraps
<1>. QED
  BY <1>1, Invariance, PTL

\* The preset count and enable_add count every switch-in once, whichever of the
\* hash maps is full.
THEOREM CountsAreExact == Spec => []CountIsExact
<1>1. IInv => CountIsExact
  BY DEF IInv
<1>. QED
  BY <1>1, Invariance, PTL

\* Racing CPUs never make sys_schedule exceed what was charged.
THEOREM TotalsAreSound == Spec => []TotalsNeverOverstate
<1>1. IInv => TotalsNeverOverstate
  BY DEF IInv
<1>. QED
  BY <1>1, Invariance, PTL

\* print_schedule divides by a row's own count only when it is not 0, and by
\* sum_count safely once one update of it has completed.
THEOREM DivisorsAreSafe == Spec => [](RowDivisorIsSafe /\ DivisorSafeAfterFirstCharge)
<1>1. IInv => RowDivisorIsSafe /\ DivisorSafeAfterFirstCharge
  BY DEF IInv
<1>. QED
  BY <1>1, Invariance, PTL
-----------------------------------------------------------------------------
(* The averages and the printer's walk, on top of IInv. *)

\* The average of e lies between its extremes.
Fits(e) == /\ e.count * e.min_delay <= e.sum_delay
           /\ e.sum_delay <= e.count * e.max_delay

\* Two events that differ in enter_time at most.
Alike(e, f) == /\ e.count = f.count /\ e.sum_delay = f.sum_delay
               /\ e.max_delay = f.max_delay /\ e.min_delay = f.min_delay

\* An entry that was not charged yet is zero but for its preset count; one that was
\* has a minimum, which a later charge can only lower.
Ranges ==
  /\ target_schedule.count # 0 => Fits(target_schedule)
  /\ \A t \in InProc :
       /\ ins[t] = 0 => /\ proc_schedule[t].sum_delay = 0
                        /\ proc_schedule[t].max_delay = 0
                        /\ proc_schedule[t].min_delay = 0
       /\ ins[t] > 0 => Fits(proc_schedule[t]) /\ proc_schedule[t].min_delay > 0
  /\ \A p \in InTg : Fits(tg_schedule[p])

\* The key the printer is about to look up is in the map it walks, or an exit came between.
Walk == /\ pat = "lookup" => pkey \in Walked \/ left
        /\ pat = "failed" => left

\* One more of x.
LEMMA OneMore == ASSUME NEW k \in Nat, NEW x \in Nat PROVE (k + 1) * x = k * x + x
OBVIOUS

\* The first charge of an entry, and every later one, leave the average between the extremes.
LEMMA ChargeFits ==
  ASSUME NEW e \in Event, NEW d \in Nat, d > 0, NEW added \in BOOLEAN,
         ~added => e.count = 1 /\ e.sum_delay = 0 /\ e.max_delay = 0 /\ e.min_delay = 0,
         added => Fits(e) /\ e.min_delay > 0
  PROVE  Fits(Charge(e, added, d)) /\ Charge(e, added, d).min_delay > 0
<1>. DEFINE k == IF added THEN e.count + 1 ELSE e.count
            s == e.sum_delay + d
            m == IF d > e.max_delay THEN d ELSE e.max_delay
            l == IF e.min_delay = 0 \/ d < e.min_delay THEN d ELSE e.min_delay
            x == Charge(e, added, d)
<1>1. /\ e.count \in Nat /\ e.sum_delay \in Nat /\ e.max_delay \in Nat /\ e.min_delay \in Nat
  BY DEF Event
<1>2. x.count = k /\ x.sum_delay = s /\ x.max_delay = m /\ x.min_delay = l
  BY DEF Charge, Event
<1>3. k * l <= s /\ s <= k * m /\ l > 0
  <2>1. CASE ~added
    BY <1>1, <2>1
  <2>2. CASE added
    <3>1. PICK c \in Nat, lo \in Nat, hi \in Nat, a \in Nat, b \in Nat :
            /\ c = e.count /\ lo = l /\ hi = m /\ a = e.min_delay /\ b = e.max_delay
      BY <1>1
    <3>2. lo <= a /\ lo <= d /\ b <= hi /\ d <= hi /\ lo > 0
      BY <1>1, <2>2, <3>1
    <3>3. c * lo <= c * a /\ c * b <= c * hi
      BY <3>1, <3>2
    <3>4. c * a <= e.sum_delay /\ e.sum_delay <= c * b
      BY <2>2, <3>1 DEF Fits
    <3>5. (c + 1) * lo = c * lo + lo /\ (c + 1) * hi = c * hi + hi
      BY <3>1, OneMore
    <3>6. c * lo \in Nat /\ c * a \in Nat /\ c * b \in Nat /\ c * hi \in Nat
      BY <3>1
    <3>7. (c + 1) * lo <= e.sum_delay + d /\ e.sum_delay + d <= (c + 1) * hi
      BY <1>1, <3>1, <3>2, <3>3, <3>4, <3>5, <3>6
    <3>8. k = c + 1 /\ l = lo /\ m = hi
      BY <2>2, <3>1
    <3>. HIDE DEF k, l, m
    <3>. QED
      BY <3>2, <3>7, <3>8
  <2>. QED
    BY <2>1, <2>2
<1>. HIDE DEF k, s, m, l, x
<1>. QED
  BY <1>2, <1>3 DEF Fits, x

\* Stamping leaves the counts, sums and extremes of every entry alone.
LEMMA StampAlike ==
  ASSUME TypeOK, NEW t \in Task, StampEntry(t)
  PROVE  InProc' = InProc /\ \A u \in InProc : Alike(proc_schedule'[u], proc_schedule[u])
<1>1. CASE t \notin InProc
  BY <1>1 DEF StampEntry, InProc, Alike
<1>2. CASE t \in InProc
  <2>. DEFINE e == [proc_schedule[t] EXCEPT !.enter_time = clock + 1]
  <2>1. proc_schedule[t] \in Event
    BY <1>2 DEF InProc, TypeOK
  <2>2. e \in Event /\ Alike(e, proc_schedule[t])
    BY <2>1 DEF Event, TypeOK, Alike
  <2>3. proc_schedule' = [proc_schedule EXCEPT ![t] = e]
    BY <1>2 DEF StampEntry
  <2>4. \A u \in InProc : Alike(proc_schedule[u], proc_schedule[u])
    BY DEF Alike
  <2>. HIDE DEF e
  <2>5. /\ proc_schedule'[t] = e
        /\ \A u \in Task \ {t} : proc_schedule'[u] = proc_schedule[u]
    BY <2>3 DEF TypeOK
  <2>. QED
    BY <1>2, <2>2, <2>4, <2>5, NilAssumption DEF InProc
<1>. QED
  BY <1>1, <1>2

\* What leaves the rows alone but for their stamps keeps the ranges.
LEMMA RangesFrame ==
  ASSUME Ranges, InProc' \subseteq InProc,
         \A t \in InProc' : ins'[t] = ins[t] /\ Alike(proc_schedule'[t], proc_schedule[t]),
         UNCHANGED <<target_schedule, tg_schedule>>
  PROVE  Ranges'
BY DEF Ranges, Fits, Alike, InTg

\* What removes no key keeps the walk.
LEMMA WalkFrame ==
  ASSUME Walk, UNCHANGED <<pat, pmap, pkey, left>>, InProc \subseteq InProc', InTg \subseteq InTg'
  PROVE  Walk'
BY DEF Walk, Walked

\* The handlers of a wakeup, of a switch away from a task and of the totals leave the rows
\* alone but for a stamp.
LEMMA StampSteps ==
  ASSUME IInv, Ranges, Walk, NEW c \in Cpu,
         \/ \E t \in Proc : Wakeup(c, t) \/ WakeupNew(c, t)
         \/ \E n \in Task, how \in {"running", "sleep", "preempted", "dead"} : Switch(c, n, how)
         \/ Add(c) \/ SysLoad(c) \/ SysStore(c)
  PROVE  Ranges' /\ Walk'
<1>. TypeOK
  BY DEF IInv
<1>1. UNCHANGED <<target_schedule, tg_schedule, ins, pat, pmap, pkey, left>>
  BY DEF Wakeup, WakeupNew, Switch, Add, SysLoad, SysStore, maps, print, ghost
<1>2. proc_schedule' = proc_schedule \/ \E t \in Task : StampEntry(t)
  <2>1. Proc \subseteq Task /\ cur[c] \in Task
    BY DEF Task, TypeOK
  <2>. QED
    BY <2>1 DEF Wakeup, WakeupNew, WakeupHandler, Switch, Add, SysLoad, SysStore, maps
<1>3. InProc' = InProc /\ \A u \in InProc : Alike(proc_schedule'[u], proc_schedule[u])
  <2>1. CASE proc_schedule' = proc_schedule
    BY <2>1 DEF InProc, Alike
  <2>. QED
    BY <1>2, <2>1, StampAlike
<1>. QED
  BY <1>1, <1>3, RangesFrame, WalkFrame DEF InTg

\* A new entry has not been charged.
LEMMA CreateRange ==
  ASSUME IInv, Ranges, Walk, NEW c \in Cpu, Create(c)
  PROVE  Ranges' /\ Walk'
<1>. USE DEF IInv
<1>. DEFINE t == h[c].rec
            e == NewEvent(h[c].now)
<1>1. UNCHANGED <<target_schedule, tg_schedule, pat, pmap, pkey, left>>
  BY DEF Create, print
<1>2. CASE UNCHANGED <<proc_schedule, ins>>
  BY <1>1, <1>2, RangesFrame, WalkFrame DEF InProc, InTg, Alike
<1>3. CASE /\ proc_schedule' = [proc_schedule EXCEPT ![t] = e]
           /\ ins' = [ins EXCEPT ![t] = 0]
  <2>1. /\ e \in Event /\ e.sum_delay = 0 /\ e.max_delay = 0 /\ e.min_delay = 0
    BY DEF NewEvent, ZeroEvent, Event, TypeOK, Handler
  <2>2. t \in Task
    BY DEF Create, Shape, TypeOK, Handler
  <2>. HIDE DEF e, t
  <2>3. /\ proc_schedule'[t] = e /\ ins'[t] = 0
        /\ \A u \in Task \ {t} : proc_schedule'[u] = proc_schedule[u] /\ ins'[u] = ins[u]
    BY <1>3, <2>2 DEF TypeOK
  <2>4. InProc' = InProc \cup {t}
    BY <2>1, <2>2, <2>3, NilAssumption DEF InProc
  <2>5. Ranges'
    BY <1>1, <2>1, <2>2, <2>3, <2>4 DEF Ranges, InTg, InProc
  <2>. QED
    BY <1>1, <2>4, <2>5, WalkFrame DEF InTg
<1>. QED
  BY <1>2, <1>3 DEF Create

\* A switch-in charges one entry and copies it.
LEMMA SwitchInRange ==
  ASSUME IInv, Ranges, Walk, NEW c \in Cpu, SwitchIn(c)
  PROVE  Ranges' /\ Walk'
<1>. USE DEF IInv
<1>. DEFINE n == h[c].nxt
            d == Waited(proc_schedule[n], h[c].now)
            e == Charge(proc_schedule[n], enable_add[n] = "true", d)
<1>1. UNCHANGED <<pat, pmap, pkey, left>> /\ n \in Task /\ h[c].at = "next"
  BY DEF SwitchIn, print, Shape, TypeOK, Handler
<1>2. CASE n \notin InProc \/ n \notin InAdd
  <2>1. UNCHANGED <<proc_schedule, target_schedule, tg_schedule, ins>>
    BY <1>2 DEF SwitchIn, maps
  <2>. QED
    BY <1>1, <2>1, RangesFrame, WalkFrame DEF InProc, InTg, Alike
<1>3. CASE n \in InProc /\ n \in InAdd
  <2>1. /\ proc_schedule[n] \in Event /\ ins[n] \in Nat
        /\ proc_schedule[n].enter_time \in Nat /\ h[c].now \in Nat
        /\ proc_schedule[n].enter_time < h[c].now
        /\ proc_schedule[n].count = (IF ins[n] = 0 THEN 1 ELSE ins[n])
        /\ ins[n] > 0 <=> enable_add[n] = "true"
    BY <1>1, <1>3 DEF InProc, TypeOK, Event, Handler, Stamps, CountIsExact
  <2>2. d \in Nat /\ d > 0
    BY <2>1 DEF Waited
  <2>3. e \in Event
    <3>. DEFINE x == proc_schedule[n]
                k == IF enable_add[n] = "true" THEN x.count + 1 ELSE x.count
                s == x.sum_delay + d
                m == IF d > x.max_delay THEN d ELSE x.max_delay
                l == IF x.min_delay = 0 \/ d < x.min_delay THEN d ELSE x.min_delay
    <3>1. k \in Nat /\ s \in Nat /\ m \in Nat /\ l \in Nat
      <4>. HIDE DEF d, e
      <4>. QED
        BY <2>1, <2>2 DEF Event
    <3>2. e = [x EXCEPT !.count = k, !.sum_delay = s, !.max_delay = m, !.min_delay = l]
      BY DEF Charge
    <3>. HIDE DEF e, d, k, s, m, l
    <3>. QED
      BY <2>1, <3>1, <3>2 DEF Event
  <2>4. Fits(e) /\ e.min_delay > 0
    <3>. DEFINE b == enable_add[n] = "true"
    <3>1. b \in BOOLEAN /\ (b <=> ins[n] > 0)
      BY <2>1
    <3>2. ~b => /\ proc_schedule[n].count = 1 /\ proc_schedule[n].sum_delay = 0
                /\ proc_schedule[n].max_delay = 0 /\ proc_schedule[n].min_delay = 0
      BY <1>3, <2>1, <3>1 DEF Ranges
    <3>3. b => Fits(proc_schedule[n]) /\ proc_schedule[n].min_delay > 0
      BY <1>3, <3>1 DEF Ranges
    <3>. HIDE DEF b, d
    <3>4. Fits(Charge(proc_schedule[n], b, d)) /\ Charge(proc_schedule[n], b, d).min_delay > 0
      BY <2>1, <2>2, <3>1, <3>2, <3>3, ChargeFits
    <3>. QED
      BY <3>4 DEF b
  <2>5. /\ proc_schedule' = [proc_schedule EXCEPT ![n] = e]
        /\ target_schedule' = (IF policy.target = n THEN e ELSE target_schedule)
        /\ tg_schedule' =
             (IF policy.target_tgid = Tgid[n] /\ Room(InTg, PidOf(n), TgEntries)
              THEN [tg_schedule EXCEPT ![PidOf(n)] = e] ELSE tg_schedule)
        /\ ins' = [ins EXCEPT ![n] = @ + 1]
    BY <1>3 DEF SwitchIn
  <2>. HIDE DEF e, d, n
  <2>6. /\ proc_schedule'[n] = e /\ ins'[n] = ins[n] + 1 /\ e # Nil
        /\ \A u \in Task \ {n} : proc_schedule'[u] = proc_schedule[u] /\ ins'[u] = ins[u]
    BY <1>1, <2>3, <2>5, NilAssumption DEF TypeOK
  <2>7. InProc' = InProc
    BY <1>1, <1>3, <2>6 DEF InProc
  <2>8. \A p \in Pid : tg_schedule'[p] = e \/ tg_schedule'[p] = tg_schedule[p]
    BY <2>5 DEF TypeOK
  <2>9. InTg \subseteq InTg' /\ \A p \in InTg' : Fits(tg_schedule'[p])
    BY <2>4, <2>6, <2>8 DEF Ranges, InTg
  <2>10. target_schedule'.count # 0 => Fits(target_schedule')
    BY <2>4, <2>5 DEF Ranges
  <2>11. \A u \in InProc' :
           /\ ins'[u] = 0 => /\ proc_schedule'[u].sum_delay = 0
                             /\ proc_schedule'[u].max_delay = 0
                             /\ proc_schedule'[u].min_delay = 0
           /\ ins'[u] > 0 => Fits(proc_schedule'[u]) /\ proc_schedule'[u].min_delay > 0
    <3>1. ins[n] + 1 # 0
      BY <2>1
    <3>. QED
      BY <2>4, <2>6, <2>7, <3>1 DEF Ranges, InProc
  <2>. QED
    BY <1>1, <2>7, <2>9, <2>10, <2>11, WalkFrame DEF Ranges
<1>. QED
  BY <1>2, <1>3

\* An exit removes rows, and marks a walk that is under way.
LEMMA ExitRange ==
  ASSUME IInv, Ranges, Walk, NEW c \in Cpu, Exit(c) \/ ExitRest(c)
  PROVE  Ranges' /\ Walk'
<1>. USE DEF IInv
<1>1. CASE Exit(c)
  <2>1. UNCHANGED <<target_schedule, tg_schedule, ins, pat, pmap, pkey>>
    BY <1>1 DEF Exit, print
  <2>2. \/ UNCHANGED <<proc_schedule, left>>
        \/ /\ proc_schedule' = [proc_schedule EXCEPT ![cur[c]] = Nil]
           /\ left' = (pat # "idle")
    BY <1>1 DEF Exit
  <2>3. \A u \in InProc' : u \in InProc /\ proc_schedule'[u] = proc_schedule[u]
    BY <2>2 DEF InProc, TypeOK
  <2>4. Ranges'
    BY <2>1, <2>3, RangesFrame DEF Alike, InProc
  <2>5. CASE UNCHANGED <<proc_schedule, left>>
    BY <2>1, <2>4, <2>5, WalkFrame DEF InProc, InTg
  <2>6. CASE left' = (pat # "idle")
    BY <2>1, <2>4, <2>6 DEF Walk
  <2>. QED
    BY <2>2, <2>5, <2>6
<1>2. CASE ExitRest(c)
  <2>. DEFINE t == h[c].rec
  <2>1. UNCHANGED <<proc_schedule, ins, pat, pmap, pkey>> /\ left' = (pat # "idle")
    BY <1>2 DEF ExitRest, print
  <2>2. Walk'
    BY <2>1 DEF Walk
  <2>3. target_schedule'.count # 0 => target_schedule' = target_schedule
    BY <1>2 DEF ExitRest, TypeOK, Event
  <2>4. \A p \in InTg' : p \in InTg /\ tg_schedule'[p] = tg_schedule[p]
    BY <1>2 DEF ExitRest, InTg, TypeOK
  <2>5. Ranges'
    BY <2>1, <2>3, <2>4 DEF Ranges, InProc
  <2>. QED
    BY <2>2, <2>5
<1>. QED
  BY <1>1, <1>2

\* The controller touches neither the rows nor the walk; the printer takes its next key
\* from the map it walks.
LEMMA PrintRange ==
  ASSUME IInv, Ranges, Walk, Printer \/ \E f \in BOOLEAN, p \in Policy : SetCtrl(f, p)
  PROVE  Ranges' /\ Walk'
<1>. USE DEF IInv
<1>1. UNCHANGED <<proc_schedule, target_schedule, tg_schedule, ins>>
  BY DEF Printer, PrintStart, PrintNext, PrintLookup, PrintSys, PrintUnchanged, SetCtrl, maps, ghost
<1>2. Ranges'
  BY <1>1, RangesFrame DEF InProc, Alike
<1>3. CASE \E f \in BOOLEAN, p \in Policy : SetCtrl(f, p)
  BY <1>1, <1>2, <1>3, WalkFrame DEF SetCtrl, print, ghost, InProc, InTg
<1>4. CASE PrintStart \/ PrintSys
  <2>1. pat' \notin {"lookup", "failed"}
    BY <1>4 DEF PrintStart, PrintSys
  <2>. QED
    BY <1>2, <2>1 DEF Walk
<1>5. CASE PrintNext
  <2>1. pat' = "lookup" => pkey' \in Walked
    BY <1>5 DEF PrintNext
  <2>2. Walked' = Walked /\ pat' # "failed"
    BY <1>1, <1>5 DEF PrintNext, Walked, InProc, InTg
  <2>. QED
    BY <1>2, <2>1, <2>2 DEF Walk
<1>6. CASE PrintLookup
  <2>1. pat = "lookup" /\ left' = left /\ pat' # "lookup"
    BY <1>6 DEF PrintLookup
  <2>2. ASSUME pat' = "failed" PROVE pkey \notin Walked
    <3>1. CASE pmap = "proc" /\ pkey \in Task
      BY <1>6, <2>2, <3>1 DEF PrintLookup, Walked, InProc
    <3>2. CASE pmap = "tg" /\ pkey \in Pid
      BY <1>6, <2>2, <3>2 DEF PrintLookup, Walked, InTg
    <3>. QED
      BY <2>1, <3>1, <3>2 DEF Rows
  <2>. QED
    BY <1>2, <2>1, <2>2 DEF Walk
<1>. QED
  BY <1>3, <1>4, <1>5, <1>6 DEF Printer

\* Every step keeps the ranges and the walk.
LEMMA RangeStep == ASSUME IInv, Ranges, Walk, [Next]_vars PROVE Ranges' /\ Walk'
<1>1. CASE UNCHANGED vars
  BY <1>1, RangesFrame, WalkFrame DEF vars, maps, print, ghost, InProc, InTg, Alike
<1>2. ASSUME NEW c \in Cpu, Handlers(c) PROVE Ranges' /\ Walk'
  BY <1>2, StampSteps, CreateRange, SwitchInRange, ExitRange DEF Handlers
<1>3. ASSUME NEW p \in Policies, Activate(p) PROVE Ranges' /\ Walk'
  BY <1>3, PrintRange, ConstantsAssumption DEF Activate
<1>4. CASE Deactivate
  <2>1. NoPolicy \in Policy
    BY DEF NoPolicy, Policy
  <2>. QED
    BY <1>4, <2>1, PrintRange DEF Deactivate
<1>5. CASE Printer
  BY <1>5, PrintRange
<1>. QED
  BY <1>1, <1>2, <1>3, <1>4, <1>5 DEF Next

\* Ranges and Walk are invariants too.
THEOREM RangeInvariance == Spec => [](Ranges /\ Walk)
<1>1. Init => Ranges /\ Walk
  BY DEF Init, Ranges, Walk, InProc, InTg, ZeroEvent
<1>. QED
  BY <1>1, RangeStep, Invariance, PTL DEF Spec

\* The average printed in a row lies between the extremes printed beside it, in every row
\* of every map (print_schedule).
THEOREM AveragesAreInRange == Spec => []AverageInRange
<1>1. Ranges => AverageInRange
  BY DEF Ranges, AverageInRange, Fits
<1>. QED
  BY <1>1, RangeInvariance, PTL

\* print_schedule ends the tool only if the exit of a task came into its walk.
THEOREM PrintSurvivesWithoutExit == Spec => []PrintFailsOnlyAfterExit
<1>1. Walk => PrintFailsOnlyAfterExit
  BY DEF Walk, PrintFailsOnlyAfterExit
<1>. QED
  BY <1>1, RangeInvariance, PTL
=============================================================================
