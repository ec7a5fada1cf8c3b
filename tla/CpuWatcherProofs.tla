-------------------------- MODULE CpuWatcherProofs --------------------------
(***************************************************************************)
(* The safety properties of CpuWatcher hold in every behaviour, for every  *)
(* number of tasks, CPUs, addresses, mutexes, slots, instances of the tool *)
(* and for every bound.  Each watcher has an inductive invariant (MqInv,   *)
(* ScInv, CsInv, PtInv, SdInv, MuInv, SmInv, ControlInv) that its initial  *)
(* states satisfy and its steps keep; WatcherInv puts them together.       *)
(***************************************************************************)
EXTENDS CpuWatcher, Integers, Sequences, FiniteSetTheorems, FunctionTheorems, TLAPS

-----------------------------------------------------------------------------
(* The control map. *)

\* A tool that is about to note the head printed was told to run, and one whose path was
\* taken between its unpin and its pin is in between.
ControlInv ==
  /\ Wc!TypeOK /\ Wc!CommandIsKept /\ Wc!PinIsFree
  /\ \A t \in Tool : wc_tool[t] = "head" /\ t \notin wc_overtaken => wc_last[t] = TRUE
  /\ \A t \in Tool : wc_tool[t] = "unpinned" /\ wc_path # None => t \in wc_between

\* The tool has not been started: no map is pinned and no command has been given.
LEMMA ControlInit == Wc!Init => ControlInv
BY WatcherAssumption, NameAssumption DEF Wc!Init, ControlInv, Wc!TypeOK, Wc!At, Wc!CommandIsKept, Wc!PinIsFree

\* Every step of an instance of the tool or of the controller keeps ControlInv.
LEMMA ControlStep == ControlInv /\ [Wc!Next]_wc => ControlInv'
<1>. SUFFICES ASSUME ControlInv, [Wc!Next]_wc PROVE ControlInv'
  OBVIOUS
<1>. USE WatcherAssumption, NameAssumption DEF ControlInv, Wc!TypeOK, Wc!At, Wc!CommandIsKept, Wc!PinIsFree, Wc!To
<1>1. CASE Wc!Write
  BY <1>1 DEF Wc!Write
<1>2. ASSUME NEW on \in BOOLEAN, Wc!Open(on) PROVE ControlInv'
  BY <1>2 DEF Wc!Open
<1>3. ASSUME NEW t \in Tool, Wc!Load(t) PROVE ControlInv'
  BY <1>3 DEF Wc!Load
<1>4. ASSUME NEW t \in Tool, Wc!Unpin(t) PROVE ControlInv'
  BY <1>4 DEF Wc!Unpin
<1>5. ASSUME NEW t \in Tool, Wc!Pin(t) PROVE ControlInv'
  BY <1>5 DEF Wc!Pin
<1>6. ASSUME NEW t \in Tool, Wc!InitMap(t) PROVE ControlInv'
  BY <1>6 DEF Wc!InitMap
<1>7. ASSUME NEW t \in Tool, Wc!Attach(t) PROVE ControlInv'
  BY <1>7 DEF Wc!Attach
<1>8. ASSUME NEW t \in Tool, Wc!ReadMap(t) PROVE ControlInv'
  BY <1>8 DEF Wc!ReadMap
<1>9. ASSUME NEW t \in Tool, Wc!WriteBack(t) PROVE ControlInv'
  BY <1>9 DEF Wc!WriteBack, Wc!Noted
<1>10. ASSUME NEW t \in Tool, Wc!End(t) PROVE ControlInv'
  BY <1>10 DEF Wc!End, Wc!AfterLoop
<1>11. ASSUME NEW t \in Tool, Wc!Kill(t) PROVE ControlInv'
  BY <1>11 DEF Wc!Kill
<1>12. CASE UNCHANGED wc
  BY <1>12 DEF wc
<1>. QED
  BY <1>1, <1>2, <1>3, <1>4, <1>5, <1>6, <1>7, <1>8, <1>9, <1>10, <1>11, <1>12 DEF Wc!Next
-----------------------------------------------------------------------------
(* schedule(). *)

\* The CPU that wrote the slot last finds in it the time it entered at.
CsInv ==
  /\ Cs!TypeOK /\ Cs!LastEntryIsExact
  /\ \A c \in Cpu : cs_cpu[c].at = "enter" => cs_cpu[c].t = cs_cpu[c].since
  /\ \A c \in cs_alone : cs_cpu[c].at \in {"switch", "return"} => cs_start = cs_cpu[c].since

\* No CPU is in schedule() at first.
LEMMA CsInit == Cs!Init => CsInv
BY WatcherAssumption DEF Cs!Init, CsInv, Cs!TypeOK, Cs!LastEntryIsExact, Cs!At, Cs!Run, Cs!NoEvent

\* Every step of a CPU through schedule() and the two probes of cs_delay keeps CsInv.
LEMMA CsStep == CsInv /\ [Cs!Next]_cs => CsInv'
<1>. SUFFICES ASSUME CsInv, [Cs!Next]_cs PROVE CsInv'
  OBVIOUS
<1>. USE WatcherAssumption DEF CsInv, Cs!TypeOK, Cs!LastEntryIsExact, Cs!At, Cs!Run, Cs!NoEvent
<1>1. CASE Cs!Tick
  BY <1>1 DEF Cs!Tick
<1>2. ASSUME NEW c \in Cpu, Cs!Enter(c) PROVE CsInv'
  BY <1>2 DEF Cs!Enter
<1>3. ASSUME NEW c \in Cpu, Cs!Write(c) PROVE CsInv'
  BY <1>3 DEF Cs!Write
<1>4. ASSUME NEW c \in Cpu, Cs!Return(c) PROVE CsInv'
  BY <1>4 DEF Cs!Return
<1>5. ASSUME NEW c \in Cpu, Cs!Report(c) PROVE CsInv'
  <2>. USE <1>5 DEF Cs!Report, Cs!AfterRead
  <2>1. c \in cs_alone => cs_start = cs_cpu[c].since
    OBVIOUS
  <2>2. cs_ev'.alone => /\ c \in cs_alone
                        /\ cs_ev'.delay = cs_cpu[c].t - cs_start
                        /\ cs_ev'.real = cs_cpu[c].t - cs_cpu[c].since
    <3>1. CASE cs_ev' = Cs!NoEvent
      BY <3>1
    <3>2. CASE cs_ev' = Cs!Ev(c)
      BY <3>2 DEF Cs!Ev
    <3>. QED
      BY <3>1, <3>2
  <2>. QED
    BY <2>1, <2>2
<1>6. CASE UNCHANGED cs
  BY <1>6 DEF cs
<1>. QED
  BY <1>1, <1>2, <1>3, <1>4, <1>5, <1>6 DEF Cs!Next
-----------------------------------------------------------------------------
(* System calls. *)

\* The time of a task that is in its call lies in the slot of one CPU, beside its number.
ScInv ==
  /\ Sc!TypeOK /\ Sc!LineIsOfItsCall
  /\ \A p \in Pid \ sc_ghost :
       sc_time[p] # None =>
         /\ sc_task[p].at = "call"
         /\ \E c \in Cpu :
              /\ \A d \in Cpu \ {c} : sc_time[p][d] = 0
              /\ sc_time[p][c] = sc_task[p].t
              /\ sc_event[p] # None => sc_event[p][c] = sc_task[p].id

\* No task is in a system call at first, and both maps are empty.
LEMMA ScInit == Sc!Init => ScInv
BY WatcherAssumption DEF Sc!Init, ScInv, Sc!TypeOK, Sc!LineIsOfItsCall, Sc!TaskState, Sc!User, Sc!Slots

\* Writing the slot of one CPU into a per-CPU value keeps the type of the maps of sc_delay,
\* and the entry written is zero on every other CPU when it is new.
LEMMA StoreType ==
  ASSUME NEW V, NEW map \in Sc!Slots(V), NEW p \in Pid, NEW c \in Cpu, NEW v \in V, NEW max, 0 \in V
  PROVE  /\ Sc!Store(map, p, c, v, max) \in Sc!Slots(V)
         /\ \A q \in Pid \ {p} : Sc!Store(map, p, c, v, max)[q] = map[q]
         /\ Sc!Store(map, p, c, v, max)[p] # None => Sc!Store(map, p, c, v, max)[p][c] = v
         /\ map[p] = None /\ Sc!Store(map, p, c, v, max)[p] # None =>
              \A d \in Cpu \ {c} : Sc!Store(map, p, c, v, max)[p][d] = 0
<1>. DEFINE room == Sc!Cardinality({q \in Pid : map[q] # None}) < max
<1>. HIDE DEF room
<1>1. Sc!Store(map, p, c, v, max) =
        IF map[p] # None THEN [map EXCEPT ![p][c] = v]
        ELSE IF room THEN [map EXCEPT ![p] = [d \in Cpu |-> IF d = c THEN v ELSE 0]] ELSE map
  BY DEF Sc!Store, room
<1>2. CASE map[p] # None
  <2>1. map[p] \in [Cpu -> V]
    BY <1>2 DEF Sc!Slots
  <2>2. Sc!Store(map, p, c, v, max) = [map EXCEPT ![p] = [map[p] EXCEPT ![c] = v]]
    BY <1>1, <1>2
  <2>. QED
    BY <1>2, <2>1, <2>2 DEF Sc!Slots
<1>3. CASE map[p] = None /\ room
  <2>1. [d \in Cpu |-> IF d = c THEN v ELSE 0] \in [Cpu -> V]
    OBVIOUS
  <2>. QED
    BY <1>1, <1>3, <2>1 DEF Sc!Slots
<1>4. CASE map[p] = None /\ ~room
  BY <1>1, <1>4 DEF Sc!Slots
<1>. QED
  BY <1>2, <1>3, <1>4

\* Every step of a task through a system call, its moves, its death and the two probes of
\* sc_delay keep ScInv.
LEMMA ScStep == ScInv /\ [Sc!Next]_sc => ScInv'
<1>. SUFFICES ASSUME ScInv, [Sc!Next]_sc PROVE ScInv'
  OBVIOUS
<1>. USE WatcherAssumption, NameAssumption DEF ScInv, Sc!TypeOK, Sc!LineIsOfItsCall, Sc!TaskState, Sc!User
<1>1. CASE Sc!Tick
  BY <1>1 DEF Sc!Tick
<1>2. ASSUME NEW p \in Pid, NEW c \in Cpu, NEW id \in Id, Sc!SysEnter(p, c, id) PROVE ScInv'
  <2>. USE <1>2 DEF Sc!SysEnter
  <2>1. sc_clock \in Nat /\ 0 \in Nat
    OBVIOUS
  <2>2. /\ sc_time' \in Sc!Slots(Nat)
        /\ \A q \in Pid \ {p} : sc_time'[q] = sc_time[q]
        /\ sc_time'[p] # None => sc_time'[p][c] = sc_clock
        /\ sc_time[p] = None /\ sc_time'[p] # None => \A d \in Cpu \ {c} : sc_time'[p][d] = 0
    <3>1. sc_time \in Sc!Slots(Nat) /\ sc_time' = Sc!Store(sc_time, p, c, sc_clock, MaxEnter)
      OBVIOUS
    <3>. HIDE WatcherAssumption, NameAssumption, <1>2
            DEF ScInv, Sc!TypeOK, Sc!LineIsOfItsCall, Sc!TaskState, Sc!User, Sc!SysEnter
    <3>. QED
      BY <2>1, <3>1, StoreType
  <2>3. /\ sc_event' \in Sc!Slots(Id)
        /\ \A q \in Pid \ {p} : sc_event'[q] = sc_event[q]
        /\ sc_event'[p] # None => sc_event'[p][c] = id
    BY StoreType
  <2>4. sc_task' = [sc_task EXCEPT ![p] = [at |-> "call", id |-> id, t |-> sc_clock]]
    OBVIOUS
  <2>. HIDE <1>2 DEF Sc!SysEnter
  <2>5. sc_line' = None /\ sc_clock' = sc_clock /\ sc_ghost' = sc_ghost /\ sc_task[p].at = "user"
    BY <1>2 DEF Sc!SysEnter
  <2>6. Sc!TypeOK'
    BY <2>1, <2>2, <2>3, <2>4, <2>5
  <2>7. p \notin sc_ghost => sc_time[p] = None
    BY <2>5
  <2>. QED
    BY <2>2, <2>3, <2>4, <2>5, <2>6, <2>7
<1>3. ASSUME NEW p \in Pid, NEW c \in Cpu, Sc!SysExit(p, c) PROVE ScInv'
  <2>. USE <1>3 DEF Sc!SysExit
  <2>1. Sc!TypeOK'
    BY DEF Sc!Slots
  <2>2. CASE sc_line' = None
    BY <2>1, <2>2 DEF Sc!Slots
  <2>3. CASE sc_line' # None
    <3>1. sc_time[p] # None /\ sc_event[p] # None /\ sc_clock - sc_time[p][c] <= Limit
      BY <2>3 DEF Sc!Shown
    <3>2. sc_line' = [pid |-> p, id |-> sc_event[p][c], delay |-> sc_clock - sc_time[p][c],
                      call |-> sc_task[p], ghost |-> p \in sc_ghost]
      BY <2>3
    <3>3. sc_time[p][c] # 0
      BY <3>1 DEF Sc!Slots
    <3>4. ~sc_line'.ghost => p \notin sc_ghost
      BY <3>2
    <3>5. p \notin sc_ghost => sc_time[p][c] = sc_task[p].t /\ sc_event[p][c] = sc_task[p].id
      BY <3>1, <3>3
    <3>6. sc_line'.id = sc_event[p][c] /\ sc_line'.delay = sc_clock - sc_time[p][c] /\ sc_line'.call = sc_task[p]
      BY <3>2
    <3>. QED
      BY <2>1, <3>4, <3>5, <3>6 DEF Sc!Slots
  <2>. QED
    BY <2>2, <2>3
<1>4. ASSUME NEW p \in Pid, Sc!Die(p) PROVE ScInv'
  BY <1>4 DEF Sc!Die
<1>5. ASSUME NEW p \in Pid, Sc!Fork(p) PROVE ScInv'
  BY <1>5 DEF Sc!Fork
<1>6. CASE UNCHANGED sc
  BY <1>6 DEF sc
<1>. QED
  BY <1>1, <1>2, <1>3, <1>4, <1>5, <1>6 DEF Sc!Next
-----------------------------------------------------------------------------
(* Preemptions. *)

\* Events of rb that say what they should.
Sound ==
  {e \in [prev : Pid, duration : Nat, lost : BOOLEAN, real : Int, preempted : BOOLEAN] :
     ~e.lost => e.preempted /\ e.duration = e.real}

\* A task is on one CPU at most, and a time that no lost event left behind is that of a
\* preemption which finish_task_switch is about to take up.
PtInv ==
  /\ Pt!TypeOK /\ pt_rb \in Seq(Sound)
  /\ \A c, d \in Cpu : c # d =>
       /\ pt_cpu[c].cur # pt_cpu[d].cur
       /\ pt_cpu[c].cur # pt_cpu[d].prev
       /\ pt_cpu[c].prev = pt_cpu[d].prev => pt_cpu[c].prev = None
  /\ \A p \in Pid : pt_time[p] # None => pt_time[p] <= pt_clock
  /\ \A p \in Pid \ pt_lost : pt_time[p] # None =>
       \E c \in Cpu : /\ pt_cpu[c].prev = p /\ pt_cpu[c].preempted
                      /\ pt_cpu[c].since = pt_time[p]

\* Every CPU runs a task of its own at first and preemptTime is empty.
LEMMA PtInit == Pt!Init => PtInv
<1>. SUFFICES ASSUME Pt!Init PROVE PtInv
  OBVIOUS
<1>. USE WatcherAssumption, NameAssumption DEF Pt!Init
<1>1. pt_rb \in Seq(Sound)
  OBVIOUS
<1>2. pt_cpu \in [Cpu -> Pt!OnCpu]
  <2>1. \A c \in Cpu : [cur |-> c, prev |-> None, since |-> 0, preempted |-> FALSE] \in Pt!OnCpu
    BY DEF Pt!OnCpu
  <2>. QED
    BY <2>1
<1>3. pt_clock \in 0..(MaxClock - 1) /\ pt_time \in [Pid -> (0..(MaxClock - 1)) \cup {None}]
  OBVIOUS
<1>4. Pt!TypeOK
  BY <1>2, <1>3 DEF Pt!TypeOK
<1>. QED
  BY <1>1, <1>4 DEF PtInv

\* Every switch, probe of preempt and poll of the loop keeps PtInv.
LEMMA PtStep == PtInv /\ [Pt!Next]_pt => PtInv'
<1>. SUFFICES ASSUME PtInv, [Pt!Next]_pt PROVE PtInv'
  OBVIOUS
<1>. USE WatcherAssumption, NameAssumption DEF PtInv, Pt!TypeOK
<1>1. CASE Pt!Tick
  BY <1>1 DEF Pt!Tick
<1>2. CASE Pt!Poll
  <2>1. pt_rb # <<>> => Tail(pt_rb) \in Seq(Sound) /\ Head(pt_rb) \in Sound
    OBVIOUS
  <2>2. pt_rb # <<>> => Head(pt_rb).duration \in Nat
    BY <2>1 DEF Sound
  <2>3. CASE pt_rb # <<>> /\ pt_rb' = Tail(pt_rb) /\ pt_count' = pt_count + 1
             /\ pt_sum' = pt_sum + Head(pt_rb).duration /\ UNCHANGED pt_loop
    BY <1>2, <2>1, <2>2, <2>3 DEF Pt!Poll
  <2>4. CASE pt_loop' = "print" /\ UNCHANGED <<pt_rb, pt_count, pt_sum>>
    BY <1>2, <2>4 DEF Pt!Poll
  <2>. QED
    BY <1>2, <2>3, <2>4 DEF Pt!Poll
<1>3. CASE Pt!Round
  BY <1>3 DEF Pt!Round
<1>4. ASSUME NEW c \in Cpu, NEW next \in Pid \cup Cpu, NEW preempt \in BOOLEAN, Pt!SchedSwitch(c, next, preempt)
      PROVE  PtInv'
  <2>. DEFINE p == pt_cpu[c].cur
              now == [cur |-> next, prev |-> p, since |-> pt_clock, preempted |-> preempt]
  <2>1. /\ pt_cpu[c].prev = None /\ next \notin Pt!Running /\ (preempt => p \in Pid)
        /\ pt_cpu' = [pt_cpu EXCEPT ![c] = now]
        /\ pt_time' = IF preempt THEN [pt_time EXCEPT ![p] = pt_clock] ELSE pt_time
        /\ UNCHANGED <<pt_clock, pt_rb, pt_count, pt_sum, pt_started, pt_loop, pt_lost>>
    BY <1>4 DEF Pt!SchedSwitch
  <2>2. \A d \in Cpu : next # pt_cpu[d].cur /\ next # pt_cpu[d].prev
    BY <2>1 DEF Pt!Running
  <2>3. now \in Pt!OnCpu /\ p # None
    BY DEF Pt!OnCpu
  <2>4. Pt!TypeOK'
    BY <2>1, <2>3
  <2>5. pt_cpu'[c] = now /\ \A d \in Cpu \ {c} : pt_cpu'[d] = pt_cpu[d]
    BY <2>1
  <2>6. now.cur = next /\ now.prev = p /\ now.since = pt_clock /\ (now.preempted <=> preempt)
    OBVIOUS
  <2>. HIDE DEF now
  <2>7. \A d, e \in Cpu : d # e =>
          /\ pt_cpu'[d].cur # pt_cpu'[e].cur
          /\ pt_cpu'[d].cur # pt_cpu'[e].prev
          /\ pt_cpu'[d].prev = pt_cpu'[e].prev => pt_cpu'[d].prev = None
    BY <2>2, <2>3, <2>5, <2>6
  <2>8. \A q \in Pid \ pt_lost : pt_time'[q] # None =>
          \E d \in Cpu : /\ pt_cpu'[d].prev = q /\ pt_cpu'[d].preempted
                         /\ pt_cpu'[d].since = pt_time'[q]
    <3>. SUFFICES ASSUME NEW q \in Pid \ pt_lost, pt_time'[q] # None
                  PROVE  \E d \in Cpu : /\ pt_cpu'[d].prev = q /\ pt_cpu'[d].preempted
                                        /\ pt_cpu'[d].since = pt_time'[q]
      OBVIOUS
    <3>1. CASE preempt /\ q = p
      BY <2>1, <2>5, <2>6, <3>1
    <3>2. CASE ~(preempt /\ q = p)
      <4>1. pt_time'[q] = pt_time[q]
        BY <2>1, <3>2
      <4>2. PICK d \in Cpu : /\ pt_cpu[d].prev = q /\ pt_cpu[d].preempted
                             /\ pt_cpu[d].since = pt_time[q]
        BY <4>1
      <4>3. d # c
        BY <2>1, <4>2
      <4>. QED
        BY <2>5, <4>1, <4>2, <4>3
    <3>. QED
      BY <3>1, <3>2
  <2>9. \A q \in Pid : pt_time'[q] # None => pt_time'[q] <= pt_clock'
    BY <2>1
  <2>. QED
    BY <2>1, <2>4, <2>7, <2>8, <2>9
<1>5. ASSUME NEW c \in Cpu, Pt!Finish(c) PROVE PtInv'
  <2>. DEFINE p == pt_cpu[c].prev
              t == IF p \in Pid THEN pt_time[p] ELSE None
              now == [cur |-> pt_cpu[c].cur, prev |-> None, since |-> 0, preempted |-> FALSE]
              event == [prev |-> p, duration |-> pt_clock - t, lost |-> p \in pt_lost,
                        real |-> pt_clock - pt_cpu[c].since, preempted |-> pt_cpu[c].preempted]
  <2>1. /\ p # None /\ pt_cpu' = [pt_cpu EXCEPT ![c] = now]
        /\ UNCHANGED <<pt_clock, pt_count, pt_sum, pt_started, pt_loop>>
    BY <1>5 DEF Pt!Finish
  <2>2. \/ t = None /\ UNCHANGED <<pt_time, pt_rb, pt_lost>>
        \/ /\ t # None /\ pt_rb' = Append(pt_rb, event)
           /\ pt_time' = [pt_time EXCEPT ![p] = None] /\ pt_lost' = pt_lost \ {p}
        \/ t # None /\ pt_lost' = pt_lost \cup {p} /\ UNCHANGED <<pt_time, pt_rb>>
    BY <1>5 DEF Pt!Finish, Pt!Taken
  <2>3. now \in Pt!OnCpu
    BY DEF Pt!OnCpu
  <2>4. pt_cpu'[c] = now /\ \A d \in Cpu \ {c} : pt_cpu'[d] = pt_cpu[d]
    BY <2>1
  <2>5. now.cur = pt_cpu[c].cur /\ now.prev = None
    OBVIOUS
  <2>6. pt_cpu' \in [Cpu -> Pt!OnCpu]
    BY <2>1, <2>3
  <2>7. t # None => event \in Sound
    <3>. SUFFICES ASSUME t # None PROVE event \in Sound
      OBVIOUS
    <3>1. p \in Pid /\ t = pt_time[p] /\ t \in Nat /\ t <= pt_clock /\ pt_clock \in Nat
      OBVIOUS
    <3>2. pt_cpu[c].since \in Nat /\ pt_cpu[c].preempted \in BOOLEAN
      BY DEF Pt!OnCpu
    <3>3. p \notin pt_lost => pt_cpu[c].preempted /\ pt_cpu[c].since = t
      <4>. SUFFICES ASSUME p \notin pt_lost PROVE pt_cpu[c].preempted /\ pt_cpu[c].since = t
        OBVIOUS
      <4>1. PICK d \in Cpu : pt_cpu[d].prev = p /\ pt_cpu[d].preempted /\ pt_cpu[d].since = pt_time[p]
        BY <3>1
      <4>2. d = c
        BY <2>1, <4>1
      <4>. QED
        BY <3>1, <4>1, <4>2
    <3>4. pt_clock - t \in Nat /\ pt_clock - pt_cpu[c].since \in Int
      BY <3>1, <3>2
    <3>5. event \in [prev : Pid, duration : Nat, lost : BOOLEAN, real : Int, preempted : BOOLEAN]
      BY <3>1, <3>2, <3>4
    <3>6. ~event.lost => event.preempted /\ event.duration = event.real
      BY <3>3
    <3>. QED
      BY <3>5, <3>6 DEF Sound
  <2>. HIDE DEF now, event
  <2>8. pt_rb' \in Seq(Sound)
    BY <2>2, <2>7
  <2>9. \A d, e \in Cpu : d # e =>
          /\ pt_cpu'[d].cur # pt_cpu'[e].cur
          /\ pt_cpu'[d].cur # pt_cpu'[e].prev
          /\ pt_cpu'[d].prev = pt_cpu'[e].prev => pt_cpu'[d].prev = None
    <3>1. \A d \in Cpu : pt_cpu'[d].cur = pt_cpu[d].cur /\ pt_cpu[d].cur # None
      BY <2>4, <2>5 DEF Pt!OnCpu
    <3>. QED
      BY <2>4, <2>5, <3>1
  <2>10. \A q \in Pid \ pt_lost' : pt_time'[q] # None =>
          \E d \in Cpu : /\ pt_cpu'[d].prev = q /\ pt_cpu'[d].preempted
                         /\ pt_cpu'[d].since = pt_time'[q]
    <3>. SUFFICES ASSUME NEW q \in Pid \ pt_lost', pt_time'[q] # None
                  PROVE  \E d \in Cpu : /\ pt_cpu'[d].prev = q /\ pt_cpu'[d].preempted
                                        /\ pt_cpu'[d].since = pt_time'[q]
      OBVIOUS
    <3>1. q # p /\ pt_time'[q] = pt_time[q] /\ q \notin pt_lost
      BY <2>2
    <3>2. PICK d \in Cpu : /\ pt_cpu[d].prev = q /\ pt_cpu[d].preempted
                           /\ pt_cpu[d].since = pt_time[q]
      BY <3>1
    <3>. QED
      BY <2>4, <3>1, <3>2
  <2>11. pt_time' \in [Pid -> (0..(MaxClock - 1)) \cup {None}] /\ pt_lost' \subseteq Pid
    BY <2>2
  <2>12. \A q \in Pid : pt_time'[q] # None => pt_time'[q] <= pt_clock'
    BY <2>1, <2>2
  <2>. QED
    BY <2>1, <2>6, <2>8, <2>9, <2>10, <2>11, <2>12
<1>6. CASE UNCHANGED pt
  BY <1>6 DEF pt
<1>. QED
  BY <1>1, <1>2, <1>3, <1>4, <1>5, <1>6 DEF Pt!Next
-----------------------------------------------------------------------------
(* Waits for a CPU. *)

\* Where the history of task i is: written, about to be written, or refused by a full map.
Accounted(i) == sd_refused \/ i \in sd_histories \/ \E c \in Core : sd_handler[c] = i

\* A task that waits has no time noted or the one its wait began at, and the history of a
\* task the printer may look up is on its way.
SdInv ==
  /\ Sd!TypeOK /\ Sd!WaitIsExact /\ Sd!FailsInFirstSwitchOnly
  /\ \A c \in Core : sd_run[c] \in Pid \cup {c}
  /\ \A i \in Sd!ProcId : /\ sd_since[i] <= sd_clock
                          /\ sd_enter[i] # None => sd_enter[i] <= sd_clock
  /\ \A p \in Pid \ sd_quiet : sd_st[p] = "ready" /\ sd_enter[p] # None => sd_enter[p] = sd_since[p]
  /\ \A c \in Core : sd_run[c] # c /\ sd_enter[c] # None => sd_enter[c] = sd_since[c]
  /\ sd_threshold.id # None => Accounted(sd_threshold.id)
  /\ sd_printer.at = "found" => sd_printer.id \in Pid /\ Accounted(sd_printer.id)

\* Every CPU idles at first and the maps of schedule_delay are empty.
LEMMA SdInit == Sd!Init => SdInv
<1>. SUFFICES ASSUME Sd!Init PROVE SdInv
  OBVIOUS
<1>. USE WatcherAssumption, NameAssumption DEF Sd!Init, Sd!ProcId
<1>1. 0 \in 0..(MaxClock - 2)
  OBVIOUS
<1>2. /\ sd_threshold \in [id : Sd!ProcId \cup {None}, delay : 0..(MaxClock - 2),
                           real : 0..(MaxClock - 2), quiet : BOOLEAN]
      /\ sd_threshold.id = None /\ sd_threshold.delay = sd_threshold.real
  BY <1>1 DEF Sd!NoWait
<1>3. sd_printer \in [at : {"loop", "found", "failed"}, id : Pid \cup {None}] /\ sd_printer.at = "loop"
  BY DEF Sd!Looping
<1>4. Sd!TypeOK
  BY <1>1, <1>2, <1>3 DEF Sd!TypeOK
<1>. QED
  BY <1>1, <1>2, <1>3, <1>4 DEF SdInv, Sd!WaitIsExact, Sd!FailsInFirstSwitchOnly

\* Every wake-up, switch, exit and step of the printer keeps SdInv.
LEMMA SdStep == SdInv /\ [Sd!Next]_sd => SdInv'
<1>. SUFFICES ASSUME SdInv, [Sd!Next]_sd PROVE SdInv'
  OBVIOUS
<1>. USE WatcherAssumption, NameAssumption DEF SdInv, Sd!TypeOK, Sd!WaitIsExact, Sd!FailsInFirstSwitchOnly,
       Sd!ProcId, Sd!sched, Sd!Alive, Accounted
<1>1. CASE Sd!Read
  BY <1>1 DEF Sd!Read
<1>2. CASE Sd!Lookup
  BY <1>2 DEF Sd!Lookup, Sd!Looping
<1>3. CASE Sd!SetFunc
  BY <1>3 DEF Sd!SetFunc
<1>4. CASE Sd!Tick
  BY <1>4 DEF Sd!Tick
<1>5. ASSUME NEW p \in Pid, Sd!Wakeup(p) PROVE SdInv'
  BY <1>5 DEF Sd!Wakeup, Sd!Entered
<1>6. ASSUME NEW p \in Pid, Sd!WakeupNew(p) PROVE SdInv'
  BY <1>6 DEF Sd!WakeupNew
<1>7. ASSUME NEW c \in Core, Sd!History(c) PROVE SdInv'
  <2>. USE <1>7 DEF Sd!History
  <2>1. \A i \in Sd!ProcId : Accounted(i) => Accounted(i)'
    OBVIOUS
  <2>2. Sd!TypeOK'
    <3>1. CASE sd_histories' = sd_histories \cup {sd_handler[c]} /\ UNCHANGED sd_refused
      BY <3>1
    <3>2. CASE sd_refused' = TRUE /\ UNCHANGED sd_histories
      BY <3>2
    <3>. QED
      BY <3>1, <3>2
  <2>. QED
    BY <2>1, <2>2
<1>8. ASSUME NEW c \in Core, Sd!Exit(c) PROVE SdInv'
  BY <1>8 DEF Sd!Exit
<1>9. ASSUME NEW c \in Core, NEW next \in Sd!ProcId, NEW to \in {"ready", "sleep", "dead"},
             Sd!SchedSwitch(c, next, to)
      PROVE  SdInv'
  <2>. DEFINE prev == sd_run[c]
              enter == IF to = "ready" THEN [sd_enter EXCEPT ![prev] = sd_clock] ELSE sd_enter
              wait == [id |-> next, delay |-> sd_clock - enter[next],
                       real |-> sd_clock - sd_since[next], quiet |-> next \in sd_quiet]
  <2>1. /\ sd_printer.at # "failed" /\ sd_handler[c] = None /\ next # prev
        /\ to = "ready" \/ prev \in Pid
        /\ next = c \/ (next \in Pid /\ sd_st[next] = "ready")
        /\ sd_run' = [sd_run EXCEPT ![c] = next]
        /\ sd_st' = [p \in Pid |-> IF p = prev THEN to ELSE IF p = next THEN "run" ELSE sd_st[p]]
        /\ sd_exiting' \subseteq sd_exiting
        /\ sd_since' = [i \in Sd!ProcId |-> IF i = next THEN 0
                           ELSE IF i = prev /\ to = "ready" THEN sd_clock ELSE sd_since[i]]
        /\ sd_enter' = enter
        /\ UNCHANGED <<sd_clock, sd_histories, sd_func, sd_printer, sd_quiet, sd_refused>>
    BY <1>9 DEF Sd!SchedSwitch, Sd!Leaves, Sd!Entered
  <2>2. \/ enter[next] = None /\ UNCHANGED <<sd_threshold, sd_handler>>
        \/ /\ enter[next] # None /\ sd_threshold' = wait
           /\ sd_handler' = [sd_handler EXCEPT ![c] = next]
    BY <1>9 DEF Sd!SchedSwitch, Sd!Entered, Sd!Delay
  <2>3. enter[next] = sd_enter[next] /\ prev \in Sd!ProcId /\ sd_clock \in 0..(MaxClock - 2)
    BY <2>1
  <2>4. /\ sd_enter' \in [Sd!ProcId -> (0..(MaxClock - 2)) \cup {None}]
        /\ \A i \in Sd!ProcId : /\ sd_enter'[i] = IF to = "ready" /\ i = prev THEN sd_clock ELSE sd_enter[i]
                                /\ sd_enter'[i] # None => sd_enter'[i] <= sd_clock
    BY <2>1, <2>3
  <2>5. /\ sd_since' \in [Sd!ProcId -> 0..(MaxClock - 2)]
        /\ \A i \in Sd!ProcId : sd_since'[i] <= sd_clock
    BY <2>1, <2>3
  <2>6. enter[next] # None =>
          /\ wait \in [id : Sd!ProcId \cup {None}, delay : 0..(MaxClock - 2),
                       real : 0..(MaxClock - 2), quiet : BOOLEAN]
          /\ ~wait.quiet => wait.delay = wait.real
    <3>. SUFFICES ASSUME enter[next] # None
                  PROVE  /\ wait \in [id : Sd!ProcId \cup {None}, delay : 0..(MaxClock - 2),
                                      real : 0..(MaxClock - 2), quiet : BOOLEAN]
                         /\ ~wait.quiet => wait.delay = wait.real
      OBVIOUS
    <3>1. enter[next] \in 0..(MaxClock - 2) /\ enter[next] <= sd_clock
      BY <2>3
    <3>2. sd_clock - enter[next] \in 0..(MaxClock - 2) /\ sd_clock - sd_since[next] \in 0..(MaxClock - 2)
      BY <3>1
    <3>3. next \notin sd_quiet => enter[next] = sd_since[next]
      BY <2>1, <2>3
    <3>4. wait.quiet <=> next \in sd_quiet
      OBVIOUS
    <3>5. wait.delay = sd_clock - enter[next] /\ wait.real = sd_clock - sd_since[next]
      OBVIOUS
    <3>6. wait \in [id : Sd!ProcId \cup {None}, delay : 0..(MaxClock - 2),
                    real : 0..(MaxClock - 2), quiet : BOOLEAN]
      <4>. HIDE DEF enter
      <4>. QED
        BY <3>2
    <3>. QED
      BY <3>3, <3>4, <3>5, <3>6
  <2>7. wait.id = next
    OBVIOUS
  <2>. HIDE DEF wait, enter
  <2>8. Sd!TypeOK'
    <3>1. sd_threshold' \in [id : Sd!ProcId \cup {None}, delay : 0..(MaxClock - 2),
                             real : 0..(MaxClock - 2), quiet : BOOLEAN]
      BY <2>2, <2>6
    <3>2. sd_st' \in [Pid -> {"sleep", "ready", "run", "dead"}] /\ sd_run' \in [Core -> Sd!ProcId]
      BY <2>1
    <3>3. sd_handler' \in [Core -> Sd!ProcId \cup {None}]
      BY <2>2
    <3>. QED
      BY <2>1, <2>4, <2>5, <3>1, <3>2, <3>3
  <2>9. Sd!WaitIsExact'
    BY <2>2, <2>6
  <2>10. Sd!FailsInFirstSwitchOnly'
    BY <2>1
  <2>11. \A i \in Sd!ProcId : Accounted(i) => Accounted(i)'
    BY <2>1, <2>2
  <2>12. sd_threshold'.id # None => Accounted(sd_threshold.id)'
    BY <2>2, <2>7, <2>11
  <2>13. \A p \in Pid \ sd_quiet' : sd_st'[p] = "ready" /\ sd_enter'[p] # None => sd_enter'[p] = sd_since'[p]
    BY <2>1, <2>4
  <2>14. \A d \in Core : sd_run'[d] # d /\ sd_enter'[d] # None => sd_enter'[d] = sd_since'[d]
    BY <2>1, <2>4
  <2>15. \A d \in Core : sd_run'[d] \in Pid \cup {d}
    BY <2>1
  <2>. QED
    BY <2>1, <2>4, <2>5, <2>8, <2>9, <2>10, <2>11, <2>12, <2>13, <2>14, <2>15
<1>10. CASE UNCHANGED sd
  BY <1>10 DEF sd
<1>. HIDE WatcherAssumption, NameAssumption DEF SdInv, Sd!TypeOK, Sd!WaitIsExact, Sd!FailsInFirstSwitchOnly,
       Sd!ProcId, Sd!sched, Sd!Alive, Accounted
<1>. QED
  BY <1>1, <1>2, <1>3, <1>4, <1>5, <1>6, <1>7, <1>8, <1>9, <1>10 DEF Sd!Next
-----------------------------------------------------------------------------
(* Mutexes. *)

\* The mutex in slot h of the table, 0 when it is free.
ptr(h) == mu_counts[h].ptr

\* A mutex has one slot at most, no slot before it on its path is free, and the slot
\* holds its count; a search goes round for ever only when no slot is free.
MuInv ==
  /\ Mu!TypeOK
  /\ \A g, h \in Mu!Slot : ptr(g) = ptr(h) /\ ptr(g) # 0 => g = h
  /\ \A h \in Mu!Slot : ptr(h) # 0 =>
       \E k \in Mu!Slot : h = Mu!Path(ptr(h), k) /\ \A j \in 0..(k - 1) : ptr(Mu!Path(ptr(h), j)) # 0
  /\ \A h \in Mu!Slot : mu_counts[h].count = IF ptr(h) = 0 THEN 0 ELSE mu_seen[ptr(h)]
  /\ \A p \in Ptr : mu_seen[p] > 0 <=> \E h \in Mu!Slot : ptr(h) = p
  /\ mu_hung => \A h \in Mu!Slot : ptr(h) # 0

\* The search for a mutex stays in the table.
LEMMA PathInTable ==
  ASSUME NEW p \in Ptr, NEW k \in Mu!Slot
  PROVE  Mu!Path(p, k) \in Mu!Slot
<1>1. p \in Nat /\ HASH_SIZE \in Nat \ {0} /\ k \in Nat
  BY WatcherAssumption DEF Mu!Slot
<1>2. p % HASH_SIZE \in 0..(HASH_SIZE - 1)
  BY <1>1
<1>3. (p % HASH_SIZE) + k \in Nat
  BY <1>1, <1>2
<1>4. ((p % HASH_SIZE) + k) % HASH_SIZE \in 0..(HASH_SIZE - 1)
  BY <1>1, <1>3
<1>. QED
  BY <1>4 DEF Mu!Path, Mu!hash, Mu!Slot

\* The path of a mutex visits every slot.
LEMMA PathCovers ==
  ASSUME NEW p \in Ptr, NEW h \in Mu!Slot
  PROVE  \E k \in Mu!Slot : Mu!Path(p, k) = h
<1>. DEFINE r == p % HASH_SIZE
<1>1. p \in Nat /\ HASH_SIZE \in Nat \ {0} /\ h \in 0..(HASH_SIZE - 1)
  BY WatcherAssumption DEF Mu!Slot
<1>2. r \in 0..(HASH_SIZE - 1)
  BY <1>1
<1>. HIDE DEF r
<1>3. h % HASH_SIZE = h /\ (h + HASH_SIZE) % HASH_SIZE = h
  BY <1>1
<1>4. CASE r <= h
  <2>1. h - r \in Mu!Slot /\ r + (h - r) = h
    BY <1>1, <1>2, <1>4 DEF Mu!Slot
  <2>. QED
    BY <1>3, <2>1 DEF Mu!Path, Mu!hash, r
<1>5. CASE r > h
  <2>1. h + HASH_SIZE - r \in Mu!Slot /\ r + (h + HASH_SIZE - r) = h + HASH_SIZE
    BY <1>1, <1>2, <1>5 DEF Mu!Slot
  <2>. QED
    BY <1>3, <2>1 DEF Mu!Path, Mu!hash, r
<1>. QED
  BY <1>1, <1>2, <1>4, <1>5

\* A set of natural numbers that has a member has a least one.
LEMMA LeastOf ==
  ASSUME NEW T \in SUBSET Nat, T # {}
  PROVE  \E k \in T : \A j \in T : k <= j
<1>1. PICK k \in T : \A j \in T : ~(<<j, k>> \in OpToRel(<, Nat))
  BY NatLessThanWellFounded, WFMin
<1>2. \A j \in T : ~(j < k)
  BY <1>1 DEF OpToRel
<1>. QED
  BY <1>2

\* A search that ends does so at the first slot that is free or the mutex's own.
LEMMA FoundIsFirst ==
  ASSUME NEW p \in Ptr, Mu!Finds(p)
  PROVE  \E k \in Mu!Slot : /\ Mu!Found(p) = Mu!Path(p, k) /\ ptr(Mu!Path(p, k)) \in {0, p}
                            /\ \A j \in 0..(k - 1) : ptr(Mu!Path(p, j)) \notin {0, p}
<1>. DEFINE First(k) == Mu!Ends(p, k) /\ \A j \in 0..(k - 1) : ~Mu!Ends(p, j)
            T == {k \in Mu!Slot : Mu!Ends(p, k)}
<1>1. HASH_SIZE \in Nat
  BY WatcherAssumption
<1>2. T \in SUBSET Nat /\ T # {}
  BY <1>1 DEF Mu!Slot, Mu!Finds
<1>3. PICK k \in T : \A j \in T : k <= j
  BY <1>2, LeastOf
<1>4. \A j \in 0..(k - 1) : j \in Mu!Slot /\ j < k
  BY <1>1, <1>3 DEF Mu!Slot
<1>5. k \in Mu!Slot /\ First(k)
  BY <1>2, <1>3, <1>4
<1>6. (CHOOSE i \in Mu!Slot : First(i)) \in Mu!Slot /\ First(CHOOSE i \in Mu!Slot : First(i))
  BY <1>5
<1>7. Mu!Found(p) = Mu!Path(p, CHOOSE i \in Mu!Slot : First(i))
  BY DEF Mu!Found
<1>. QED
  BY <1>6, <1>7 DEF Mu!Ends, ptr

\* It finds the mutex wherever it is in the table.
LEMMA FoundIsRight ==
  ASSUME MuInv, NEW p \in Ptr, Mu!Finds(p)
  PROVE  /\ Mu!Found(p) \in Mu!Slot /\ ptr(Mu!Found(p)) \in {0, p}
         /\ ptr(Mu!Found(p)) = 0 => mu_seen[p] = 0
<1>1. PICK k \in Mu!Slot : /\ Mu!Found(p) = Mu!Path(p, k) /\ ptr(Mu!Path(p, k)) \in {0, p}
                           /\ \A j \in 0..(k - 1) : ptr(Mu!Path(p, j)) \notin {0, p}
  BY FoundIsFirst
<1>2. ASSUME NEW h \in Mu!Slot, ptr(h) = p, ptr(Mu!Path(p, k)) = 0 PROVE FALSE
  <2>1. p # 0 /\ HASH_SIZE \in Nat
    BY WatcherAssumption
  <2>2. PICK i \in Mu!Slot : h = Mu!Path(p, i) /\ \A j \in 0..(i - 1) : ptr(Mu!Path(p, j)) # 0
    BY <1>2, <2>1 DEF MuInv
  <2>3. k \in Int /\ i \in Int /\ 0 <= k /\ 0 <= i
    BY <2>1 DEF Mu!Slot
  <2>4. k \notin 0..(i - 1) /\ i \notin 0..(k - 1) /\ i # k
    BY <1>1, <1>2, <2>1, <2>2
  <2>. QED
    BY <2>3, <2>4
<1>3. mu_seen[p] \in Nat
  BY WatcherAssumption DEF MuInv, Mu!TypeOK
<1>4. ptr(Mu!Path(p, k)) = 0 => ~(mu_seen[p] > 0)
  BY <1>2 DEF MuInv
<1>. QED
  BY <1>1, <1>3, <1>4, PathInTable

\* The table is zeroed at first.
LEMMA MuInit == Mu!Init => MuInv
<1>. SUFFICES ASSUME Mu!Init PROVE MuInv
  OBVIOUS
<1>1. \A h \in Mu!Slot : ptr(h) = 0 /\ mu_counts[h].count = 0
  BY DEF Mu!Init, ptr
<1>2. \A p \in Ptr : mu_seen[p] = 0 /\ p # 0
  BY WatcherAssumption DEF Mu!Init
<1>3. Mu!TypeOK
  <2>1. [ptr |-> 0, count |-> 0] \in [ptr : Ptr \cup {0}, count : Nat]
    OBVIOUS
  <2>2. mu_counts \in [Mu!Slot -> [ptr : Ptr \cup {0}, count : Nat]]
    BY <2>1 DEF Mu!Init
  <2>3. mu_seen \in [Ptr -> 0..MaxLocks]
    BY WatcherAssumption DEF Mu!Init
  <2>. QED
    BY <2>2, <2>3 DEF Mu!Init, Mu!TypeOK
<1>4. ~mu_hung
  BY DEF Mu!Init
<1>5. \A p \in Ptr : ~(mu_seen[p] > 0) /\ ~\E h \in Mu!Slot : ptr(h) = p
  BY <1>1, <1>2
<1>. QED
  BY <1>1, <1>3, <1>4, <1>5 DEF MuInv

\* increment_lock_count keeps MuInv: a new mutex goes to the first free slot of its path.
LEMMA MuStep == MuInv /\ [Mu!Next]_mu => MuInv'
<1>. SUFFICES ASSUME MuInv, [Mu!Next]_mu PROVE MuInv'
  OBVIOUS
<1>1. ASSUME NEW p \in Ptr, Mu!Count(p), Mu!Finds(p) PROVE MuInv'
  <2>. DEFINE h == Mu!Found(p)
              new(g) == mu_counts'[g].ptr
  <2>1. /\ h \in Mu!Slot /\ ptr(h) \in {0, p} /\ (ptr(h) = 0 => mu_seen[p] = 0)
    BY <1>1, FoundIsRight
  <2>2. PICK k \in Mu!Slot : h = Mu!Path(p, k) /\ \A j \in 0..(k - 1) : ptr(Mu!Path(p, j)) \notin {0, p}
    BY <1>1, FoundIsFirst
  <2>3. /\ ~mu_hung /\ mu_seen[p] < MaxLocks /\ mu_hung' = FALSE
        /\ mu_counts' = [mu_counts EXCEPT ![h] = [ptr |-> p, count |-> mu_counts[h].count + 1]]
        /\ mu_seen' = [mu_seen EXCEPT ![p] = mu_seen[p] + 1]
    BY <1>1 DEF Mu!Count
  <2>. HIDE DEF h
  <2>4. /\ mu_counts \in [Mu!Slot -> [ptr : Ptr \cup {0}, count : Nat]]
        /\ mu_seen \in [Ptr -> 0..MaxLocks] /\ MaxLocks \in Nat /\ p # 0
    BY WatcherAssumption DEF MuInv, Mu!TypeOK
  <2>5. [ptr |-> p, count |-> mu_counts[h].count + 1] \in [ptr : Ptr \cup {0}, count : Nat]
    BY <2>1, <2>4
  <2>6. Mu!TypeOK'
    <3>1. \A R : mu_counts \in [Mu!Slot -> R] /\ [ptr |-> p, count |-> mu_counts[h].count + 1] \in R =>
                   mu_counts' \in [Mu!Slot -> R]
      BY <2>1, <2>3
    <3>2. mu_counts' \in [Mu!Slot -> [ptr : Ptr \cup {0}, count : Nat]]
      BY <2>4, <2>5, <3>1
    <3>3. mu_seen' \in [Ptr -> 0..MaxLocks]
      BY <2>3, <2>4
    <3>. QED
      BY <2>3, <3>2, <3>3 DEF Mu!TypeOK
  <2>7. /\ \A g \in Mu!Slot : /\ new(g) = IF g = h THEN p ELSE ptr(g)
                              /\ mu_counts'[g].count = IF g = h THEN mu_counts[h].count + 1 ELSE mu_counts[g].count
        /\ \A q \in Ptr : mu_seen'[q] = IF q = p THEN mu_seen[p] + 1 ELSE mu_seen[q]
    BY <2>1, <2>3, <2>4 DEF ptr
  <2>. HIDE DEF new
  <2>8. mu_counts[h].count = mu_seen[p] /\ \A g \in Mu!Slot \ {h} : ptr(g) # p
    BY <2>1, <2>4 DEF MuInv
  <2>9. \A g \in Mu!Slot : ptr(g) # 0 => new(g) = ptr(g)
    BY <2>1, <2>7
  <2>10. ASSUME NEW g \in Mu!Slot, new(g) # 0
         PROVE  \E i \in Mu!Slot : /\ g = Mu!Path(new(g), i)
                                   /\ \A j \in 0..(i - 1) : new(Mu!Path(new(g), j)) # 0
    <3>1. \A i \in Mu!Slot : \A j \in 0..(i - 1) : j \in Mu!Slot
      BY WatcherAssumption DEF Mu!Slot
    <3>2. CASE g = h
      <4>1. \A j \in 0..(k - 1) : new(Mu!Path(p, j)) # 0
        BY <2>2, <2>9, <3>1, PathInTable
      <4>. QED
        BY <2>2, <2>7, <3>2, <4>1
    <3>3. CASE g # h
      <4>1. new(g) = ptr(g) /\ ptr(g) # 0 /\ ptr(g) \in Ptr
        BY <2>7, <2>10, <3>3, <2>4 DEF ptr
      <4>2. PICK i \in Mu!Slot : g = Mu!Path(ptr(g), i) /\ \A j \in 0..(i - 1) : ptr(Mu!Path(ptr(g), j)) # 0
        BY <4>1 DEF MuInv
      <4>3. \A j \in 0..(i - 1) : new(Mu!Path(ptr(g), j)) # 0
        BY <2>9, <3>1, <4>1, <4>2, PathInTable
      <4>. QED
        BY <4>1, <4>2, <4>3
    <3>. QED
      BY <3>2, <3>3
  <2>11. \A f, g \in Mu!Slot : new(f) = new(g) /\ new(f) # 0 => f = g
    BY <2>7, <2>8 DEF MuInv
  <2>12. \A g \in Mu!Slot : mu_counts'[g].count = IF new(g) = 0 THEN 0 ELSE mu_seen'[new(g)]
    <3>. SUFFICES ASSUME NEW g \in Mu!Slot
                  PROVE mu_counts'[g].count = IF new(g) = 0 THEN 0 ELSE mu_seen'[new(g)]
      OBVIOUS
    <3>1. ptr(g) = 0 \/ ptr(g) \in Ptr
      BY <2>4 DEF ptr
    <3>2. mu_counts[g].count = IF ptr(g) = 0 THEN 0 ELSE mu_seen[ptr(g)]
      BY DEF MuInv
    <3>. QED
      BY <2>4, <2>7, <2>8, <3>1, <3>2
  <2>13. \A q \in Ptr : mu_seen'[q] > 0 <=> \E g \in Mu!Slot : new(g) = q
    <3>. SUFFICES ASSUME NEW q \in Ptr PROVE mu_seen'[q] > 0 <=> \E g \in Mu!Slot : new(g) = q
      OBVIOUS
    <3>1. CASE q = p
      BY <2>1, <2>4, <2>7, <3>1
    <3>2. CASE q # p
      <4>1. mu_seen[q] > 0 <=> \E g \in Mu!Slot : ptr(g) = q
        BY DEF MuInv
      <4>2. q # 0
        BY WatcherAssumption
      <4>. QED
        BY <2>1, <2>7, <3>2, <4>1, <4>2
    <3>. QED
      BY <3>1, <3>2
  <2>. QED
    BY <2>3, <2>6, <2>10, <2>11, <2>12, <2>13 DEF MuInv, ptr, new
<1>2. ASSUME NEW p \in Ptr, Mu!Count(p), ~Mu!Finds(p) PROVE MuInv'
  <2>1. UNCHANGED <<mu_counts, mu_seen>> /\ mu_hung' = TRUE
    BY <1>2 DEF Mu!Count
  <2>2. \A h \in Mu!Slot : ptr(h) # 0
    BY <1>2, PathCovers DEF Mu!Finds, Mu!Ends, ptr
  <2>. QED
    BY <2>1, <2>2 DEF MuInv, Mu!TypeOK, ptr
<1>3. CASE UNCHANGED mu
  BY <1>3 DEF mu, MuInv, Mu!TypeOK, ptr
<1>. QED
  BY <1>1, <1>2, <1>3 DEF Mu!Next

\* With MuInv a search that ends is at the mutex's own slot, or there is none and it has no
\* count, and only a full table keeps a search from ending.
LEMMA MuSafe == MuInv => Mu!TypeOK /\ Mu!CountIsExact /\ Mu!HangsOnlyWhenFull
<1>. SUFFICES ASSUME MuInv PROVE Mu!TypeOK /\ Mu!CountIsExact /\ Mu!HangsOnlyWhenFull
  OBVIOUS
<1>1. ASSUME NEW p \in Ptr, Mu!Finds(p) PROVE Mu!Get(p) = mu_seen[p]
  <2>1. /\ Mu!Found(p) \in Mu!Slot /\ ptr(Mu!Found(p)) \in {0, p}
        /\ ptr(Mu!Found(p)) = 0 => mu_seen[p] = 0
    BY <1>1, FoundIsRight
  <2>. QED
    BY <2>1 DEF MuInv, Mu!Get, ptr
<1>2. ASSUME mu_hung PROVE Mu!Cardinality({p \in Ptr : mu_seen[p] > 0}) = HASH_SIZE
  <2>. DEFINE S == 0..(HASH_SIZE - 1)
              T == {p \in Ptr : mu_seen[p] > 0}
              f == [h \in S |-> ptr(h)]
  <2>1. \A h \in S : ptr(h) \in T
    BY <1>2 DEF MuInv, Mu!TypeOK, Mu!Slot, ptr
  <2>2. f \in Bijection(S, T)
    <3>1. f \in [S -> T]
      BY <2>1
    <3>2. \A g, h \in S : f[g] = f[h] => g = h
      BY <1>2 DEF MuInv, Mu!Slot
    <3>3. \A p \in T : \E h \in S : f[h] = p
      BY DEF MuInv, Mu!Slot
    <3>. QED
      BY <3>1, <3>2, <3>3, Fun_IsBij
  <2>3. IsFiniteSet(S) /\ Cardinality(S) = HASH_SIZE
    BY FS_Interval, WatcherAssumption
  <2>4. Cardinality(T) = HASH_SIZE
    <3>. HIDE DEF S, T, f
    <3>. QED
      BY <2>2, <2>3, FS_Bijection DEF ExistsBijection
  <2>. QED
    BY <2>4 DEF Mu!Cardinality, Cardinality
<1>. QED
  BY <1>1, <1>2 DEF MuInv, Mu!CountIsExact, Mu!HangsOnlyWhenFull
-----------------------------------------------------------------------------
(* Meters. *)

\* A stint under way finds its own begin, or a later one of a CPU that shares its key; the
\* sum about to be written is that of what was read and the stint, or less.
Under(c) ==
  LET k == sm_cpu[c].key IN
  /\ k \in Sm!Key /\ sm_cpu[c].since <= sm_clock
  /\ sm_start[k] # None => /\ sm_cpu[c].since <= sm_start[k]
                           /\ "shared" \notin sm_spoilt => sm_start[k] = sm_cpu[c].since
Adding(c) ==
  LET a == sm_cpu[c] IN
  /\ a.old <= a.sum /\ a.sum <= a.old + a.since /\ a.old <= sm_real
  /\ sm_spoilt = {} => a.sum = a.old + a.since
  /\ sm_total = None => a.old = 0

\* The total lags behind the time of the ended stints, exactly so when nothing was spoilt.
SmInv ==
  /\ Sm!TypeOK /\ Sm!TotalIsExact /\ Sm!FigureIsOfItsInterval
  /\ \A k \in Sm!Key : sm_start[k] # None => sm_start[k] <= sm_clock /\ k \notin Far
  /\ \A c \in Cpu : (sm_cpu[c].at = "in" => Under(c)) /\ (sm_cpu[c].at = "add" => Adding(c))
  /\ Sm!Total <= sm_real
  /\ sm_enabled /\ sm_spoilt = {} => sm_seen = sm_base
  /\ "raced" \notin sm_spoilt => sm_seen <= Sm!Total

\* A CPU outside every stint has a value of its type.
LEMMA OutStint == Sm!Out \in Sm!Stint /\ Sm!Out.at = "out"
BY DEF Sm!Out, Sm!Stint

\* A CPU that begins a stint has a value of its type.
LEMMA InStint ==
  ASSUME NEW k \in Sm!Key, NEW t \in Nat
  PROVE  /\ Sm!In(k, t) \in Sm!Stint
         /\ Sm!In(k, t).at = "in" /\ Sm!In(k, t).key = k /\ Sm!In(k, t).since = t
BY DEF Sm!In, Sm!Stint

\* No time has been added at first, and the figures of sar are zero.
LEMMA SmInit == Sm!Init => SmInv
<1>. SUFFICES ASSUME Sm!Init PROVE SmInv
  OBVIOUS
<1>. USE WatcherAssumption, NameAssumption
<1>1. \A c \in Cpu : sm_cpu[c] = Sm!Out \/ \E k \in Sm!Key : sm_cpu[c] = Sm!In(k, 0)
  BY DEF Sm!Init
<1>2. sm_cpu \in [Cpu -> Sm!Stint]
  BY OutStint, InStint DEF Sm!Init
<1>3. /\ \A k \in Sm!Key : sm_start[k] \in {0, None} /\ (sm_start[k] # None => k \notin Far)
      /\ sm_start \in [Sm!Key -> Nat \cup {None}]
  BY DEF Sm!Init
<1>4. /\ sm_total \in {0, None} /\ sm_seen = 0 /\ sm_figure = None /\ sm_enabled = FALSE
      /\ sm_alive = TRUE /\ sm_real = 0 /\ sm_base = 0 /\ sm_spoilt = {} /\ sm_clock = Boot
      /\ sm_kind \in {"idle", "softirq", "irq", "thread"}
  BY DEF Sm!Init
<1>5. Sm!Total = 0
  BY <1>4 DEF Sm!Total
<1>6. \A c \in Cpu : (sm_cpu[c].at = "in" => Under(c)) /\ sm_cpu[c].at # "add"
  <2>. SUFFICES ASSUME NEW c \in Cpu PROVE (sm_cpu[c].at = "in" => Under(c)) /\ sm_cpu[c].at # "add"
    OBVIOUS
  <2>1. CASE sm_cpu[c] = Sm!Out
    BY <2>1, OutStint
  <2>2. ASSUME NEW k \in Sm!Key, sm_cpu[c] = Sm!In(k, 0) PROVE Under(c) /\ sm_cpu[c].at = "in"
    <3>1. sm_cpu[c].at = "in" /\ sm_cpu[c].key = k /\ sm_cpu[c].since = 0
      BY <2>2, InStint
    <3>. QED
      BY <1>3, <1>4, <3>1 DEF Under
  <2>. QED
    BY <1>1, <2>1, <2>2
<1>7. Sm!TypeOK
  <2>1. sm_clock \in Boot..(Boot + MaxClock - 1)
    BY <1>4
  <2>2. sm_total \in Nat \cup {None}
    BY <1>4
  <2>. QED
    BY <1>2, <1>3, <1>4, <2>1, <2>2 DEF Sm!TypeOK
<1>8. Sm!TotalIsExact /\ Sm!FigureIsOfItsInterval
  BY <1>4, <1>5 DEF Sm!TotalIsExact, Sm!FigureIsOfItsInterval
<1>. QED
  BY <1>3, <1>4, <1>5, <1>6, <1>7, <1>8 DEF SmInv

\* Every begin and end of a stint, with its race on the shared total, and every look of sar
\* keep SmInv.
LEMMA SmStep == SmInv /\ [Sm!Next]_sm => SmInv'
<1>. SUFFICES ASSUME SmInv, [Sm!Next]_sm PROVE SmInv'
  OBVIOUS
<1>. USE WatcherAssumption, NameAssumption
<1>. USE DEF SmInv, Sm!TypeOK, Sm!TotalIsExact, Sm!FigureIsOfItsInterval, Sm!Total
<1>1. CASE Sm!Tick
  BY <1>1 DEF Sm!Tick, Under, Adding, Sm!Stint
<1>2. CASE Sm!Look
  <2>1. UNCHANGED <<sm_kind, sm_clock, sm_cpu, sm_start, sm_total, sm_real, sm_spoilt>>
    BY <1>2 DEF Sm!Look
  <2>2. \A c \in Cpu : (sm_cpu'[c].at = "in" => Under(c)') /\ (sm_cpu'[c].at = "add" => Adding(c)')
    BY <2>1 DEF Under, Adding
  <2>3. CASE sm_total = None
    <3>1. sm_alive' = FALSE /\ sm_figure' = None /\ UNCHANGED <<sm_seen, sm_enabled, sm_base>>
      BY <1>2, <2>3 DEF Sm!Look
    <3>2. Sm!TypeOK'
      BY <2>1, <3>1
    <3>3. Sm!TotalIsExact' /\ Sm!FigureIsOfItsInterval'
      BY <2>1, <3>1
    <3>. QED
      BY <2>1, <2>2, <3>1, <3>2, <3>3
  <2>4. CASE sm_total # None
    <3>1. /\ sm_seen' = sm_total /\ sm_base' = sm_real /\ sm_enabled' = TRUE /\ sm_alive' = sm_alive
          /\ sm_figure' = IF sm_enabled THEN [shown |-> sm_total - sm_seen, real |-> sm_real - sm_base] ELSE None
      BY <1>2, <2>4 DEF Sm!Look, Sm!Seen
    <3>2. sm_total \in Nat /\ Sm!Total = sm_total
      BY <2>4
    <3>3. sm_figure' # None => /\ sm_enabled /\ sm_figure'.shown = sm_total - sm_seen
                               /\ sm_figure'.real = sm_real - sm_base
      BY <3>1
    <3>4. Sm!FigureIsOfItsInterval'
      BY <2>1, <3>2, <3>3
    <3>. QED
      BY <2>1, <2>2, <3>1, <3>2, <3>4
  <2>. QED
    BY <2>3, <2>4
<1>3. ASSUME NEW c \in Cpu, NEW k \in Sm!Key, Sm!Begin(c, k) PROVE SmInv'
  <2>. DEFINE new == Sm!In(k, sm_clock)
  <2>1. /\ sm_cpu' = [sm_cpu EXCEPT ![c] = new]
        /\ sm_start' = IF k \in Far THEN sm_start ELSE [sm_start EXCEPT ![k] = sm_clock]
        /\ sm_spoilt' = IF Sm!Busy(k) THEN sm_spoilt \cup {"shared"} ELSE sm_spoilt
        /\ sm_figure' = None
        /\ UNCHANGED <<sm_kind, sm_clock, sm_total, sm_seen, sm_enabled, sm_alive, sm_real, sm_base>>
    BY <1>3 DEF Sm!Begin, Sm!Noted
  <2>2. sm_clock \in Nat
    OBVIOUS
  <2>3. new \in Sm!Stint /\ new.at = "in" /\ new.key = k /\ new.since = sm_clock
    BY <2>2, InStint
  <2>. HIDE DEF new
  <2>4. Sm!TypeOK'
    BY <2>1, <2>2, <2>3
  <2>5. \A i \in Sm!Key : sm_start'[i] # None => sm_start'[i] <= sm_clock' /\ i \notin Far
    BY <2>1
  <2>6. ASSUME NEW d \in Cpu, sm_cpu'[d].at = "in" PROVE Under(d)'
    <3>1. CASE d = c
      <4>1. sm_cpu'[d].key = k /\ sm_cpu'[d].since = sm_clock
        BY <2>1, <2>3, <3>1
      <4>2. sm_start'[k] # None => sm_start'[k] = sm_clock
        BY <2>1, <2>5
      <4>. QED
        BY <2>1, <2>2, <4>1, <4>2 DEF Under
    <3>2. CASE d # c
      <4>1. sm_cpu'[d] = sm_cpu[d] /\ Under(d) /\ sm_cpu[d].since \in Nat
        BY <2>1, <2>6, <3>2 DEF Sm!Stint
      <4>2. CASE sm_cpu[d].key = k
        <5>1. "shared" \in sm_spoilt'
          BY <2>1, <4>2 DEF Sm!Busy
        <5>. QED
          BY <2>1, <2>2, <4>1, <4>2, <5>1 DEF Under
      <4>3. CASE sm_cpu[d].key # k
        BY <2>1, <4>1, <4>3 DEF Under
      <4>. QED
        BY <4>2, <4>3
    <3>. QED
      BY <3>1, <3>2
  <2>7. ASSUME NEW d \in Cpu, sm_cpu'[d].at = "add" PROVE Adding(d)'
    BY <2>1, <2>3, <2>7 DEF Adding
  <2>. QED
    BY <2>1, <2>4, <2>5, <2>6, <2>7
<1>4. ASSUME NEW c \in Cpu, Sm!End(c), Sm!Counts(sm_cpu[c].key) PROVE SmInv'
  <2>. DEFINE k == sm_cpu[c].key
              old == Sm!Total
              new == [at |-> "add", key |-> k, since |-> sm_clock - sm_cpu[c].since,
                      old |-> old, sum |-> old + (sm_clock - sm_start[k])]
  <2>1. /\ sm_cpu[c].at = "in" /\ sm_start[k] # None
        /\ sm_cpu' = [sm_cpu EXCEPT ![c] = new]
        /\ sm_spoilt \subseteq sm_spoilt' /\ sm_spoilt' \subseteq sm_spoilt \cup {"before"}
        /\ sm_figure' = None
        /\ UNCHANGED <<sm_kind, sm_clock, sm_start, sm_total, sm_seen, sm_enabled, sm_alive, sm_real, sm_base>>
    BY <1>4 DEF Sm!End, Sm!Counts
  <2>2. /\ k \in Sm!Key /\ sm_start[k] \in Nat /\ sm_cpu[c].since \in Nat /\ sm_clock \in Nat
        /\ sm_cpu[c].since <= sm_start[k] /\ sm_start[k] <= sm_clock
        /\ "shared" \notin sm_spoilt => sm_start[k] = sm_cpu[c].since
    BY <2>1 DEF Under, Sm!Stint
  <2>3. old \in Nat /\ old <= sm_real /\ (sm_total = None => old = 0)
    OBVIOUS
  <2>. HIDE DEF old
  <2>4. /\ sm_clock - sm_cpu[c].since \in Nat /\ sm_clock - sm_start[k] \in Nat
        /\ old + (sm_clock - sm_start[k]) \in Nat
        /\ sm_clock - sm_start[k] <= sm_clock - sm_cpu[c].since
    BY <2>2, <2>3
  <2>5. /\ new \in Sm!Stint /\ new.at = "add" /\ new.since = sm_clock - sm_cpu[c].since
        /\ new.old = old /\ new.sum = old + (sm_clock - sm_start[k])
    BY <2>2, <2>3, <2>4 DEF Sm!Stint
  <2>. HIDE DEF new, k
  <2>6. Sm!TypeOK'
    BY <2>1, <2>5
  <2>7. ASSUME NEW d \in Cpu, sm_cpu'[d].at = "in" PROVE Under(d)'
    BY <2>1, <2>5, <2>7 DEF Under
  <2>8. ASSUME NEW d \in Cpu, sm_cpu'[d].at = "add" PROVE Adding(d)'
    <3>1. CASE d = c
      BY <2>1, <2>2, <2>3, <2>4, <2>5, <3>1 DEF Adding
    <3>2. CASE d # c
      BY <2>1, <2>8, <3>2 DEF Adding
    <3>. QED
      BY <3>1, <3>2
  <2>. QED
    BY <2>1, <2>6, <2>7, <2>8
<1>5. ASSUME NEW c \in Cpu, Sm!End(c), ~Sm!Counts(sm_cpu[c].key) PROVE SmInv'
  BY <1>5, OutStint DEF Sm!End, Under, Adding
<1>6. ASSUME NEW c \in Cpu, Sm!Add(c) PROVE SmInv'
  <2>1. /\ sm_cpu[c].at = "add" /\ sm_total' = sm_cpu[c].sum /\ sm_real' = sm_real + sm_cpu[c].since
        /\ sm_spoilt' = IF sm_total \in {None, sm_cpu[c].old} THEN sm_spoilt ELSE sm_spoilt \cup {"raced"}
        /\ sm_cpu' = [sm_cpu EXCEPT ![c] = Sm!Out] /\ sm_figure' = None
        /\ UNCHANGED <<sm_kind, sm_clock, sm_start, sm_seen, sm_enabled, sm_alive, sm_base>>
    BY <1>6 DEF Sm!Add
  <2>2. sm_cpu[c].sum \in Nat /\ sm_cpu[c].since \in Nat /\ sm_cpu[c].old \in Nat
    BY DEF Sm!Stint
  <2>3. Adding(c)
    BY <2>1
  <2>4. Sm!TypeOK'
    BY <2>1, <2>2, OutStint
  <2>5. "raced" \notin sm_spoilt' => sm_spoilt' = sm_spoilt /\ sm_cpu[c].old = Sm!Total
    BY <2>1, <2>3 DEF Adding
  <2>6. sm_total' = Sm!Total' /\ Sm!Total \in Nat /\ sm_real \in Nat
    BY <2>1, <2>2
  <2>7. /\ sm_spoilt' = {} => Sm!Total' = sm_real'
        /\ Sm!Total' <= sm_real'
        /\ "raced" \notin sm_spoilt' => sm_seen' <= Sm!Total'
    BY <2>1, <2>2, <2>3, <2>5, <2>6 DEF Adding
  <2>8. ASSUME NEW d \in Cpu, sm_cpu'[d].at = "in" PROVE Under(d)'
    BY <2>1, <2>8, OutStint DEF Under
  <2>9. ASSUME NEW d \in Cpu, sm_cpu'[d].at = "add" PROVE Adding(d)'
    <3>1. d # c /\ sm_cpu'[d] = sm_cpu[d] /\ Adding(d) /\ sm_cpu[d].old \in Nat
      BY <2>1, <2>9, OutStint DEF Sm!Stint
    <3>2. sm_real <= sm_real' /\ sm_total' # None /\ sm_spoilt \subseteq sm_spoilt'
      BY <2>1, <2>2
    <3>. QED
      BY <2>1, <2>2, <3>1, <3>2 DEF Adding
  <2>. QED
    BY <2>1, <2>4, <2>7, <2>8, <2>9
<1>7. CASE UNCHANGED sm
  BY <1>7 DEF sm, Under, Adding
<1>. QED
  BY <1>1, <1>2, <1>3, <1>4, <1>5, <1>6, <1>7 DEF Sm!Next
-----------------------------------------------------------------------------
(* Message queues. *)

\* The messages a receiver may still get, and the tasks that hold a message that is gone:
\* senders that have not returned, and receivers.
Live == mq_queue \cup {mq_task[t].msg : t \in {u \in Task : mq_task[u].at = "loaded"}}
Sent   == {t \in Task : mq_task[t].at = "sent" /\ mq_task[t].msg # None}
Stored == {t \in Task : mq_task[t].at = "stored" /\ mq_task[t].msg # None}

\* The receiver t may be given the record of another message.
Doubtful(t) == mq_task[t].call \in mq_reused \/ mq_task[t].msg.call \in mq_reused

InCall(m) == mq_task[m.from].at # "idle" /\ mq_task[m.from].call = m.call

\* The record of message m.
Rec(m) == [send_pid |-> m.from, enter |-> m.call, exit |-> IF InCall(m) THEN 0 ELSE m.call, key |-> m.addr]

\* A message belongs to one call of its sender.
CallOK(t) ==
  /\ mq_task[t].call <= mq_calls
  /\ mq_task[t].at # "idle" => mq_task[t].call \in Mq!Number
  /\ mq_task[t].at \in {"sending", "receiving"} => mq_task[t].msg = None
  /\ mq_task[t].at = "loaded" => mq_task[t].msg # None /\ mq_task[t].msg \notin mq_queue
  /\ mq_task[t].at \in {"loaded", "sent"} /\ mq_task[t].msg # None =>
       mq_task[t].msg.from = t /\ mq_task[t].msg.call = mq_task[t].call
LiveOK(m) ==
  /\ m.call <= mq_calls
  /\ InCall(m) => mq_task[m.from].at \in {"loaded", "sent"} /\ mq_task[m.from].msg = m
StoredOK(t) ==
  LET m == mq_task[t].msg IN
  m.call <= mq_calls /\ (InCall(m) => mq_task[m.from].at = "sent" /\ mq_task[m.from].msg = m)
Calls ==
  /\ \A t \in Task : CallOK(t)
  /\ \A m \in Live : LiveOK(m)
  /\ \A t \in Stored : StoredOK(t)

\* Two messages with one address: reused has the calls that matter.
Addresses ==
  /\ \A m, n \in Live : m.addr = n.addr => m = n
  /\ \A m \in Live, t \in Stored : mq_task[t].msg.addr = m.addr =>
       m.call \in mq_reused /\ mq_task[t].call \in mq_reused
  /\ \A m \in Live, t \in Sent : mq_task[t].msg.addr = m.addr =>
       mq_task[t].msg = m \/ m.call \in mq_reused
  /\ \A t, u \in Stored : t # u /\ mq_task[t].msg.addr = mq_task[u].msg.addr => Doubtful(t)
  /\ \A t \in Stored, u \in Sent : mq_task[t].msg.addr = mq_task[u].msg.addr =>
       mq_task[t].msg = mq_task[u].msg \/ Doubtful(t)

\* What the maps hold of the calls under way.
Entries ==
  /\ \A t \in Task :
       /\ ~mq_refused /\ mq_task[t].at \in {"sending", "loaded", "sent"} =>
            mq_send1[t] = [send_pid |-> t, enter |-> mq_task[t].call, exit |-> 0,
                           key |-> IF mq_task[t].msg = None THEN None ELSE mq_task[t].msg.addr]
       /\ mq_task[t].at = "receiving" =>
            /\ mq_rcv1[t] # None => mq_rcv1[t].key = None
            /\ ~mq_refused => mq_rcv1[t] # None
       /\ mq_task[t].at = "stored" /\ mq_rcv1[t] # None =>
            \/ mq_rcv1[t].key = None
            \/ mq_task[t].msg # None /\ mq_rcv1[t].key = mq_task[t].msg.addr

\* The record of a message waits under its address.
Records ==
  ~mq_refused =>
    /\ \A m \in Live : m.call \in mq_reused \/ mq_send2[m.addr] = Rec(m)
    /\ \A t \in Stored : \/ Doubtful(t)
                         \/ /\ mq_rcv1[t] # None /\ mq_rcv1[t].key = mq_task[t].msg.addr
                            /\ mq_send2[mq_task[t].msg.addr] = Rec(mq_task[t].msg)

MqInv == Mq!TypeOK /\ Mq!EventIsOfItsMessage /\ Calls /\ Addresses /\ Entries /\ Records


\* No call is under way at first, and the maps and the queue are empty.
LEMMA MqInit == Mq!Init => MqInv
<1>. SUFFICES ASSUME Mq!Init PROVE MqInv
  OBVIOUS
<1>. USE WatcherAssumption, NameAssumption
<1>1. Mq!Idle \in Mq!Call /\ Mq!Idle.at = "idle" /\ Mq!Idle.call = 0
  BY DEF Mq!Idle, Mq!Call
<1>2. \A t \in Task : mq_task[t] = Mq!Idle
  BY DEF Mq!Init
<1>3. Live = {} /\ Sent = {} /\ Stored = {}
  BY <1>1, <1>2 DEF Mq!Init, Live, Sent, Stored
<1>4. Mq!TypeOK
  <2>1. mq_task \in [Task -> Mq!Call]
    BY <1>1 DEF Mq!Init
  <2>2. /\ mq_send1 \in [Task -> Mq!SendInfo \cup {None}] /\ mq_send2 \in [Addr -> Mq!SendInfo \cup {None}]
        /\ mq_rcv1 \in [Task -> Mq!RcvInfo \cup {None}]
    BY DEF Mq!Init
  <2>3. /\ mq_calls \in 0..MaxCalls /\ mq_queue = {} /\ mq_ev = None /\ mq_reused = {}
        /\ mq_refused = FALSE /\ mq_lost = FALSE
    BY DEF Mq!Init
  <2>. QED
    BY <2>1, <2>2, <2>3 DEF Mq!TypeOK
<1>5. Mq!EventIsOfItsMessage
  BY DEF Mq!Init, Mq!EventIsOfItsMessage
<1>6. Calls /\ Addresses /\ Entries /\ Records
  BY <1>1, <1>2, <1>3 DEF Mq!Init, Calls, CallOK, Addresses, Entries, Records
<1>. QED
  BY <1>4, <1>5, <1>6 DEF MqInv

\* What the type invariant says of one task.
LEMMA MqTypes ==
  ASSUME Mq!TypeOK, NEW t \in Task
  PROVE  /\ mq_task[t].at \in {"idle", "sending", "loaded", "sent", "receiving", "stored"}
         /\ mq_task[t].call \in 0..MaxCalls /\ mq_task[t].msg \in Mq!Message \cup {None}
         /\ mq_task[t] = [at |-> mq_task[t].at, call |-> mq_task[t].call, msg |-> mq_task[t].msg]
BY DEF Mq!TypeOK, Mq!Call

\* The state of a task, put together from its fields, has its type.
LEMMA MqCalled ==
  ASSUME NEW at \in {"idle", "sending", "loaded", "sent", "receiving", "stored"},
         NEW call \in 0..MaxCalls, NEW msg \in Mq!Message \cup {None}
  PROVE  [at |-> at, call |-> call, msg |-> msg] \in Mq!Call
BY DEF Mq!Call

\* Every step of a sender or a receiver and its probes keeps the types of the maps, given that
\* a task between load_msg and its return has a message.
LEMMA MqTypeStep == Mq!TypeOK /\ Calls /\ Entries /\ [Mq!Next]_mq => Mq!TypeOK'
<1>. SUFFICES ASSUME Mq!TypeOK, Calls, Entries, [Mq!Next]_mq PROVE Mq!TypeOK'
  OBVIOUS
<1>. USE WatcherAssumption
<1>1. ASSUME NEW t \in Task, NEW at \in {"sending", "receiving"}, Mq!Enter(t, at)
      PROVE  /\ mq_calls' \in 0..MaxCalls /\ mq_calls + 1 \in Mq!Number /\ mq_ev' = None
             /\ mq_task' \in [Task -> Mq!Call]
  <2>1. mq_calls + 1 \in 0..MaxCalls /\ mq_calls + 1 \in Mq!Number
    BY <1>1 DEF Mq!Enter, Mq!TypeOK, Mq!Number
  <2>2. [at |-> at, call |-> mq_calls + 1, msg |-> None] \in Mq!Call
    BY <2>1, MqCalled
  <2>. QED
    BY <1>1, <2>1, <2>2 DEF Mq!Enter, Mq!TypeOK
<1>2. ASSUME NEW t \in Task, Mq!SendEnter(t) PROVE Mq!TypeOK'
  <2>1. Mq!Enter(t, "sending")
    BY <1>2 DEF Mq!SendEnter
  <2>2. /\ mq_calls' \in 0..MaxCalls /\ mq_calls + 1 \in Mq!Number /\ mq_ev' = None
        /\ mq_task' \in [Task -> Mq!Call]
    BY <1>1, <2>1
  <2>3. [send_pid |-> t, enter |-> mq_calls + 1, exit |-> 0, key |-> None] \in Mq!SendInfo
    BY <2>2 DEF Mq!SendInfo
  <2>4. mq_send1' \in [Task -> Mq!SendInfo \cup {None}] /\ mq_refused' \in BOOLEAN
    BY <1>2, <2>3 DEF Mq!SendEnter, Mq!Update, Mq!Refuse, Mq!TypeOK
  <2>. QED
    BY <1>2, <2>2, <2>4 DEF Mq!SendEnter, Mq!TypeOK
<1>3. ASSUME NEW t \in Task, Mq!RcvEnter(t) PROVE Mq!TypeOK'
  <2>1. Mq!Enter(t, "receiving")
    BY <1>3 DEF Mq!RcvEnter
  <2>2. /\ mq_calls' \in 0..MaxCalls /\ mq_calls + 1 \in Mq!Number /\ mq_ev' = None
        /\ mq_task' \in [Task -> Mq!Call]
    BY <1>1, <2>1
  <2>3. [enter |-> mq_calls + 1, key |-> None] \in Mq!RcvInfo
    BY <2>2 DEF Mq!RcvInfo
  <2>4. mq_rcv1' \in [Task -> Mq!RcvInfo \cup {None}] /\ mq_refused' \in BOOLEAN
    BY <1>3, <2>3 DEF Mq!RcvEnter, Mq!Update, Mq!Refuse, Mq!TypeOK
  <2>. QED
    BY <1>3, <2>2, <2>4 DEF Mq!RcvEnter, Mq!TypeOK
<1>4. ASSUME NEW t \in Task, NEW a \in Addr, Mq!Load(t, a) PROVE Mq!TypeOK'
  <2>. DEFINE m == [addr |-> a, call |-> mq_task[t].call, from |-> t]
              info == [mq_send1[t] EXCEPT !.key = a]
  <2>1. mq_task[t].call \in Mq!Number
    BY <1>4 DEF Mq!Load, Calls, CallOK
  <2>2. m \in Mq!Message
    BY <2>1 DEF Mq!Message
  <2>3. mq_task' = [mq_task EXCEPT ![t] = [at |-> "loaded", call |-> mq_task[t].call, msg |-> m]]
    BY <1>4 DEF Mq!Load
  <2>. HIDE DEF m
  <2>4. [at |-> "loaded", call |-> mq_task[t].call, msg |-> m] \in Mq!Call
    BY <2>2, MqCalled, MqTypes
  <2>5. mq_task' \in [Task -> Mq!Call]
    BY <2>3, <2>4 DEF Mq!TypeOK
  <2>6. mq_send1[t] # None => info \in Mq!SendInfo
    BY DEF Mq!TypeOK, Mq!SendInfo
  <2>7. /\ mq_send1' \in [Task -> Mq!SendInfo \cup {None}] /\ mq_refused' \in BOOLEAN
        /\ mq_send2' \in [Addr -> Mq!SendInfo \cup {None}]
    BY <1>4, <2>6 DEF Mq!Load, Mq!NoteKey, Mq!Update, Mq!Refuse, Mq!TypeOK
  <2>8. mq_reused' \subseteq Mq!Number
    <3>1. \A u \in Mq!Holders(a) \cup {t} : mq_task[u].call \in Mq!Number
      BY <2>1 DEF Mq!Holders, Calls, CallOK
    <3>2. {mq_task[u].call : u \in Mq!Holders(a) \cup {t}} \subseteq Mq!Number
      BY <3>1
    <3>. QED
      BY <1>4, <3>2 DEF Mq!Load, Mq!TypeOK
  <2>. QED
    BY <1>4, <2>5, <2>7, <2>8 DEF Mq!Load, Mq!TypeOK
<1>5. ASSUME NEW t \in Task, Mq!Send(t) PROVE Mq!TypeOK'
  <2>1. [mq_task[t] EXCEPT !.at = "sent"] \in Mq!Call
    BY DEF Mq!TypeOK, Mq!Call
  <2>2. mq_task' \in [Task -> Mq!Call]
    BY <1>5, <2>1 DEF Mq!Send, Mq!TypeOK
  <2>3. mq_queue' \subseteq Mq!Message
    BY <1>5, MqTypes DEF Mq!Send, Mq!TypeOK, Calls, CallOK
  <2>. QED
    BY <1>5, <2>2, <2>3 DEF Mq!Send, Mq!TypeOK
<1>6. ASSUME NEW t \in Task, Mq!SendExit(t) PROVE Mq!TypeOK'
  <2>. DEFINE a == mq_send1[t].key
  <2>1. Mq!Idle \in Mq!Call
    BY DEF Mq!Idle, Mq!Call
  <2>2. mq_task' \in [Task -> Mq!Call]
    BY <1>6, <2>1 DEF Mq!SendExit, Mq!TypeOK
  <2>3. Mq!RecordOf(mq_send1[t]) # None =>
          a \in Addr /\ mq_send2[a] # None /\ [mq_send2[a] EXCEPT !.exit = mq_task[t].call] \in Mq!SendInfo
    BY MqTypes DEF Mq!RecordOf, Mq!TypeOK, Mq!SendInfo
  <2>4. /\ mq_send1' \in [Task -> Mq!SendInfo \cup {None}]
        /\ mq_send2' \in [Addr -> Mq!SendInfo \cup {None}]
    BY <1>6, <2>3 DEF Mq!SendExit, Mq!Stamp, Mq!TypeOK
  <2>. QED
    BY <1>6, <2>2, <2>4 DEF Mq!SendExit, Mq!TypeOK
<1>7. ASSUME NEW t \in Task, NEW m \in mq_queue, Mq!Store(t, m) PROVE Mq!TypeOK'
  <2>1. m \in Mq!Message /\ m.addr \in Addr
    BY DEF Mq!TypeOK, Mq!Message
  <2>2. [at |-> "stored", call |-> mq_task[t].call, msg |-> m] \in Mq!Call
    BY <2>1, MqCalled, MqTypes
  <2>3. mq_task' \in [Task -> Mq!Call]
    BY <1>7, <2>2 DEF Mq!Store, Mq!TypeOK
  <2>4. mq_rcv1[t] # None => [mq_rcv1[t] EXCEPT !.key = m.addr] \in Mq!RcvInfo
    BY <2>1 DEF Mq!TypeOK, Mq!RcvInfo
  <2>5. mq_rcv1' \in [Task -> Mq!RcvInfo \cup {None}]
    BY <1>7, <2>4 DEF Mq!Store, Mq!TypeOK
  <2>. QED
    BY <1>7, <2>3, <2>5 DEF Mq!Store, Mq!TypeOK
<1>8. ASSUME NEW t \in Task, Mq!RcvFails(t) PROVE Mq!TypeOK'
  <2>1. [mq_task[t] EXCEPT !.at = "stored"] \in Mq!Call
    BY DEF Mq!TypeOK, Mq!Call
  <2>2. mq_task' \in [Task -> Mq!Call]
    BY <1>8, <2>1 DEF Mq!RcvFails, Mq!TypeOK
  <2>. QED
    BY <1>8, <2>2 DEF Mq!RcvFails, Mq!TypeOK
<1>9. ASSUME NEW t \in Task, Mq!RcvExit(t) PROVE Mq!TypeOK'
  <2>. DEFINE info == mq_rcv1[t]
              s == Mq!RecordOf(info)
              sure == ~mq_refused /\ {mq_task[t].call, mq_task[t].msg.call} \cap mq_reused = {}
  <2>1. Mq!Idle \in Mq!Call
    BY DEF Mq!Idle, Mq!Call
  <2>2. mq_task' \in [Task -> Mq!Call]
    BY <1>9, <2>1 DEF Mq!RcvExit, Mq!TypeOK
  <2>3. s # None => /\ info \in Mq!RcvInfo /\ info.key \in Addr /\ s \in Mq!SendInfo
                    /\ mq_task[t].msg \in Mq!Message
    BY <1>9, MqTypes, RecordAssumption DEF Mq!RecordOf, Mq!TypeOK, Mq!RcvInfo, Entries, Mq!RcvExit
  <2>. HIDE DEF s, info, sure
  <2>4. s # None => [send_pid |-> s.send_pid, send |-> s.enter, exit |-> s.exit, rcv_pid |-> t,
                     rcv |-> info.enter, got |-> mq_task[t].msg, sure |-> sure] \in Mq!Event
    BY <2>3 DEF Mq!RcvInfo, Mq!SendInfo, Mq!Event, sure
  <2>5. mq_ev' \in Mq!Event \cup {None} /\ mq_lost' \in BOOLEAN
    BY <1>9, <2>4 DEF Mq!RcvExit, Mq!TypeOK, s, info, sure
  <2>6. /\ mq_send2' \in [Addr -> Mq!SendInfo \cup {None}]
        /\ mq_rcv1' \in [Task -> Mq!RcvInfo \cup {None}]
    BY <1>9, <2>3 DEF Mq!RcvExit, Mq!TypeOK, s, info
  <2>. QED
    BY <1>9, <2>2, <2>5, <2>6 DEF Mq!RcvExit, Mq!TypeOK
<1>10. CASE UNCHANGED mq
  BY <1>10 DEF mq, Mq!TypeOK
<1>. QED
  BY <1>2, <1>3, <1>4, <1>5, <1>6, <1>7, <1>8, <1>9, <1>10 DEF Mq!Next

\* The messages that are about, and those that a task has sent or received, are messages.
LEMMA LiveTypes ==
  ASSUME MqInv
  PROVE  /\ Live \subseteq Mq!Message
         /\ \A t \in Stored \cup Sent : mq_task[t].msg \in Mq!Message
         /\ \A m \in Mq!Message : m.addr \in Addr /\ m.call \in Mq!Number /\ m.from \in Task
<1>1. \A t \in Task : mq_task[t].at = "loaded" => mq_task[t].msg \in Mq!Message
  BY MqTypes DEF MqInv, Calls, CallOK
<1>2. Live \subseteq Mq!Message
  BY <1>1 DEF Live, MqInv, Mq!TypeOK
<1>3. \A t \in Stored \cup Sent : mq_task[t].msg \in Mq!Message
  BY MqTypes DEF MqInv, Stored, Sent
<1>. QED
  BY <1>2, <1>3 DEF Mq!Message

\* The record of a message is a value of send_msg2, and what its fields are.
LEMMA RecType ==
  ASSUME NEW m \in Mq!Message
  PROVE  /\ Rec(m) \in Mq!SendInfo /\ Rec(m) # None
         /\ Rec(m).key = m.addr /\ Rec(m).send_pid = m.from /\ Rec(m).enter = m.call
         /\ Rec(m).exit = IF InCall(m) THEN 0 ELSE m.call
<1>1. m.addr \in Addr /\ m.call \in Mq!Number /\ m.from \in Task
  BY DEF Mq!Message
<1>2. (IF InCall(m) THEN 0 ELSE m.call) \in 0..MaxCalls
  BY <1>1, WatcherAssumption DEF Mq!Number
<1>3. Rec(m) \in Mq!SendInfo
  BY <1>1, <1>2 DEF Rec, Mq!SendInfo
<1>. QED
  BY <1>3, RecordAssumption DEF Rec

\* A task enters a call.
LEMMA MqEnter ==
  ASSUME MqInv, NEW t \in Task, NEW at \in {"sending", "receiving"}, Mq!Enter(t, at),
         UNCHANGED <<mq_queue, mq_reused>>
  PROVE  /\ mq_task'[t].at = at /\ mq_task'[t].call = mq_calls + 1 /\ mq_task'[t].msg = None
         /\ mq_task[t].at = "idle" /\ \A u \in Task \ {t} : mq_task'[u] = mq_task[u]
         /\ Live' = Live /\ Sent' = Sent /\ Stored' = Stored
         /\ \A m \in Mq!Message : m.call <= mq_calls => Rec(m)' = Rec(m)
         /\ Calls' /\ Addresses'
<1>1. mq_task \in [Task -> Mq!Call] /\ mq_calls \in 0..MaxCalls /\ MaxCalls \in Nat
  BY WatcherAssumption DEF MqInv, Mq!TypeOK
<1>2. /\ mq_task'[t].at = at /\ mq_task'[t].call = mq_calls + 1 /\ mq_task'[t].msg = None
      /\ mq_task[t].at = "idle" /\ \A u \in Task \ {t} : mq_task'[u] = mq_task[u]
      /\ mq_calls' = mq_calls + 1 /\ mq_calls < MaxCalls
  BY <1>1 DEF Mq!Enter
<1>3. Live' = Live /\ Sent' = Sent /\ Stored' = Stored
  BY <1>2 DEF Live, Sent, Stored
<1>4. \A m \in Mq!Message : m.call <= mq_calls => (InCall(m)' <=> InCall(m))
  <2>. SUFFICES ASSUME NEW m \in Mq!Message, m.call <= mq_calls PROVE InCall(m)' <=> InCall(m)
    OBVIOUS
  <2>1. m.call \in Int /\ m.from \in Task
    BY <1>1 DEF Mq!Message, Mq!Number
  <2>. QED
    BY <1>1, <1>2, <2>1 DEF InCall
<1>5. \A m \in Mq!Message : m.call <= mq_calls => Rec(m)' = Rec(m)
  BY <1>4 DEF Rec
<1>6. Calls'
  <2>1. ASSUME NEW u \in Task PROVE CallOK(u)'
    <3>1. CASE u = t
      BY <1>1, <1>2, <3>1 DEF Mq!Number, CallOK
    <3>2. CASE u # t
      <4>1. mq_task'[u] = mq_task[u] /\ mq_task[u].call \in Int /\ mq_calls \in Int
        BY <1>1, <1>2, <3>2, MqTypes DEF MqInv
      <4>. QED
        BY <1>2, <4>1 DEF MqInv, Calls, CallOK
    <3>. QED
      BY <3>1, <3>2
  <2>2. ASSUME NEW m \in Live' PROVE LiveOK(m)'
    <3>1. m \in Live /\ m \in Mq!Message /\ m.call \in Int /\ mq_calls \in Int
      BY <1>1, <1>3, <2>2, LiveTypes DEF Mq!Number
    <3>2. m.call <= mq_calls /\ (InCall(m) => mq_task[m.from].at \in {"loaded", "sent"} /\ mq_task[m.from].msg = m)
      BY <3>1 DEF MqInv, Calls, LiveOK
    <3>. QED
      BY <1>2, <1>4, <3>1, <3>2, LiveTypes DEF LiveOK
  <2>3. ASSUME NEW u \in Stored' PROVE StoredOK(u)'
    <3>. DEFINE m == mq_task[u].msg
    <3>1. u \in Stored /\ mq_task'[u] = mq_task[u]
      BY <1>2, <1>3, <2>3 DEF Stored
    <3>2. m \in Mq!Message /\ m.call \in Int /\ mq_calls \in Int /\ m.from \in Task
      BY <1>1, <3>1, LiveTypes DEF Mq!Number
    <3>3. m.call <= mq_calls /\ (InCall(m) => mq_task[m.from].at = "sent" /\ mq_task[m.from].msg = m)
      BY <3>1 DEF MqInv, Calls, StoredOK
    <3>4. InCall(mq_task[u].msg)' <=> InCall(m)
      BY <1>4, <3>1, <3>2, <3>3 DEF InCall
    <3>. QED
      BY <1>2, <3>1, <3>2, <3>3, <3>4 DEF StoredOK
  <2>. QED
    BY <2>1, <2>2, <2>3 DEF Calls
<1>7. Addresses'
  <2>1. \A u \in Stored \cup Sent : mq_task'[u] = mq_task[u] /\ (Doubtful(u)' <=> Doubtful(u))
    BY <1>2 DEF Stored, Sent, Doubtful
  <2>. QED
    BY <1>3, <2>1 DEF MqInv, Addresses
<1>. QED
  BY <1>2, <1>3, <1>5, <1>6, <1>7

\* The other steps of a task t leave the others alone and t in the same call, or end it.
MqFrame(t) ==
  /\ mq_calls' = mq_calls /\ \A u \in Task \ {t} : mq_task'[u] = mq_task[u]

\* A message that enters the queue, or a send that fails, keeps MqInv.
LEMMA MqSend ==
  ASSUME MqInv, NEW t \in Task, Mq!Send(t), Mq!TypeOK'
  PROVE  MqInv'
<1>1. mq_task \in [Task -> Mq!Call]
  BY DEF MqInv, Mq!TypeOK
<1>2. /\ MqFrame(t) /\ mq_task'[t].at = "sent" /\ mq_task[t].at \in {"sending", "loaded"}
      /\ mq_task'[t].call = mq_task[t].call /\ mq_task'[t].msg = mq_task[t].msg
      /\ mq_ev' = None /\ UNCHANGED <<mq_send1, mq_send2, mq_rcv1, mq_reused, mq_refused>>
  BY <1>1 DEF Mq!Send, MqFrame, Mq!Call
<1>3. \/ mq_queue' = mq_queue
      \/ mq_task[t].at = "loaded" /\ mq_queue' = mq_queue \cup {mq_task[t].msg}
  BY DEF Mq!Send
<1>4. Live' \subseteq Live
  BY <1>2, <1>3 DEF Live, MqFrame
<1>5. Sent' \subseteq Sent \cup {t} /\ t \notin Sent /\ Stored' = Stored /\ t \notin Stored
  BY <1>2 DEF Sent, Stored, MqFrame
<1>6. t \in Sent' => mq_task[t].at = "loaded" /\ mq_task[t].msg \in Live
  BY <1>2 DEF Sent, Live, MqInv, Calls, CallOK
<1>7. \A m \in Mq!Message : (InCall(m)' <=> InCall(m)) /\ Rec(m)' = Rec(m)
  <2>1. \A m \in Mq!Message : InCall(m)' <=> InCall(m)
    BY <1>2 DEF InCall, MqFrame, Mq!Message
  <2>. QED
    BY <2>1 DEF Rec
<1>8. Calls'
  <2>1. ASSUME NEW u \in Task PROVE CallOK(u)'
    <3>1. CallOK(u) /\ CallOK(t)
      BY DEF MqInv, Calls
    <3>2. CASE u = t
      BY <1>2, <3>1, <3>2 DEF CallOK, MqFrame
    <3>3. CASE u # t
      BY <1>2, <1>3, <3>1, <3>3 DEF CallOK, MqFrame
    <3>. QED
      BY <3>2, <3>3
  <2>2. ASSUME NEW m \in Live' PROVE LiveOK(m)'
    BY <1>2, <1>4, <1>7, <2>2, LiveTypes DEF LiveOK, MqInv, Calls, MqFrame
  <2>3. ASSUME NEW u \in Stored' PROVE StoredOK(u)'
    <3>1. u \in Stored /\ mq_task'[u] = mq_task[u] /\ StoredOK(u)
      BY <1>2, <1>5, <2>3 DEF MqInv, Calls, MqFrame, Stored
    <3>2. mq_task[u].msg \in Mq!Message /\ mq_task[u].msg.from \in Task
      BY <3>1, LiveTypes
    <3>3. InCall(mq_task[u].msg)' <=> InCall(mq_task[u].msg)
      BY <1>7, <3>1, <3>2 DEF InCall
    <3>. QED
      BY <1>2, <3>1, <3>2, <3>3 DEF StoredOK, MqFrame
  <2>. QED
    BY <2>1, <2>2, <2>3 DEF Calls
<1>9. Addresses'
  <2>1. \A u \in Stored \cup Sent : mq_task'[u] = mq_task[u] /\ (Doubtful(u)' <=> Doubtful(u))
    BY <1>2, <1>5 DEF MqFrame, Doubtful, Stored, Sent
  <2>2. ASSUME NEW m \in Live', t \in Sent', mq_task'[t].msg.addr = m.addr PROVE mq_task'[t].msg = m
    BY <1>2, <1>4, <1>6, <2>2 DEF MqInv, Addresses
  <2>3. ASSUME NEW u \in Stored, t \in Sent', mq_task[u].msg.addr = mq_task'[t].msg.addr PROVE Doubtful(u)
    BY <1>2, <1>6, <2>3 DEF MqInv, Addresses, Doubtful
  <2>. QED
    BY <1>2, <1>4, <1>5, <2>1, <2>2, <2>3 DEF MqInv, Addresses
<1>10. Entries'
  BY <1>2 DEF MqInv, Entries, MqFrame
<1>11. Records'
  <2>1. \A u \in Stored : /\ mq_task'[u] = mq_task[u] /\ (Doubtful(u)' <=> Doubtful(u))
                          /\ Rec(mq_task[u].msg)' = Rec(mq_task[u].msg)
    BY <1>2, <1>5, <1>7, LiveTypes DEF MqFrame, Doubtful, Stored, Rec, InCall
  <2>. QED
    BY <1>2, <1>4, <1>5, <1>7, <2>1, LiveTypes DEF MqInv, Records
<1>. QED
  BY <1>2, <1>8, <1>9, <1>10, <1>11 DEF MqInv, Mq!EventIsOfItsMessage

\* load_msg and its probe keep MqInv: the record of the new message is put under its address,
\* and every call that still holds that address is in reused.
LEMMA MqLoad ==
  ASSUME MqInv, NEW t \in Task, NEW a \in Addr, Mq!Load(t, a), Mq!TypeOK'
  PROVE  MqInv'
<1>1. mq_task \in [Task -> Mq!Call]
  BY DEF MqInv, Mq!TypeOK
<1>2. PICK new \in Mq!Message : new = [addr |-> a, call |-> mq_task[t].call, from |-> t]
  BY DEF Mq!Load, Mq!Message, MqInv, Calls, CallOK
<1>3. /\ mq_task' = [mq_task EXCEPT ![t] = [at |-> "loaded", call |-> mq_task[t].call, msg |-> new]]
      /\ mq_task[t].at = "sending" /\ mq_calls' = mq_calls
      /\ mq_ev' = None /\ UNCHANGED <<mq_queue, mq_rcv1>>
  BY <1>2 DEF Mq!Load
<1>4. new.addr = a /\ new.call = mq_task[t].call /\ new.from = t
  BY <1>2
<1>5. /\ MqFrame(t) /\ mq_task'[t].at = "loaded" /\ mq_task'[t].call = mq_task[t].call
      /\ mq_task'[t].msg = new /\ new # None
  BY <1>1, <1>3, <1>2, RecordAssumption DEF MqFrame
<1>6. \A m \in Live : m.addr # a
  BY DEF Mq!Load, Mq!Free, Live
<1>7. Live' \subseteq Live \cup {new} /\ Sent' = Sent /\ Stored' = Stored /\ t \notin Sent \cup Stored
  BY <1>3, <1>5 DEF Live, Sent, Stored, MqFrame
<1>8. /\ mq_reused \subseteq mq_reused'
      /\ \A u \in Sent \cup Stored : mq_task[u].msg.addr = a =>
           mq_task[u].call \in mq_reused' /\ mq_task[t].call \in mq_reused'
  <2>1. mq_reused' = IF Mq!Holders(a) = {} THEN mq_reused
                     ELSE mq_reused \cup {mq_task[u].call : u \in Mq!Holders(a) \cup {t}}
    BY DEF Mq!Load
  <2>2. \A u \in Sent \cup Stored : mq_task[u].msg.addr = a => u \in Mq!Holders(a)
    BY DEF Sent, Stored, Mq!Holders
  <2>. QED
    BY <2>1, <2>2
<1>9. \A m \in Mq!Message : (InCall(m)' <=> InCall(m)) /\ Rec(m)' = Rec(m)
  <2>1. \A m \in Mq!Message : InCall(m)' <=> InCall(m)
    BY <1>3, <1>5 DEF InCall, MqFrame, Mq!Message
  <2>. QED
    BY <2>1 DEF Rec
<1>10. Calls'
  <2>1. ASSUME NEW u \in Task PROVE CallOK(u)'
    <3>1. CallOK(u) /\ CallOK(t)
      BY DEF MqInv, Calls
    <3>2. CASE u = t
      <4>1. new \notin mq_queue
        BY <1>4, <1>6 DEF Live
      <4>. QED
        BY <1>3, <1>4, <1>5, <3>1, <3>2, <4>1 DEF CallOK
    <3>3. CASE u # t
      BY <1>3, <1>5, <3>1, <3>3 DEF CallOK, MqFrame
    <3>. QED
      BY <3>2, <3>3
  <2>2. ASSUME NEW m \in Live' PROVE LiveOK(m)'
    <3>1. CASE m \in Live
      BY <1>3, <1>5, <1>9, <3>1, LiveTypes DEF LiveOK, MqInv, Calls, MqFrame
    <3>2. CASE m = new
      BY <1>3, <1>4, <1>5, <3>2 DEF LiveOK, MqInv, Calls, CallOK
    <3>. QED
      BY <1>7, <3>1, <3>2
  <2>3. ASSUME NEW u \in Stored' PROVE StoredOK(u)'
    <3>1. u \in Stored /\ mq_task'[u] = mq_task[u] /\ StoredOK(u)
      BY <1>5, <1>7, <2>3 DEF MqInv, Calls, MqFrame, Stored
    <3>2. mq_task[u].msg \in Mq!Message /\ mq_task[u].msg.from \in Task
      BY <3>1, LiveTypes
    <3>3. InCall(mq_task[u].msg)' <=> InCall(mq_task[u].msg)
      BY <1>9, <3>1, <3>2 DEF InCall
    <3>. QED
      BY <1>3, <1>5, <3>1, <3>2, <3>3 DEF StoredOK, MqFrame
  <2>. QED
    BY <2>1, <2>2, <2>3 DEF Calls
<1>11. \A u \in Stored \cup Sent : mq_task'[u] = mq_task[u] /\ (Doubtful(u) => Doubtful(u)')
  BY <1>5, <1>7, <1>8 DEF MqFrame, Doubtful, Stored, Sent
<1>12. Addresses'
  <2>1. \A m, n \in Live' : m.addr = n.addr => m = n
    BY <1>4, <1>6, <1>7 DEF MqInv, Addresses
  <2>2. \A m \in Live', u \in Stored' : mq_task'[u].msg.addr = m.addr =>
          m.call \in mq_reused' /\ mq_task'[u].call \in mq_reused'
    BY <1>4, <1>7, <1>8, <1>11 DEF MqInv, Addresses
  <2>3. \A m \in Live', u \in Sent' : mq_task'[u].msg.addr = m.addr =>
          mq_task'[u].msg = m \/ m.call \in mq_reused'
    BY <1>4, <1>7, <1>8, <1>11 DEF MqInv, Addresses
  <2>4. \A u, v \in Stored' : u # v /\ mq_task'[u].msg.addr = mq_task'[v].msg.addr => Doubtful(u)'
    BY <1>7, <1>11 DEF MqInv, Addresses
  <2>5. \A u \in Stored', v \in Sent' : mq_task'[u].msg.addr = mq_task'[v].msg.addr =>
          mq_task'[u].msg = mq_task'[v].msg \/ Doubtful(u)'
    BY <1>7, <1>11 DEF MqInv, Addresses
  <2>. QED
    BY <2>1, <2>2, <2>3, <2>4, <2>5 DEF Addresses
<1>13. /\ ~mq_refused' => /\ ~mq_refused
                          /\ mq_send1' = [mq_send1 EXCEPT ![t] = Rec(new)'] /\ mq_send2' = [mq_send2 EXCEPT ![a] = Rec(new)']
  <2>. SUFFICES ASSUME ~mq_refused'
                PROVE  /\ ~mq_refused
                       /\ mq_send1' = [mq_send1 EXCEPT ![t] = Rec(new)']
                       /\ mq_send2' = [mq_send2 EXCEPT ![a] = Rec(new)']
    OBVIOUS
  <2>1. ~mq_refused
    BY DEF Mq!Load, Mq!NoteKey, Mq!Refuse
  <2>2. mq_send1[t] = [send_pid |-> t, enter |-> mq_task[t].call, exit |-> 0, key |-> None]
    BY <1>3, <2>1 DEF MqInv, Entries, Calls, CallOK
  <2>3. mq_send1[t] # None
    <3>1. mq_send1[t] \in Mq!SendInfo
      BY <1>3, <2>2, WatcherAssumption DEF MqInv, Calls, CallOK, Mq!SendInfo, Mq!Number
    <3>. QED
      BY <3>1, RecordAssumption
  <2>4. [mq_send1[t] EXCEPT !.key = a] = [send_pid |-> t, enter |-> mq_task[t].call, exit |-> 0, key |-> a]
    BY <2>2
  <2>5. Rec(new)' = [send_pid |-> t, enter |-> mq_task[t].call, exit |-> 0, key |-> a]
    <3>1. InCall(new)'
      BY <1>4, <1>5 DEF InCall
    <3>. QED
      BY <1>4, <1>5, <3>1 DEF Rec
  <2>6. PICK ok \in Mq!Room(mq_send2, a) :
          /\ Mq!Refuse(ok)
          /\ mq_send1' = [mq_send1 EXCEPT ![t] = [mq_send1[t] EXCEPT !.key = a]]
          /\ mq_send2' = Mq!Update(mq_send2, a, [mq_send1[t] EXCEPT !.key = a], ok)
    BY <2>3 DEF Mq!Load, Mq!NoteKey
  <2>7. ok
    BY <2>6 DEF Mq!Refuse
  <2>. QED
    BY <2>1, <2>4, <2>5, <2>6, <2>7 DEF Mq!Update
<1>14. mq_send1 \in [Task -> Mq!SendInfo \cup {None}] /\ mq_send2 \in [Addr -> Mq!SendInfo \cup {None}]
  BY DEF MqInv, Mq!TypeOK
<1>15. Entries'
  <2>1. ASSUME ~mq_refused'
        PROVE  mq_send1'[t] = [send_pid |-> t, enter |-> mq_task'[t].call, exit |-> 0,
                               key |-> IF mq_task'[t].msg = None THEN None ELSE mq_task'[t].msg.addr]
    <3>1. InCall(new)'
      BY <1>4, <1>5 DEF InCall
    <3>2. Rec(new)' = [send_pid |-> t, enter |-> mq_task'[t].call, exit |-> 0, key |-> mq_task'[t].msg.addr]
      BY <1>4, <1>5, <3>1 DEF Rec
    <3>. QED
      BY <1>5, <1>13, <1>14, <2>1, <3>2
  <2>2. ~mq_refused' => \A u \in Task \ {t} : mq_send1'[u] = mq_send1[u]
    BY <1>13, <1>14
  <2>. QED
    BY <1>3, <1>5, <1>13, <2>1, <2>2 DEF MqInv, Entries, MqFrame
<1>16. Records'
  <2>. SUFFICES ASSUME ~mq_refused' PROVE Records'
    BY DEF Records
  <2>1. /\ ~mq_refused /\ mq_send2'[a] = Rec(new)'
        /\ \A b \in Addr \ {a} : mq_send2'[b] = mq_send2[b]
    BY <1>13, <1>14
  <2>2. ASSUME NEW m \in Live' PROVE m.call \in mq_reused' \/ mq_send2'[m.addr] = Rec(m)'
    <3>1. CASE m = new
      BY <1>4, <2>1, <3>1
    <3>2. CASE m \in Live
      <4>1. m \in Mq!Message /\ m.addr \in Addr \ {a}
        BY <1>6, <3>2, LiveTypes
      <4>2. m.call \in mq_reused \/ mq_send2[m.addr] = Rec(m)
        BY <2>1, <3>2 DEF MqInv, Records
      <4>. QED
        BY <1>8, <1>9, <2>1, <4>1, <4>2
    <3>. QED
      BY <1>7, <3>1, <3>2
  <2>3. ASSUME NEW u \in Stored'
        PROVE  \/ Doubtful(u)'
               \/ /\ mq_rcv1'[u] # None /\ mq_rcv1'[u].key = mq_task'[u].msg.addr
                  /\ mq_send2'[mq_task'[u].msg.addr] = Rec(mq_task[u].msg)'
    <3>1. u \in Stored /\ mq_task'[u] = mq_task[u] /\ mq_rcv1'[u] = mq_rcv1[u]
      BY <1>3, <1>7, <1>11, <2>3
    <3>2. mq_task[u].msg \in Mq!Message /\ mq_task[u].msg.addr \in Addr
      BY <3>1, LiveTypes
    <3>3. CASE mq_task[u].msg.addr = a
      BY <1>8, <3>1, <3>3 DEF Doubtful
    <3>4. CASE mq_task[u].msg.addr # a
      <4>1. Rec(mq_task[u].msg)' = Rec(mq_task[u].msg)
        BY <1>9, <3>1, <3>2 DEF Rec, InCall
      <4>2. \/ Doubtful(u)
            \/ /\ mq_rcv1[u] # None /\ mq_rcv1[u].key = mq_task[u].msg.addr
               /\ mq_send2[mq_task[u].msg.addr] = Rec(mq_task[u].msg)
        BY <2>1, <3>1 DEF MqInv, Records
      <4>. QED
        BY <1>11, <2>1, <3>1, <3>2, <3>4, <4>1, <4>2
    <3>. QED
      BY <3>3, <3>4
  <2>. QED
    BY <2>2, <2>3 DEF Records
<1>. QED
  BY <1>3, <1>10, <1>12, <1>15, <1>16 DEF MqInv, Mq!EventIsOfItsMessage

\* do_mq_timedsend_exit keeps MqInv: it stamps the record of its own message, or one whose
\* message is in reused.
LEMMA MqSendExit ==
  ASSUME MqInv, NEW t \in Task, Mq!SendExit(t), Mq!TypeOK'
  PROVE  MqInv'
<1>1. /\ mq_task \in [Task -> Mq!Call] /\ mq_send1 \in [Task -> Mq!SendInfo \cup {None}]
      /\ mq_send2 \in [Addr -> Mq!SendInfo \cup {None}]
  BY DEF MqInv, Mq!TypeOK
<1>2. /\ MqFrame(t) /\ mq_task'[t].at = "idle" /\ mq_task[t].at = "sent"
      /\ mq_task'[t].call = 0
      /\ mq_ev' = None /\ UNCHANGED <<mq_queue, mq_rcv1, mq_reused, mq_refused>>
  BY <1>1 DEF Mq!SendExit, MqFrame, Mq!Idle
<1>3. /\ Live' = Live /\ Sent' \subseteq Sent \ {t} /\ Stored' = Stored /\ t \notin Stored
  BY <1>2 DEF Live, Sent, Stored, MqFrame
<1>4. \A m \in Mq!Message : InCall(m)' <=> InCall(m) /\ m.from # t
  BY <1>2 DEF InCall, MqFrame, Mq!Message
<1>5. \A u \in Stored \cup Sent' : mq_task'[u] = mq_task[u] /\ (Doubtful(u)' <=> Doubtful(u))
  BY <1>2, <1>3 DEF MqFrame, Doubtful, Stored, Sent
<1>6. Calls'
  <2>1. ASSUME NEW u \in Task PROVE CallOK(u)'
    <3>1. CallOK(u) /\ CallOK(t) /\ mq_calls \in Nat
      BY WatcherAssumption DEF MqInv, Calls, Mq!TypeOK
    <3>2. CASE u = t
      BY <1>2, <3>1, <3>2 DEF CallOK, MqFrame
    <3>3. CASE u # t
      BY <1>2, <3>1, <3>3 DEF CallOK, MqFrame
    <3>. QED
      BY <3>2, <3>3
  <2>2. ASSUME NEW m \in Live' PROVE LiveOK(m)'
    BY <1>2, <1>3, <1>4, <2>2, LiveTypes DEF LiveOK, MqInv, Calls, MqFrame
  <2>3. ASSUME NEW u \in Stored' PROVE StoredOK(u)'
    <3>1. u \in Stored /\ mq_task'[u] = mq_task[u] /\ StoredOK(u)
      BY <1>3, <1>5, <2>3 DEF MqInv, Calls
    <3>2. mq_task[u].msg \in Mq!Message /\ mq_task[u].msg.from \in Task
      BY <3>1, LiveTypes
    <3>3. InCall(mq_task[u].msg)' <=> InCall(mq_task[u].msg) /\ mq_task[u].msg.from # t
      BY <1>4, <3>1, <3>2 DEF InCall
    <3>. QED
      BY <1>2, <3>1, <3>2, <3>3 DEF StoredOK, MqFrame
  <2>. QED
    BY <2>1, <2>2, <2>3 DEF Calls
<1>7. Addresses'
  BY <1>2, <1>3, <1>5 DEF MqInv, Addresses
<1>8. ~mq_refused =>
        mq_send1[t] = [send_pid |-> t, enter |-> mq_task[t].call, exit |-> 0,
                       key |-> IF mq_task[t].msg = None THEN None ELSE mq_task[t].msg.addr]
  BY <1>2 DEF MqInv, Entries
<1>9. Entries'
  <2>1. \A u \in Task \ {t} : mq_send1'[u] = mq_send1[u]
    BY <1>1 DEF Mq!SendExit
  <2>. QED
    BY <1>2, <2>1 DEF MqInv, Entries, MqFrame
\* The record of a message that nothing else has taken the address of.
<1>10. ASSUME ~mq_refused, NEW m \in Mq!Message, mq_send2[m.addr] = Rec(m),
              t \in Sent /\ mq_task[t].msg.addr = m.addr => mq_task[t].msg = m,
              InCall(m) /\ m.from = t => mq_task[t].msg = m
       PROVE  mq_send2'[m.addr] = Rec(m)'
  <2>. DEFINE info == mq_send1[t]
  <2>1. m.addr \in Addr /\ m # None /\ Rec(m) # None /\ m.addr # None
    BY RecordAssumption, NameAssumption, RecType DEF Mq!Message
  <2>2. info # None /\ info.key = IF mq_task[t].msg = None THEN None ELSE mq_task[t].msg.addr
    <3>1. info \in Mq!SendInfo \cup {None} /\ mq_task[t].call \in Mq!Number /\ MaxCalls \in Nat
      BY <1>1, <1>2, WatcherAssumption DEF MqInv, Calls, CallOK
    <3>2. (IF mq_task[t].msg = None THEN None ELSE mq_task[t].msg.addr) \in Addr \cup {None}
      BY MqTypes DEF MqInv, Mq!Message
    <3>3. info \in Mq!SendInfo
      BY <1>8, <1>10, <3>1, <3>2 DEF Mq!SendInfo
    <3>. QED
      BY <1>8, <1>10, <3>3, RecordAssumption
  <2>3. CASE mq_task[t].msg = m
    <3>1. info.key = m.addr /\ Mq!RecordOf(info) = Rec(m)
      BY <1>10, <2>1, <2>2, <2>3 DEF Mq!RecordOf
    <3>2. mq_send2' = [mq_send2 EXCEPT ![m.addr].exit = mq_task[t].call]
      BY <2>1, <3>1 DEF Mq!SendExit, Mq!Stamp
    <3>3. mq_send2'[m.addr] = [Rec(m) EXCEPT !.exit = mq_task[t].call]
      BY <1>1, <1>10, <2>1, <3>2
    <3>4. m.from = t /\ m.call = mq_task[t].call
      BY <1>2, <2>1, <2>3 DEF MqInv, Calls, CallOK
    <3>5. ~InCall(m)'
      BY <1>4, <3>4
    <3>. QED
      BY <3>3, <3>4, <3>5 DEF Rec
  <2>4. CASE mq_task[t].msg # m
    <3>1. Rec(m)' = Rec(m)
      BY <1>4, <1>10, <2>4 DEF Rec
    <3>2. info.key # m.addr
      BY <1>2, <1>10, <2>1, <2>2, <2>4 DEF Sent
    <3>3. mq_send2'[m.addr] = mq_send2[m.addr]
      BY <1>1, <2>1, <3>2 DEF Mq!SendExit, Mq!Stamp
    <3>. QED
      BY <1>10, <3>1, <3>3
  <2>. QED
    BY <2>3, <2>4
<1>11. Records'
  <2>. SUFFICES ASSUME ~mq_refused' PROVE Records'
    BY DEF Records
  <2>1. ~mq_refused
    BY <1>2
  <2>2. ASSUME NEW m \in Live' PROVE m.call \in mq_reused' \/ mq_send2'[m.addr] = Rec(m)'
    <3>. SUFFICES ASSUME m.call \notin mq_reused PROVE mq_send2'[m.addr] = Rec(m)'
      BY <1>2
    <3>1. m \in Live /\ m \in Mq!Message /\ mq_send2[m.addr] = Rec(m)
      BY <1>3, <2>1, LiveTypes DEF MqInv, Records
    <3>2. t \in Sent /\ mq_task[t].msg.addr = m.addr => mq_task[t].msg = m
      BY <3>1 DEF MqInv, Addresses
    <3>3. InCall(m) /\ m.from = t => mq_task[t].msg = m
      BY <3>1 DEF MqInv, Calls, LiveOK
    <3>. QED
      BY <1>10, <2>1, <3>1, <3>2, <3>3
  <2>3. ASSUME NEW u \in Stored'
        PROVE  \/ Doubtful(u)'
               \/ /\ mq_rcv1'[u] # None /\ mq_rcv1'[u].key = mq_task'[u].msg.addr
                  /\ mq_send2'[mq_task'[u].msg.addr] = Rec(mq_task[u].msg)'
    <3>1. u \in Stored /\ mq_task'[u] = mq_task[u] /\ mq_rcv1'[u] = mq_rcv1[u]
      BY <1>2, <1>3, <1>5, <2>3
    <3>. SUFFICES ASSUME ~Doubtful(u)
                  PROVE  /\ mq_rcv1'[u] # None /\ mq_rcv1'[u].key = mq_task'[u].msg.addr
                         /\ mq_send2'[mq_task'[u].msg.addr] = Rec(mq_task[u].msg)'
      BY <1>5, <3>1
    <3>2. PICK m \in Mq!Message : m = mq_task[u].msg
      BY <3>1, LiveTypes
    <3>3. mq_rcv1[u] # None /\ mq_rcv1[u].key = m.addr /\ mq_send2[m.addr] = Rec(m)
      BY <2>1, <3>1, <3>2 DEF MqInv, Records
    <3>4. t \in Sent /\ mq_task[t].msg.addr = m.addr => mq_task[t].msg = m
      BY <3>1, <3>2 DEF MqInv, Addresses
    <3>5. InCall(m) /\ m.from = t => mq_task[t].msg = m
      BY <3>1, <3>2 DEF MqInv, Calls, StoredOK
    <3>6. mq_send2'[m.addr] = Rec(m)'
      BY <1>10, <2>1, <3>3, <3>4, <3>5
    <3>7. Rec(m)' = Rec(mq_task[u].msg)'
      BY <3>1, <3>2
    <3>. QED
      BY <3>1, <3>2, <3>3, <3>6, <3>7
  <2>. QED
    BY <2>2, <2>3 DEF Records
<1>. QED
  BY <1>2, <1>6, <1>7, <1>9, <1>11 DEF MqInv, Mq!EventIsOfItsMessage

\* store_msg and its probe keep MqInv: the receiver notes the address of the message it took.
LEMMA MqStore ==
  ASSUME MqInv, NEW t \in Task, NEW m \in mq_queue, Mq!Store(t, m), Mq!TypeOK'
  PROVE  MqInv'
<1>1. mq_task \in [Task -> Mq!Call] /\ mq_rcv1 \in [Task -> Mq!RcvInfo \cup {None}]
  BY DEF MqInv, Mq!TypeOK
<1>2. /\ MqFrame(t) /\ mq_task'[t].at = "stored" /\ mq_task[t].at = "receiving"
      /\ mq_task'[t].call = mq_task[t].call /\ mq_task'[t].msg = m
      /\ mq_queue' = mq_queue \ {m}
      /\ mq_ev' = None /\ UNCHANGED <<mq_send1, mq_send2, mq_reused, mq_refused>>
  BY <1>1 DEF Mq!Store, MqFrame
<1>3. m \in Live /\ m \in Mq!Message /\ m.addr \in Addr /\ m # None
  BY LiveTypes, RecordAssumption DEF Live
<1>4. Live' \subseteq Live \ {m} /\ Sent' = Sent /\ Stored' \subseteq Stored \cup {t}
      /\ t \notin Stored /\ t \notin Sent
  <2>1. \A u \in Task : mq_task[u].at = "loaded" => mq_task[u].msg # m
    BY DEF MqInv, Calls, CallOK
  <2>. QED
    BY <1>2, <2>1 DEF Live, Sent, Stored, MqFrame
<1>5. \A n \in Mq!Message : (InCall(n)' <=> InCall(n)) /\ Rec(n)' = Rec(n)
  <2>1. \A n \in Mq!Message : InCall(n)' <=> InCall(n)
    BY <1>2 DEF InCall, MqFrame, Mq!Message
  <2>. QED
    BY <2>1 DEF Rec
<1>6. \A u \in Stored \cup Sent : mq_task'[u] = mq_task[u] /\ (Doubtful(u)' <=> Doubtful(u))
  BY <1>2, <1>4 DEF MqFrame, Doubtful, Stored, Sent
<1>7. Calls'
  <2>1. ASSUME NEW u \in Task PROVE CallOK(u)'
    <3>1. CallOK(u) /\ CallOK(t)
      BY DEF MqInv, Calls
    <3>2. CASE u = t
      BY <1>2, <3>1, <3>2 DEF CallOK, MqFrame
    <3>3. CASE u # t
      BY <1>2, <3>1, <3>3 DEF CallOK, MqFrame
    <3>. QED
      BY <3>2, <3>3
  <2>2. ASSUME NEW n \in Live' PROVE LiveOK(n)'
    BY <1>2, <1>4, <1>5, <2>2, LiveTypes DEF LiveOK, MqInv, Calls, MqFrame
  <2>3. ASSUME NEW u \in Stored' PROVE StoredOK(u)'
    <3>1. CASE u = t
      <4>1. LiveOK(m) /\ m.from \in Task
        BY <1>3, LiveTypes DEF MqInv, Calls
      <4>2. InCall(m) => mq_task[m.from].at = "sent" /\ mq_task[m.from].msg = m
        BY <4>1 DEF LiveOK, MqInv, Calls, CallOK
      <4>3. InCall(mq_task[u].msg)' <=> InCall(m)
        BY <1>2, <1>3, <1>5, <3>1 DEF InCall
      <4>. QED
        BY <1>2, <3>1, <4>1, <4>2, <4>3 DEF StoredOK, LiveOK, MqFrame
    <3>2. CASE u \in Stored
      <4>1. mq_task'[u] = mq_task[u] /\ StoredOK(u)
        BY <1>6, <3>2 DEF MqInv, Calls
      <4>2. mq_task[u].msg \in Mq!Message /\ mq_task[u].msg.from \in Task
        BY <3>2, LiveTypes
      <4>3. InCall(mq_task[u].msg)' <=> InCall(mq_task[u].msg)
        BY <1>5, <4>1, <4>2 DEF InCall
      <4>. QED
        BY <1>2, <4>1, <4>2, <4>3 DEF StoredOK, MqFrame
    <3>. QED
      BY <1>4, <3>1, <3>2
  <2>. QED
    BY <2>1, <2>2, <2>3 DEF Calls
<1>8. Addresses'
  <2>1. \A n \in Live' : n.addr # m.addr
    BY <1>3, <1>4 DEF MqInv, Addresses
  <2>2. \A u \in Stored : mq_task[u].msg.addr = m.addr => Doubtful(u) /\ m.call \in mq_reused
    BY <1>3 DEF MqInv, Addresses, Doubtful
  <2>3. \A u \in Sent : mq_task[u].msg.addr = m.addr => mq_task[u].msg = m \/ m.call \in mq_reused
    BY <1>3 DEF MqInv, Addresses
  <2>4. m.call \in mq_reused => Doubtful(t)'
    BY <1>2 DEF Doubtful
  <2>5. \A n \in Live', u \in Stored' : mq_task'[u].msg.addr = n.addr =>
          n.call \in mq_reused' /\ mq_task'[u].call \in mq_reused'
    BY <1>2, <1>4, <1>6, <2>1 DEF MqInv, Addresses
  <2>6. \A u, v \in Stored' : u # v /\ mq_task'[u].msg.addr = mq_task'[v].msg.addr => Doubtful(u)'
    BY <1>2, <1>4, <1>6, <2>2, <2>4 DEF MqInv, Addresses
  <2>7. \A u \in Stored', v \in Sent' : mq_task'[u].msg.addr = mq_task'[v].msg.addr =>
          mq_task'[u].msg = mq_task'[v].msg \/ Doubtful(u)'
    BY <1>2, <1>4, <1>6, <2>3, <2>4 DEF MqInv, Addresses
  <2>. QED
    BY <1>2, <1>4, <1>6, <2>5, <2>6, <2>7 DEF MqInv, Addresses
<1>9. /\ \A u \in Task \ {t} : mq_rcv1'[u] = mq_rcv1[u]
      /\ mq_rcv1[t] # None => mq_rcv1[t].key = None
      /\ mq_rcv1'[t] # mq_rcv1[t] => mq_rcv1'[t] # None /\ mq_rcv1'[t].key = m.addr
      /\ mq_send2[m.addr] # None /\ mq_rcv1[t] # None => mq_rcv1'[t] # None /\ mq_rcv1'[t].key = m.addr
  <2>1. mq_rcv1' = IF mq_send2[m.addr] = None \/ mq_rcv1[t] = None THEN mq_rcv1
                   ELSE [mq_rcv1 EXCEPT ![t].key = m.addr]
    BY DEF Mq!Store
  <2>2. mq_rcv1[t] # None => mq_rcv1[t].key = None
    BY <1>2 DEF MqInv, Entries
  <2>3. mq_rcv1[t] # None => LET i == [mq_rcv1[t] EXCEPT !.key = m.addr] IN
                             i \in Mq!RcvInfo /\ i.key = m.addr
    BY <1>1, <1>3 DEF Mq!RcvInfo
  <2>4. mq_rcv1[t] # None => [mq_rcv1[t] EXCEPT !.key = m.addr] # None
    BY <2>3, RecordAssumption
  <2>. QED
    BY <1>1, <2>1, <2>2, <2>3, <2>4
<1>10. Entries'
  <2>1. mq_rcv1'[t] # None => mq_rcv1'[t].key = None \/ mq_rcv1'[t].key = m.addr
    BY <1>9
  <2>. QED
    BY <1>2, <1>3, <1>9, <2>1 DEF MqInv, Entries, MqFrame
<1>11. Records'
  <2>. SUFFICES ASSUME ~mq_refused' PROVE Records'
    BY DEF Records
  <2>1. ~mq_refused /\ mq_rcv1[t] # None
    BY <1>2 DEF MqInv, Entries
  <2>2. ASSUME NEW n \in Live' PROVE n.call \in mq_reused' \/ mq_send2'[n.addr] = Rec(n)'
    BY <1>2, <1>4, <1>5, <2>1, LiveTypes DEF MqInv, Records
  <2>3. ASSUME NEW u \in Stored'
        PROVE  \/ Doubtful(u)'
               \/ /\ mq_rcv1'[u] # None /\ mq_rcv1'[u].key = mq_task'[u].msg.addr
                  /\ mq_send2'[mq_task'[u].msg.addr] = Rec(mq_task[u].msg)'
    <3>1. CASE u = t
      <4>. SUFFICES ASSUME m.call \notin mq_reused
                    PROVE  /\ mq_rcv1'[u] # None /\ mq_rcv1'[u].key = mq_task'[u].msg.addr
                           /\ mq_send2'[mq_task'[u].msg.addr] = Rec(mq_task[u].msg)'
        BY <1>2, <3>1 DEF Doubtful
      <4>1. mq_send2[m.addr] = Rec(m) /\ Rec(m) # None
        BY <1>3, <2>1, RecType DEF MqInv, Records
      <4>2. Rec(mq_task[u].msg)' = Rec(m)
        BY <1>2, <1>3, <1>5, <3>1 DEF Rec, InCall
      <4>. QED
        BY <1>2, <1>9, <2>1, <3>1, <4>1, <4>2
    <3>2. CASE u \in Stored
      <4>1. /\ mq_task'[u] = mq_task[u] /\ mq_rcv1'[u] = mq_rcv1[u] /\ (Doubtful(u)' <=> Doubtful(u))
            /\ mq_task[u].msg \in Mq!Message
        BY <1>4, <1>6, <1>9, <3>2, LiveTypes DEF Stored
      <4>2. Rec(mq_task[u].msg)' = Rec(mq_task[u].msg)
        BY <1>5, <4>1 DEF Rec, InCall
      <4>. QED
        BY <1>2, <2>1, <3>2, <4>1, <4>2 DEF MqInv, Records
    <3>. QED
      BY <1>4, <3>1, <3>2
  <2>. QED
    BY <2>2, <2>3 DEF Records
<1>. QED
  BY <1>2, <1>7, <1>8, <1>10, <1>11 DEF MqInv, Mq!EventIsOfItsMessage

\* A receive that fails keeps MqInv.
LEMMA MqRcvFails ==
  ASSUME MqInv, NEW t \in Task, Mq!RcvFails(t), Mq!TypeOK'
  PROVE  MqInv'
<1>1. mq_task \in [Task -> Mq!Call]
  BY DEF MqInv, Mq!TypeOK
<1>2. /\ MqFrame(t) /\ mq_task'[t].at = "stored" /\ mq_task[t].at = "receiving"
      /\ mq_task'[t].call = mq_task[t].call /\ mq_task'[t].msg = mq_task[t].msg
      /\ mq_ev' = None /\ UNCHANGED <<mq_queue, mq_send1, mq_send2, mq_rcv1, mq_reused, mq_refused>>
  BY <1>1 DEF Mq!RcvFails, MqFrame, Mq!Call
<1>3. mq_task[t].msg = None
  BY <1>2 DEF MqInv, Calls, CallOK
<1>4. Live' = Live /\ Sent' = Sent /\ Stored' = Stored /\ t \notin Stored \cup Sent
  BY <1>2, <1>3 DEF Live, Sent, Stored, MqFrame
<1>5. \A m \in Mq!Message : (InCall(m)' <=> InCall(m)) /\ Rec(m)' = Rec(m)
  <2>1. \A m \in Mq!Message : InCall(m)' <=> InCall(m)
    BY <1>2 DEF InCall, MqFrame, Mq!Message
  <2>. QED
    BY <2>1 DEF Rec
<1>6. \A u \in Stored \cup Sent : mq_task'[u] = mq_task[u] /\ (Doubtful(u)' <=> Doubtful(u))
  BY <1>2, <1>4 DEF MqFrame, Doubtful, Stored, Sent
<1>7. \A u \in Stored : /\ (InCall(mq_task[u].msg)' <=> InCall(mq_task[u].msg))
                        /\ Rec(mq_task[u].msg)' = Rec(mq_task[u].msg)
  BY <1>5, <1>6, LiveTypes DEF Rec, InCall
<1>8. Calls'
  <2>1. ASSUME NEW u \in Task PROVE CallOK(u)'
    BY <1>2, <1>3 DEF CallOK, MqFrame, MqInv, Calls
  <2>2. ASSUME NEW m \in Live' PROVE LiveOK(m)'
    BY <1>2, <1>4, <1>5, <2>2, LiveTypes DEF LiveOK, MqInv, Calls, MqFrame
  <2>3. ASSUME NEW u \in Stored' PROVE StoredOK(u)'
    <3>1. u \in Stored /\ mq_task'[u] = mq_task[u] /\ StoredOK(u) /\ mq_task[u].msg.from \in Task
      BY <1>4, <1>6, <2>3, LiveTypes DEF MqInv, Calls
    <3>. QED
      BY <1>2, <1>7, <3>1 DEF StoredOK, MqFrame
  <2>. QED
    BY <2>1, <2>2, <2>3 DEF Calls
<1>9. Addresses'
  BY <1>2, <1>4, <1>6 DEF MqInv, Addresses
<1>10. Entries'
  BY <1>2 DEF MqInv, Entries, MqFrame
<1>11. Records'
  BY <1>2, <1>4, <1>5, <1>6, <1>7, LiveTypes DEF MqInv, Records
<1>. QED
  BY <1>2, <1>8, <1>9, <1>10, <1>11 DEF MqInv, Mq!EventIsOfItsMessage

\* do_mq_timedreceive_exit keeps the invariant: the event it writes, if its address was not
\* shared and no map was full, is made of the record of the message that was received.
LEMMA MqRcvExit ==
  ASSUME MqInv, NEW t \in Task, Mq!RcvExit(t), Mq!TypeOK'
  PROVE  MqInv'
<1>1. /\ mq_task \in [Task -> Mq!Call] /\ mq_rcv1 \in [Task -> Mq!RcvInfo \cup {None}]
      /\ mq_send2 \in [Addr -> Mq!SendInfo \cup {None}]
  BY DEF MqInv, Mq!TypeOK
<1>2. /\ MqFrame(t) /\ mq_task'[t].at = "idle" /\ mq_task[t].at = "stored"
      /\ mq_task'[t].call = 0
      /\ UNCHANGED <<mq_queue, mq_send1, mq_reused, mq_refused>>
  BY <1>1 DEF Mq!RcvExit, MqFrame, Mq!Idle
<1>3. /\ Live' = Live /\ Sent' = Sent /\ Stored' \subseteq Stored \ {t} /\ t \notin Sent
  BY <1>2 DEF Live, Sent, Stored, MqFrame
<1>4. \A m \in Mq!Message : InCall(m)' <=> InCall(m) /\ m.from # t
  BY <1>2 DEF InCall, MqFrame, Mq!Message
<1>5. \A u \in Stored' \cup Sent : mq_task'[u] = mq_task[u] /\ (Doubtful(u)' <=> Doubtful(u))
  BY <1>2, <1>3 DEF MqFrame, Doubtful, Stored, Sent
\* No message of t itself is in a call: t is receiving.
<1>6. /\ \A m \in Live : (InCall(m)' <=> InCall(m)) /\ Rec(m)' = Rec(m)
      /\ \A u \in Stored : InCall(mq_task[u].msg) => mq_task[u].msg.from # t
  <2>1. \A m \in Live : InCall(m) => m.from # t
    BY <1>2, LiveTypes DEF MqInv, Calls, LiveOK
  <2>2. \A u \in Stored : InCall(mq_task[u].msg) => mq_task[u].msg.from # t
    BY <1>2, LiveTypes DEF MqInv, Calls, StoredOK
  <2>3. \A m \in Live : InCall(m)' <=> InCall(m)
    BY <1>4, <2>1, LiveTypes
  <2>. QED
    BY <2>2, <2>3 DEF Rec
<1>7. ASSUME NEW u \in Stored'
      PROVE  /\ u \in Stored /\ u # t /\ mq_task'[u] = mq_task[u]
             /\ (InCall(mq_task[u].msg)' <=> InCall(mq_task[u].msg))
             /\ Rec(mq_task[u].msg)' = Rec(mq_task[u].msg)
  <2>1. u \in Stored /\ u # t /\ mq_task'[u] = mq_task[u]
    BY <1>3, <1>5
  <2>2. PICK m \in Mq!Message : m = mq_task[u].msg
    BY <2>1, LiveTypes
  <2>3. InCall(m)' <=> InCall(m)
    BY <1>4, <1>6, <2>1, <2>2
  <2>. QED
    BY <2>1, <2>2, <2>3 DEF Rec, InCall
<1>8. Calls'
  <2>1. ASSUME NEW u \in Task PROVE CallOK(u)'
    <3>1. CallOK(u) /\ CallOK(t) /\ mq_calls \in Nat
      BY WatcherAssumption DEF MqInv, Calls, Mq!TypeOK
    <3>2. CASE u = t
      BY <1>2, <3>1, <3>2 DEF CallOK, MqFrame
    <3>3. CASE u # t
      BY <1>2, <3>1, <3>3 DEF CallOK, MqFrame
    <3>. QED
      BY <3>2, <3>3
  <2>2. ASSUME NEW m \in Live' PROVE LiveOK(m)'
    <3>1. m \in Live /\ LiveOK(m) /\ m.from \in Task /\ (InCall(m)' <=> InCall(m))
      BY <1>3, <1>6, <2>2, LiveTypes DEF MqInv, Calls
    <3>. QED
      BY <1>2, <3>1 DEF LiveOK, MqFrame
  <2>3. ASSUME NEW u \in Stored' PROVE StoredOK(u)'
    <3>1. StoredOK(u) /\ mq_task[u].msg.from \in Task
      BY <1>7, <2>3, LiveTypes DEF MqInv, Calls
    <3>. QED
      BY <1>2, <1>7, <3>1 DEF StoredOK, MqFrame
  <2>. QED
    BY <2>1, <2>2, <2>3 DEF Calls
<1>9. Addresses'
  BY <1>2, <1>3, <1>5 DEF MqInv, Addresses
\* What the probe finds.
<1>10. ASSUME Mq!RecordOf(mq_rcv1[t]) # None
       PROVE  /\ mq_rcv1[t] # None /\ mq_rcv1[t].key \in Addr
              /\ t \in Stored /\ mq_rcv1[t].key = mq_task[t].msg.addr
              /\ Mq!RecordOf(mq_rcv1[t]) = mq_send2[mq_task[t].msg.addr]
  <2>1. mq_rcv1[t] # None /\ mq_rcv1[t].key # None
    BY <1>10 DEF Mq!RecordOf
  <2>2. mq_rcv1[t].key \in Addr
    BY <1>1, <2>1 DEF Mq!RcvInfo
  <2>3. mq_task[t].msg # None /\ mq_rcv1[t].key = mq_task[t].msg.addr
    BY <1>2, <2>1 DEF MqInv, Entries
  <2>. QED
    BY <1>2, <2>1, <2>2, <2>3 DEF Mq!RecordOf, Stored
<1>11. /\ \A u \in Task \ {t} : mq_rcv1'[u] = mq_rcv1[u]
       /\ \A a \in Addr : mq_send2'[a] # mq_send2[a] => t \in Stored /\ a = mq_task[t].msg.addr
  BY <1>1, <1>10 DEF Mq!RcvExit
<1>12. Entries'
  BY <1>2, <1>11 DEF MqInv, Entries, MqFrame
<1>13. Records'
  <2>. SUFFICES ASSUME ~mq_refused' PROVE Records'
    BY DEF Records
  <2>1. ~mq_refused
    BY <1>2
  <2>2. ASSUME NEW m \in Live' PROVE m.call \in mq_reused' \/ mq_send2'[m.addr] = Rec(m)'
    <3>. SUFFICES ASSUME m.call \notin mq_reused PROVE mq_send2'[m.addr] = Rec(m)'
      BY <1>2
    <3>1. m \in Live /\ m.addr \in Addr /\ mq_send2[m.addr] = Rec(m)
      BY <1>3, <2>1, LiveTypes DEF MqInv, Records
    <3>2. mq_send2'[m.addr] = mq_send2[m.addr]
      BY <1>11, <3>1 DEF MqInv, Addresses
    <3>. QED
      BY <1>6, <3>1, <3>2
  <2>3. ASSUME NEW u \in Stored'
        PROVE  \/ Doubtful(u)'
               \/ /\ mq_rcv1'[u] # None /\ mq_rcv1'[u].key = mq_task'[u].msg.addr
                  /\ mq_send2'[mq_task'[u].msg.addr] = Rec(mq_task[u].msg)'
    <3>1. u \in Stored /\ u # t /\ mq_task'[u] = mq_task[u] /\ mq_rcv1'[u] = mq_rcv1[u]
      BY <1>7, <1>11, <2>3 DEF Stored
    <3>. SUFFICES ASSUME ~Doubtful(u)
                  PROVE  /\ mq_rcv1'[u] # None /\ mq_rcv1'[u].key = mq_task'[u].msg.addr
                         /\ mq_send2'[mq_task'[u].msg.addr] = Rec(mq_task[u].msg)'
      BY <1>5, <2>3
    <3>2. mq_task[u].msg.addr \in Addr
      BY <3>1, LiveTypes
    <3>3. mq_send2'[mq_task[u].msg.addr] = mq_send2[mq_task[u].msg.addr]
      BY <1>11, <3>1, <3>2 DEF MqInv, Addresses
    <3>4. /\ mq_rcv1[u] # None /\ mq_rcv1[u].key = mq_task[u].msg.addr
          /\ mq_send2[mq_task[u].msg.addr] = Rec(mq_task[u].msg)
      BY <2>1, <3>1 DEF MqInv, Records
    <3>. QED
      BY <1>7, <3>1, <3>3, <3>4
  <2>. QED
    BY <2>2, <2>3 DEF Records
<1>14. Mq!EventIsOfItsMessage'
  <2>. SUFFICES ASSUME mq_ev' # None, mq_ev'.sure
                PROVE  /\ mq_ev'.send_pid = mq_ev'.got.from /\ mq_ev'.send = mq_ev'.got.call
                       /\ mq_ev'.exit = IF /\ mq_task'[mq_ev'.got.from].at # "idle"
                                           /\ mq_task'[mq_ev'.got.from].call = mq_ev'.got.call
                                        THEN 0 ELSE mq_ev'.got.call
    BY DEF Mq!EventIsOfItsMessage
  <2>. DEFINE s == Mq!RecordOf(mq_rcv1[t])
              sure == ~mq_refused /\ {mq_task[t].call, mq_task[t].msg.call} \cap mq_reused = {}
  <2>1. /\ s # None
        /\ mq_ev' = [send_pid |-> s.send_pid, send |-> s.enter, exit |-> s.exit,
                     rcv_pid |-> t, rcv |-> mq_rcv1[t].enter, got |-> mq_task[t].msg, sure |-> sure]
    BY DEF Mq!RcvExit
  <2>. HIDE DEF s, sure
  <2>2. sure
    BY <2>1 DEF sure
  <2>3. ~mq_refused /\ ~Doubtful(t)
    BY <2>2 DEF sure, Doubtful
  <2>4. t \in Stored /\ s = mq_send2[mq_task[t].msg.addr]
    BY <1>10, <2>1 DEF s
  <2>5. PICK m \in Mq!Message : m = mq_task[t].msg
    BY <2>4, LiveTypes
  <2>6. s = Rec(m)
    BY <2>3, <2>4, <2>5 DEF MqInv, Records
  <2>7. InCall(m)' <=> InCall(m)
    BY <1>4, <1>6, <2>4, <2>5
  <2>8. /\ s.send_pid = m.from /\ s.enter = m.call
        /\ s.exit = IF InCall(m)' THEN 0 ELSE m.call
    BY <2>6, <2>7, RecType
  <2>9. mq_ev'.got = m /\ mq_ev'.send_pid = s.send_pid /\ mq_ev'.send = s.enter /\ mq_ev'.exit = s.exit
    BY <2>1, <2>5
  <2>. QED
    BY <2>8, <2>9 DEF InCall
<1>. QED
  BY <1>8, <1>9, <1>12, <1>13, <1>14 DEF MqInv

\* Entering a call moves no record of a message that is about.
LEMMA MqEnterRecords ==
  ASSUME MqInv, Live' = Live, Stored' = Stored, mq_send2' = mq_send2, mq_reused' = mq_reused,
         ~mq_refused' => ~mq_refused,
         \A u \in Stored : mq_task'[u] = mq_task[u] /\ mq_rcv1'[u] = mq_rcv1[u],
         \A m \in Mq!Message : m.call <= mq_calls => Rec(m)' = Rec(m)
  PROVE  Records'
<1>1. \A m \in Live : Rec(m)' = Rec(m)
  BY LiveTypes DEF MqInv, Calls, LiveOK
<1>2. ASSUME NEW u \in Stored
      PROVE  Rec(mq_task[u].msg)' = Rec(mq_task[u].msg) /\ (Doubtful(u)' <=> Doubtful(u))
  <2>1. PICK m \in Mq!Message : m = mq_task[u].msg /\ m.call <= mq_calls
    BY LiveTypes DEF MqInv, Calls, StoredOK
  <2>2. Rec(mq_task[u].msg)' = Rec(m)'
    BY <2>1
  <2>. QED
    BY <2>1, <2>2 DEF Doubtful
<1>. QED
  BY <1>1, <1>2 DEF MqInv, Records

\* do_mq_timedsend keeps the invariant: the entry of the task is new, or refused.
LEMMA MqSendEnter ==
  ASSUME MqInv, NEW t \in Task, Mq!SendEnter(t), Mq!TypeOK'
  PROVE  MqInv'
<1>1. Mq!Enter(t, "sending") /\ UNCHANGED <<mq_queue, mq_send2, mq_rcv1, mq_reused>> /\ mq_ev' = None
  BY DEF Mq!SendEnter, Mq!Enter
<1>2. /\ mq_task'[t].at = "sending" /\ mq_task'[t].call = mq_calls + 1 /\ mq_task'[t].msg = None
      /\ mq_task[t].at = "idle" /\ \A u \in Task \ {t} : mq_task'[u] = mq_task[u]
      /\ Live' = Live /\ Sent' = Sent /\ Stored' = Stored
      /\ \A m \in Mq!Message : m.call <= mq_calls => Rec(m)' = Rec(m)
      /\ Calls' /\ Addresses'
  BY <1>1, MqEnter
<1>3. mq_send1 \in [Task -> Mq!SendInfo \cup {None}] /\ mq_refused \in BOOLEAN
  BY DEF MqInv, Mq!TypeOK
<1>4. PICK ok \in Mq!Room(mq_send1, t) :
        /\ Mq!Refuse(ok)
        /\ mq_send1' = Mq!Update(mq_send1, t,
             [send_pid |-> t, enter |-> mq_calls + 1, exit |-> 0, key |-> None], ok)
  BY DEF Mq!SendEnter
<1>5. /\ \A u \in Task \ {t} : mq_send1'[u] = mq_send1[u]
      /\ ~mq_refused' => /\ ~mq_refused
                         /\ mq_send1'[t] = [send_pid |-> t, enter |-> mq_calls + 1, exit |-> 0, key |-> None]
  BY <1>3, <1>4 DEF Mq!Update, Mq!Refuse
<1>6. Entries'
  BY <1>1, <1>2, <1>5 DEF MqInv, Entries
<1>7. Records'
  <2>1. /\ \A u \in Stored : mq_task'[u] = mq_task[u] /\ mq_rcv1'[u] = mq_rcv1[u]
        /\ ~mq_refused' => ~mq_refused
    BY <1>1, <1>2, <1>5 DEF Stored
  <2>. QED
    BY <1>1, <1>2, <2>1, MqEnterRecords
<1>. QED
  BY <1>1, <1>2, <1>6, <1>7 DEF MqInv, Mq!EventIsOfItsMessage

\* do_mq_timedreceive keeps the invariant: the entry of the task is new, or refused.
LEMMA MqRcvEnter ==
  ASSUME MqInv, NEW t \in Task, Mq!RcvEnter(t), Mq!TypeOK'
  PROVE  MqInv'
<1>1. Mq!Enter(t, "receiving") /\ UNCHANGED <<mq_queue, mq_send1, mq_send2, mq_reused>> /\ mq_ev' = None
  BY DEF Mq!RcvEnter, Mq!Enter
<1>2. /\ mq_task'[t].at = "receiving" /\ mq_task'[t].call = mq_calls + 1 /\ mq_task'[t].msg = None
      /\ mq_task[t].at = "idle" /\ \A u \in Task \ {t} : mq_task'[u] = mq_task[u]
      /\ Live' = Live /\ Sent' = Sent /\ Stored' = Stored
      /\ \A m \in Mq!Message : m.call <= mq_calls => Rec(m)' = Rec(m)
      /\ Calls' /\ Addresses'
  BY <1>1, MqEnter
<1>3. mq_rcv1 \in [Task -> Mq!RcvInfo \cup {None}] /\ mq_refused \in BOOLEAN /\ mq_calls + 1 \in Mq!Number
  BY <1>1, WatcherAssumption DEF MqInv, Mq!TypeOK, Mq!Enter, Mq!Number
<1>4. PICK ok \in Mq!Room(mq_rcv1, t) :
        /\ Mq!Refuse(ok)
        /\ mq_rcv1' = Mq!Update(mq_rcv1, t, [enter |-> mq_calls + 1, key |-> None], ok)
  BY DEF Mq!RcvEnter
<1>5. PICK new \in Mq!RcvInfo : new = [enter |-> mq_calls + 1, key |-> None]
  BY <1>3 DEF Mq!RcvInfo
<1>6. new # None /\ new.key = None
  BY <1>5, RecordAssumption
<1>7. mq_rcv1' = Mq!Update(mq_rcv1, t, new, ok)
  BY <1>4, <1>5
<1>8. /\ \A u \in Task \ {t} : mq_rcv1'[u] = mq_rcv1[u]
      /\ mq_rcv1'[t] # None => mq_rcv1'[t].key = None
      /\ ~mq_refused' => ~mq_refused /\ mq_rcv1'[t] # None
  <2>1. mq_rcv1[t] # None => ok
    BY <1>4 DEF Mq!Room
  <2>2. ~mq_refused' => ~mq_refused /\ ok
    BY <1>3, <1>4 DEF Mq!Refuse
  <2>. QED
    BY <1>3, <1>6, <1>7, <2>1, <2>2 DEF Mq!Update
<1>9. Entries'
  BY <1>1, <1>2, <1>8 DEF MqInv, Entries
<1>10. Records'
  <2>1. /\ \A u \in Stored : mq_task'[u] = mq_task[u] /\ mq_rcv1'[u] = mq_rcv1[u]
        /\ ~mq_refused' => ~mq_refused
    BY <1>2, <1>8 DEF Stored
  <2>. QED
    BY <1>1, <1>2, <2>1, MqEnterRecords
<1>. QED
  BY <1>1, <1>2, <1>9, <1>10 DEF MqInv, Mq!EventIsOfItsMessage

\* Every step of the system keeps the invariant of the message queue's probes.
LEMMA MqStep == MqInv /\ [Mq!Next]_mq => MqInv'
<1>. SUFFICES ASSUME MqInv, [Mq!Next]_mq PROVE MqInv'
  OBVIOUS
<1>1. Mq!TypeOK'
  BY MqTypeStep DEF MqInv
<1>2. CASE UNCHANGED mq
  BY <1>2 DEF mq, MqInv, Mq!TypeOK, Mq!EventIsOfItsMessage, Calls, CallOK, LiveOK, StoredOK, Addresses,
              Entries, Records, Live, Sent, Stored, Doubtful, InCall, Rec
<1>3. CASE Mq!Next
  <2>1. PICK t \in Task :
          \/ Mq!SendEnter(t) \/ Mq!Send(t) \/ Mq!SendExit(t) \/ Mq!RcvEnter(t) \/ Mq!RcvFails(t)
          \/ Mq!RcvExit(t)
          \/ \E a \in Addr : Mq!Load(t, a)
          \/ \E m \in mq_queue : Mq!Store(t, m)
    BY <1>3 DEF Mq!Next
  <2>. QED
    BY <1>1, <2>1, MqSendEnter, MqSend, MqSendExit, MqRcvEnter, MqRcvFails, MqRcvExit, MqLoad, MqStore
<1>. QED
  BY <1>2, <1>3

\* A receiver that took a message gets its event: its entry leads to the record of the
\* message until its own return probe runs.
LEMMA MqReceipt == MqInv /\ [Mq!Next]_mq => Mq!ReceiptStep
<1>. SUFFICES ASSUME MqInv, [Mq!Next]_mq, NEW u \in Task,
                     mq_task[u].at = "stored", mq_task'[u].at = "idle", mq_task[u].msg # None,
                     ~mq_refused, ~mq_lost', {mq_task[u].call, mq_task[u].msg.call} \cap mq_reused = {}
              PROVE  mq_ev' # None
  BY DEF Mq!ReceiptStep
<1>1. mq_task \in [Task -> Mq!Call]
  BY DEF MqInv, Mq!TypeOK
<1>2. Mq!RcvExit(u)
  <2>1. mq_task' # mq_task
    OBVIOUS
  <2>2. Mq!Next
    BY <2>1 DEF mq
  <2>3. PICK t \in Task :
          \/ Mq!SendEnter(t) \/ Mq!Send(t) \/ Mq!SendExit(t) \/ Mq!RcvEnter(t) \/ Mq!RcvFails(t)
          \/ Mq!RcvExit(t)
          \/ \E a \in Addr : Mq!Load(t, a)
          \/ \E m \in mq_queue : Mq!Store(t, m)
    BY <2>2 DEF Mq!Next
  <2>4. Mq!Enter(t, "sending") \/ Mq!Enter(t, "receiving") => FALSE
    BY <1>1 DEF Mq!Enter
  <2>5. ~Mq!Send(t) /\ ~Mq!SendExit(t) /\ ~Mq!RcvFails(t)
    BY <1>1 DEF Mq!Send, Mq!SendExit, Mq!RcvFails
  <2>6. /\ \A a \in Addr : ~Mq!Load(t, a)
        /\ \A m \in mq_queue : ~Mq!Store(t, m)
    BY <1>1 DEF Mq!Load, Mq!Store
  <2>7. Mq!RcvExit(t)
    BY <2>3, <2>4, <2>5, <2>6 DEF Mq!SendEnter, Mq!RcvEnter
  <2>8. t = u
    BY <1>1, <2>7 DEF Mq!RcvExit
  <2>. QED
    BY <2>7, <2>8
<1>3. u \in Stored /\ ~Doubtful(u)
  BY DEF Stored, Doubtful
<1>4. PICK m \in Mq!Message : m = mq_task[u].msg
  BY <1>3, LiveTypes
<1>5. mq_rcv1[u] # None /\ mq_rcv1[u].key = m.addr /\ mq_send2[m.addr] = Rec(m)
  BY <1>3, <1>4 DEF MqInv, Records
<1>6. Rec(m) # None /\ m.addr # None
  BY RecType, NameAssumption DEF Mq!Message
<1>7. Mq!RecordOf(mq_rcv1[u]) # None
  BY <1>5, <1>6 DEF Mq!RecordOf
<1>8. mq_lost' \/ mq_ev' \in Mq!Event
  <2>. DEFINE info == mq_rcv1[u]
              s == Mq!RecordOf(info)
              sure == ~mq_refused /\ {mq_task[u].call, mq_task[u].msg.call} \cap mq_reused = {}
  <2>1. s \in Mq!SendInfo /\ info \in Mq!RcvInfo
    BY <1>4, <1>5, <1>6, <1>7, RecType DEF Mq!RecordOf, MqInv, Mq!TypeOK
  <2>. HIDE DEF s, info, sure
  <2>2. [send_pid |-> s.send_pid, send |-> s.enter, exit |-> s.exit, rcv_pid |-> u,
         rcv |-> info.enter, got |-> mq_task[u].msg, sure |-> sure] \in Mq!Event
    BY <1>4, <2>1 DEF Mq!RcvInfo, Mq!SendInfo, Mq!Event, sure
  <2>. QED
    BY <1>2, <1>7, <2>2 DEF Mq!RcvExit, s, info, sure
<1>. QED
  BY <1>8, RecordAssumption

-----------------------------------------------------------------------------
(* The tool: a behaviour is about one watcher, whose invariant it keeps. *)

WatcherInv ==
  /\ watcher \in {"cs", "preempt", "sc", "schedule", "sar", "mq", "mutrace", "control"}
  /\ watcher = "mq" => MqInv
  /\ watcher = "sc" => ScInv
  /\ watcher = "cs" => CsInv
  /\ watcher = "preempt" => PtInv
  /\ watcher = "schedule" => SdInv
  /\ watcher = "mutrace" => MuInv
  /\ watcher = "sar" => SmInv
  /\ watcher = "control" => ControlInv

\* The initial states of the eight parts satisfy their invariants.
LEMMA WatcherInit == Init => WatcherInv
BY MqInit, ScInit, CsInit, PtInit, SdInit, MuInit, SmInit, ControlInit DEF Init, WatcherInv

\* A step is one of the watcher the tool was started with, and that one keeps its invariant.
LEMMA WatcherStep == WatcherInv /\ [Next]_vars => WatcherInv'
<1>. SUFFICES ASSUME WatcherInv, [Next]_vars PROVE WatcherInv'
  OBVIOUS
<1>1. UNCHANGED watcher
  BY DEF Next, vars
<1>2. /\ watcher = "mq" => [Mq!Next]_mq
      /\ watcher = "sc" => [Sc!Next]_sc
      /\ watcher = "cs" => [Cs!Next]_cs
      /\ watcher = "preempt" => [Pt!Next]_pt
      /\ watcher = "schedule" => [Sd!Next]_sd
      /\ watcher = "mutrace" => [Mu!Next]_mu
      /\ watcher = "sar" => [Sm!Next]_sm
      /\ watcher = "control" => [Wc!Next]_wc
  BY DEF Next, vars
<1>. QED
  BY <1>1, <1>2, MqStep, ScStep, CsStep, PtStep, SdStep, MuStep, SmStep, ControlStep DEF WatcherInv

\* In every behaviour of the tool the watcher it was started with keeps its invariant.
THEOREM Inductive == Spec => []WatcherInv
BY WatcherInit, WatcherStep, PTL DEF Spec

\* The type invariant of every watcher holds for all sizes of tables, tasks and CPUs.
THEOREM TypeCorrect == Spec => []TypeOK
<1>1. WatcherInv => TypeOK
  BY MuSafe DEF WatcherInv, TypeOK, MqInv, ScInv, CsInv, PtInv, SdInv, SmInv, ControlInv
<1>. QED
  BY <1>1, Inductive, PTL

\* An event of mq_delay names the sender of the message that was received and the times of
\* its send, unless the address was shared or a map was full (mq_delay.bpf.c, the probes of
\* do_mq_timedsend, load_msg, store_msg and do_mq_timedreceive).
THEOREM EventsNameTheirMessage == Spec => []EventIsOfItsMessage
<1>1. WatcherInv => EventIsOfItsMessage
  BY DEF WatcherInv, EventIsOfItsMessage, MqInv
<1>. QED
  BY <1>1, Inductive, PTL

\* Under the same conditions every message received gets its event: no other task's probe
\* takes away the record its receiver needs (mq_delay.bpf.c, do_mq_timedreceive_exit).
THEOREM ReceiptsAreReported == Spec => ReceiptIsReported
<1>1. WatcherInv /\ [Next]_vars => [watcher = "mq" => Mq!ReceiptStep]_vars
  <2>. SUFFICES ASSUME WatcherInv, [Next]_vars, watcher = "mq" PROVE Mq!ReceiptStep
    OBVIOUS
  <2>1. MqInv /\ [Mq!Next]_mq
    BY DEF WatcherInv, Next, vars
  <2>. QED
    BY <2>1, MqReceipt
<1>. QED
  BY <1>1, Inductive, PTL DEF Spec, ReceiptIsReported

\* A line of sc_delay has the number and the duration of its own call, whichever CPUs the
\* task ran on, unless a task that died in a call left its time behind (sc_delay.bpf.c).
THEOREM LinesAreOfTheirCall == Spec => []LineIsOfItsCall
<1>1. WatcherInv => LineIsOfItsCall
  BY DEF WatcherInv, LineIsOfItsCall, ScInv
<1>. QED
  BY <1>1, Inductive, PTL

\* The CPU that entered schedule() last reads its own time from the slot all CPUs share
\* (cs_delay.bpf.c).
THEOREM LastEntriesAreExact == Spec => []LastEntryIsExact
<1>1. WatcherInv => LastEntryIsExact
  BY DEF WatcherInv, LastEntryIsExact, CsInv
<1>. QED
  BY <1>1, Inductive, PTL

\* An event of preempt is about a preemption and has its duration, unless an event of the
\* same task was lost before (preempt.bpf.c).
THEOREM EventsAreOfPreemptions == Spec => []EventIsOfAPreemption
<1>1. PtInv => Pt!EventIsOfAPreemption
  BY DEF PtInv, Sound, Pt!EventIsOfAPreemption
<1>2. WatcherInv => EventIsOfAPreemption
  BY <1>1 DEF WatcherInv, EventIsOfAPreemption
<1>. QED
  BY <1>2, Inductive, PTL

\* The wait schedule_delay shows is the wait of the task it names (schedule_delay.bpf.c).
THEOREM WaitsAreExact == Spec => []WaitIsExact
<1>1. WatcherInv => WaitIsExact
  BY DEF WatcherInv, WaitIsExact, SdInv
<1>. QED
  BY <1>1, Inductive, PTL

\* The printer of waits gives up only between the two writes of a task's first wait
\* (schedule_print in cpu_watcher.c against schedule_delay.bpf.c).
THEOREM PrinterFailsInFirstSwitchOnly == Spec => []FailsInFirstSwitchOnly
<1>1. WatcherInv => FailsInFirstSwitchOnly
  BY DEF WatcherInv, FailsInFirstSwitchOnly, SdInv
<1>. QED
  BY <1>1, Inductive, PTL

\* The open-addressing table of mutrace counts every mutex exactly, for every size of the
\* table and every set of colliding mutexes, and a search hangs only in a full table
\* (increment_lock_count and get_lock_count in cpu_watcher_helper.h).
THEOREM TableCountsExactly == Spec => []TableIsRight
<1>1. WatcherInv => TableIsRight
  BY MuSafe DEF WatcherInv, TableIsRight
<1>. QED
  BY <1>1, Inductive, PTL

\* A total of sar is the time of the stints that ended, which races only make smaller, and
\* a figure is what its interval added (sar.bpf.c, print_all in cpu_watcher.c).
THEOREM FiguresAreExact == Spec => []FiguresAreRight
<1>1. WatcherInv => FiguresAreRight
  BY DEF WatcherInv, FiguresAreRight, SmInv
<1>. QED
  BY <1>1, Inductive, PTL

\* A watcher is on or off as the last command said, outside the two windows in which a
\* command can be overtaken (controller.c, and the printers that write the control map back).
THEOREM CommandsAreKept == Spec => []CommandIsKept
<1>1. WatcherInv => CommandIsKept
  BY DEF WatcherInv, CommandIsKept, ControlInv
<1>. QED
  BY <1>1, Inductive, PTL

\* Nothing an earlier instance pinned keeps the tool from starting (cpu_watcher.c, main).
THEOREM PinsAreFree == Spec => []PinIsFree
<1>1. WatcherInv => PinIsFree
  BY DEF WatcherInv, PinIsFree, ControlInv
<1>. QED
  BY <1>1, Inductive, PTL
=============================================================================
