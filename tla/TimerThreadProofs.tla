-------------------------- MODULE TimerThreadProofs --------------------------
(***************************************************************************)
(* Safety of the timer thread protocol of proc_image.c for any number of   *)
(* threads.  JoinHasAHandle is not inductive: it rests on exit_thread      *)
(* being raised only by a thread, and on a thread existing only after      *)
(* thread_enable was set.  The refinement needs only the types.            *)
(***************************************************************************)
EXTENDS TimerThread, TLAPS

\* Threads exist, and the exit flag is up, only once thread_enable names a thread.
HandleBeforeThreads ==
  /\ thread_enable = NoThread => \A t \in Thread : th[t] = "free"
  /\ exit_thread \/ pc = "join" => thread_enable # NoThread

IInv == TypeOK /\ CreateFlagHasAnOwner /\ HandleBeforeThreads

LEMMA InitIInv == Init => IInv
BY DEF Init, IInv, TypeOK, CreateFlagHasAnOwner, HandleBeforeThreads, MainAt, ThreadAt

LEMMA MainIInv == IInv /\ Main => IInv'
<1>. SUFFICES ASSUME IInv, Main PROVE IInv'
  OBVIOUS
<1>. USE DEF IInv, TypeOK, CreateFlagHasAnOwner, HandleBeforeThreads, MainAt,
             ThreadAt, flags
<1>1. CASE LoopTest
  BY <1>1 DEF LoopTest
<1>2. CASE Reap
  BY <1>2 DEF Reap
<1>3. CASE Join
  BY <1>3 DEF Join
<1>4. CASE Spawn
  BY <1>4, TimerAssumption DEF Spawn
<1>5. CASE Poll
  BY <1>5 DEF Poll
<1>6. ASSUME NEW i \in {"resource", "schedule"}, PrintStart(i) PROVE IInv'
  BY <1>6 DEF PrintStart, Printing, After
<1>7. ASSUME NEW i \in Image, PrintEnd(i) PROVE IInv'
  BY <1>7, TimerAssumption DEF PrintEnd, Printing, After
<1>. QED
  BY <1>1, <1>2, <1>3, <1>4, <1>5, <1>6, <1>7 DEF Main

LEMMA TimerIInv == ASSUME NEW t \in Thread PROVE IInv /\ Timer(t) => IInv'
<1>. SUFFICES ASSUME IInv, Timer(t) PROVE IInv'
  OBVIOUS
<1>. USE DEF IInv, TypeOK, CreateFlagHasAnOwner, HandleBeforeThreads, MainAt,
             ThreadAt, Move
<1>1. CASE Start(t)
  BY <1>1 DEF Start
<1>2. CASE Request(t, "resource", "schedule")
  BY <1>2 DEF Request
<1>3. CASE Request(t, "schedule", "lower")
  BY <1>3 DEF Request
<1>4. CASE Lower(t)
  BY <1>4 DEF Lower
<1>5. CASE Raise(t)
  BY <1>5 DEF Raise
<1>. QED
  BY <1>1, <1>2, <1>3, <1>4, <1>5 DEF Timer

LEMMA NextIInv == IInv /\ [Next]_vars => IInv'
<1>. SUFFICES ASSUME IInv, [Next]_vars PROVE IInv'
  OBVIOUS
<1>1. CASE Main
  BY <1>1, MainIInv
<1>2. ASSUME NEW t \in Thread, Timer(t) PROVE IInv'
  BY <1>2, TimerIInv
<1>. USE DEF IInv, TypeOK, CreateFlagHasAnOwner, HandleBeforeThreads
<1>3. CASE Signal
  BY <1>3 DEF Signal, flags
<1>4. ASSUME NEW i \in Image, SetFunc(i) PROVE IInv'
  BY <1>4 DEF SetFunc, flags
<1>5. CASE UNCHANGED vars
  BY <1>5 DEF vars, flags
<1>. QED
  BY <1>1, <1>2, <1>3, <1>4, <1>5 DEF Next, Gone

\* The invariant holds throughout every behaviour, fair or not.
THEOREM TimerInvariance == Spec => []IInv
BY InitIInv, NextIInv, PTL DEF Spec

\* Every variable of the loop and its threads keeps its type.
THEOREM TimerTypeCorrect == Spec => []TypeOK
<1>1. IInv => TypeOK
  BY DEF IInv
<1>. QED
  BY <1>1, TimerInvariance, PTL

\* For any number of overlapping timer threads, a raised create_thread is about
\* to be lowered by one of them, so the loop is never left without a timer.
THEOREM CreateFlagIsOwned == Spec => []CreateFlagHasAnOwner
<1>1. IInv => CreateFlagHasAnOwner
  BY DEF IInv
<1>. QED
  BY <1>1, TimerInvariance, PTL

\* main never hands its uninitialised thread_enable to pthread_join.
THEOREM JoinIsInitialised == Spec => []JoinHasAHandle
<1>1. IInv => JoinHasAHandle
  BY DEF IInv, HandleBeforeThreads, JoinHasAHandle
<1>. QED
  BY <1>1, TimerInvariance, PTL
------------------------------------------------------------------------------
(* The loop and its threads implement PeriodicOutput. *)

LEMMA InitImplements == Init => Periodic!Init
BY DEF Init, Periodic!Init, Printing, Stopped

LEMMA StepImplements == IInv /\ [Next]_vars => [Periodic!Next]_Periodic!vars
<1>. SUFFICES ASSUME IInv, [Next]_vars
              PROVE  Periodic!Next \/ UNCHANGED Periodic!vars
  BY DEF Periodic!vars
<1>. USE DEF IInv, TypeOK, Stopped, Periodic!vars
<1>1. CASE LoopTest \/ Reap \/ Join \/ Spawn \/ Poll
  <2>1. /\ pc \in {"loop", "reap", "join", "spawn", "poll"}
        /\ pc' \in MainAt \ {"print_resource", "print_schedule"}
        /\ UNCHANGED <<output, active>>
    BY <1>1 DEF LoopTest, Reap, Join, Spawn, Poll, flags, MainAt
  <2>2. CASE pc' \in {"returned", "failed"}
    BY <2>1, <2>2 DEF Periodic!Next, Periodic!Stop, Printing
  <2>3. CASE pc' \notin {"returned", "failed"}
    BY <2>1, <2>3 DEF Printing
  <2>. QED
    BY <2>2, <2>3
<1>2. ASSUME NEW i \in {"resource", "schedule"}, PrintStart(i)
      PROVE  Periodic!Next \/ UNCHANGED Periodic!vars
  <2>1. CASE i \in Image /\ output[i] /\ active[i]
    <3>1. Periodic!Begin(i)
      BY <1>2, <2>1, TimerAssumption DEF PrintStart, Printing, flags, Periodic!Begin
    <3>. QED
      BY <2>1, <3>1 DEF Periodic!Next
  <2>2. CASE ~(i \in Image /\ output[i] /\ active[i])
    BY <1>2, <2>2 DEF PrintStart, Printing, After, flags
  <2>. QED
    BY <2>1, <2>2
<1>3. ASSUME NEW i \in Image, PrintEnd(i)
      PROVE  Periodic!Next \/ UNCHANGED Periodic!vars
  <2>1. CASE pc' = "returned"
    BY <1>3, <2>1, TimerAssumption
    DEF PrintEnd, Printing, After, Periodic!Next, Periodic!Stop
  <2>2. CASE pc' # "returned"
    <3>1. Periodic!End(i)
      BY <1>3, <2>2, TimerAssumption DEF PrintEnd, Printing, After, Periodic!End
    <3>. QED
      BY <3>1 DEF Periodic!Next
  <2>. QED
    BY <2>1, <2>2
<1>4. ASSUME NEW t \in Thread, Timer(t)
      PROVE  Periodic!Next \/ UNCHANGED Periodic!vars
  <2>1. ASSUME NEW i \in {"resource", "schedule"}, NEW to \in ThreadAt, Request(t, i, to)
        PROVE  Periodic!Next \/ UNCHANGED Periodic!vars
    <3>1. CASE i \in Image
      <4>1. Periodic!Ask(i)
        BY <2>1, <3>1 DEF Request, Move, Periodic!Ask
      <4>. QED
        BY <3>1, <4>1 DEF Periodic!Next
    <3>2. CASE i \notin Image
      BY <2>1, <3>2 DEF Request, Move
    <3>. QED
      BY <3>1, <3>2
  <2>2. CASE Start(t) \/ Lower(t) \/ Raise(t)
    BY <2>2 DEF Start, Lower, Raise
  <2>. QED
    BY <1>4, <2>1, <2>2 DEF Timer, ThreadAt
<1>5. CASE Signal
  BY <1>5 DEF Signal, flags
<1>6. ASSUME NEW i \in Image, SetFunc(i)
      PROVE  Periodic!Next \/ UNCHANGED Periodic!vars
  <2>1. Periodic!Switch(i)
    BY <1>6 DEF SetFunc, flags, Periodic!Switch
  <2>. QED
    BY <2>1 DEF Periodic!Next
<1>7. CASE UNCHANGED vars
  BY <1>7 DEF vars, flags
<1>. QED
  BY <1>1, <1>2, <1>3, <1>4, <1>5, <1>6, <1>7 DEF Next, Main, Gone

\* For any number of overlapping timer threads, the loop shows its user the behaviour
\* of PeriodicOutput.  Its liveness, under fair scheduling, stays with the model checker.
THEOREM LoopImplementsPeriodicOutput == Spec => ImplementsPeriodicOutput
BY TimerInvariance, InitImplements, StepImplements, PTL
DEF Spec, ImplementsPeriodicOutput, Periodic!Safety
==============================================================================
