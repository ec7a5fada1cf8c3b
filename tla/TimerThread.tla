----------------------------- MODULE TimerThread -----------------------------
(***************************************************************************)
(* The event loop of proc_image.c and the timer thread that paces the      *)
(* periodic output of the resource and schedule images.  The loop starts   *)
(* enable_function, which raises create_thread, sleeps a second, asks for  *)
(* output, lowers create_thread and raises exit_thread; the loop reads the *)
(* two flags to decide when to join a thread and when to start the next.   *)
(* The flags are plain bools read and written without a lock.  The program *)
(* is built without optimisation for x86-64 (Makefile:41, proc_image.c:43),*)
(* so each access is one step and the accesses of a thread are in order.   *)
(***************************************************************************)
EXTENDS Naturals, FiniteSets

CONSTANTS
  Thread,     \* pthread_t values: as many timer threads as the process may hold
  NoThread,   \* the handle thread_enable before the first pthread_create
  Image       \* the images run with periodic output: "resource", "schedule"

ASSUME TimerAssumption ==
  /\ NoThread \notin Thread
  /\ Image \subseteq {"resource", "schedule"} /\ Image # {}

VARIABLES
  pc,             \* where the main loop is
  thread_enable,  \* the handle of the last thread created
  th,             \* where each timer thread is
  create_thread, exit_thread, output,   \* fields of env
  exiting,        \* set by sig_handler
  active          \* rsc_func and sched_func, as the controller last set them

flags == <<create_thread, exit_thread, output>>
vars == <<pc, thread_enable, th, flags, exiting, active>>

\* The stages of the loop body, in order.  At "resource" and "schedule" the loop
\* tests the output flag; at the stage Printing(i) it is inside the print function.
Printing(i) == IF i = "resource" THEN "print_resource" ELSE "print_schedule"
After(i)    == IF i = "resource" THEN "poll" ELSE "loop"
MainAt == {"loop", "reap", "join", "spawn", "resource", "print_resource", "poll",
           "schedule", "print_schedule", "returned", "failed"}

\* enable_function: "resource" is the sleep and the store after it, "schedule",
\* "lower" and "raise" the next three stores.  A thread that ended and was not
\* joined is "ended"; a joined one is "free", and its handle may be used again.
ThreadAt == {"free", "start", "resource", "schedule", "lower", "raise", "ended"}

\* The process is gone, and its threads with it.
Stopped == pc \in {"returned", "failed"}

Init ==
  /\ pc = "loop" /\ thread_enable = NoThread
  /\ th = [t \in Thread |-> "free"]
  /\ create_thread = FALSE /\ exit_thread = FALSE
  /\ output = [i \in Image |-> FALSE]
  /\ exiting = FALSE
  /\ active = [i \in Image |-> FALSE]
------------------------------------------------------------------------------
(* The main loop. *)

\* while (!exiting); a loop that ends runs the cleanup and returns.
LoopTest ==
  /\ pc = "loop"
  /\ pc' = IF exiting THEN "returned" ELSE "reap"
  /\ UNCHANGED <<thread_enable, th, flags, exiting, active>>

\* Variant: the loop joins without looking at exit_thread.
ReapAlways ==
  /\ pc = "reap"
  /\ pc' = "join"
  /\ exit_thread' = FALSE
  /\ UNCHANGED <<thread_enable, th, create_thread, output, exiting, active>>

\* if (env.exit_thread) { env.exit_thread = false; ...
Reap ==
  /\ pc = "reap"
  /\ pc' = IF exit_thread THEN "join" ELSE "spawn"
  /\ exit_thread' = FALSE
  /\ UNCHANGED <<thread_enable, th, create_thread, output, exiting, active>>

\* ... pthread_join(thread_enable, NULL).  It blocks until that thread has ended.
\* Joining a handle that was joined before is an error of the caller: glibc
\* answers ESRCH (or faults), and either way the process ends here.
Join ==
  /\ pc = "join"
  /\ \/ /\ th[thread_enable] = "ended"
        /\ th' = [th EXCEPT ![thread_enable] = "free"]
        /\ pc' = "spawn"
     \/ /\ th[thread_enable] = "free"
        /\ pc' = "failed"
        /\ UNCHANGED th
  /\ UNCHANGED <<thread_enable, flags, exiting, active>>

\* if (!env.create_thread) pthread_create(&thread_enable, ...).  Past the limit of
\* threads it fails, and the process exits.
Spawn ==
  /\ pc = "spawn"
  /\ \/ /\ create_thread
        /\ pc' = "resource"
        /\ UNCHANGED <<thread_enable, th>>
     \/ /\ ~create_thread
        /\ \E t \in Thread :
             /\ th[t] = "free"
             /\ thread_enable' = t
             /\ th' = [th EXCEPT ![t] = "start"]
        /\ pc' = "resource"
     \/ /\ ~create_thread
        /\ \A t \in Thread : th[t] # "free"
        /\ pc' = "failed"
        /\ UNCHANGED <<thread_enable, th>>
  /\ UNCHANGED <<flags, exiting, active>>

\* Variant: the loop takes the request back before it prints.
PrintStartTakes(i) ==
  /\ pc = i
  /\ pc' = IF i \in Image /\ output[i] /\ active[i] THEN Printing(i) ELSE After(i)
  /\ output' = [j \in Image |-> output[j] /\ j # i]
  /\ UNCHANGED <<thread_enable, th, create_thread, exit_thread, exiting, active>>

\* if (env.enable_i && env.output_i) print_i(...).  The print function returns at
\* once, leaving the request standing, when the controller has switched i off.
PrintStart(i) ==
  /\ pc = i
  /\ pc' = IF i \in Image /\ output[i] /\ active[i] THEN Printing(i) ELSE After(i)
  /\ UNCHANGED <<thread_enable, th, flags, exiting, active>>

\* The print function takes the request back at its end, or fails and the loop
\* is left.
PrintEnd(i) ==
  /\ pc = Printing(i)
  /\ \/ /\ output' = [output EXCEPT ![i] = FALSE]
        /\ pc' = After(i)
     \/ /\ pc' = "returned"
        /\ UNCHANGED output
  /\ UNCHANGED <<thread_enable, th, create_thread, exit_thread, exiting, active>>

\* ring_buffer__poll of the enabled event images; an error or EINTR ends the loop.
Poll ==
  /\ pc = "poll"
  /\ pc' \in {"schedule", "returned"}
  /\ UNCHANGED <<thread_enable, th, flags, exiting, active>>

Main ==
  \/ LoopTest \/ Reap \/ Join \/ Spawn \/ Poll
  \/ \E i \in {"resource", "schedule"} : PrintStart(i)
  \/ \E i \in Image : PrintEnd(i)
------------------------------------------------------------------------------
(* enable_function, one step per store. *)

Move(t, from, to) ==
  /\ ~Stopped
  /\ th[t] = from
  /\ th' = [th EXCEPT ![t] = to]

Start(t) ==
  /\ Move(t, "start", "resource")
  /\ create_thread' = TRUE
  /\ UNCHANGED <<pc, thread_enable, exit_thread, output, exiting, active>>

\* Variant: only one of the two images is asked for ("else if").
RequestElse(t, i, to) ==
  /\ Move(t, i, to)
  /\ output' = [j \in Image |-> output[j] \/ (j = i /\ (i = "resource" \/ "resource" \notin Image))]
  /\ UNCHANGED <<pc, thread_enable, create_thread, exit_thread, exiting, active>>

\* if (env.enable_i) env.output_i = true.  The first one ends sleep(1).
Request(t, i, to) ==
  /\ Move(t, i, to)
  /\ output' = [j \in Image |-> output[j] \/ j = i]
  /\ UNCHANGED <<pc, thread_enable, create_thread, exit_thread, exiting, active>>

\* Variant: the flag stays up.
LowerMissing(t) ==
  /\ Move(t, "lower", "raise")
  /\ UNCHANGED <<pc, thread_enable, flags, exiting, active>>

Lower(t) ==
  /\ Move(t, "lower", "raise")
  /\ create_thread' = FALSE
  /\ UNCHANGED <<pc, thread_enable, exit_thread, output, exiting, active>>

\* Variant: the thread goes round for the next second instead of returning.
RaiseAndRepeat(t) ==
  /\ Move(t, "raise", "start")
  /\ exit_thread' = TRUE
  /\ UNCHANGED <<pc, thread_enable, create_thread, output, exiting, active>>

Raise(t) ==
  /\ Move(t, "raise", "ended")
  /\ exit_thread' = TRUE
  /\ UNCHANGED <<pc, thread_enable, create_thread, output, exiting, active>>

Timer(t) ==
  \/ Start(t)
  \/ Request(t, "resource", "schedule")
  \/ Request(t, "schedule", "lower")
  \/ Lower(t)
  \/ Raise(t)
------------------------------------------------------------------------------
(* The world around the process. *)

\* SIGINT.
Signal ==
  /\ ~Stopped /\ ~exiting
  /\ exiting' = TRUE
  /\ UNCHANGED <<pc, thread_enable, th, flags, active>>

\* The controller switches image i on or off in its control map.
SetFunc(i) ==
  /\ ~Stopped
  /\ active' = [active EXCEPT ![i] = ~@]
  /\ UNCHANGED <<pc, thread_enable, th, flags, exiting>>

Gone == Stopped /\ UNCHANGED vars

Next ==
  \/ Main
  \/ \E t \in Thread : Timer(t)
  \/ Signal
  \/ \E i \in Image : SetFunc(i)
  \/ Gone

\* The kernel runs every runnable thread, and sleep(1) ends.  Nothing is assumed
\* of the user: no signal need come, and the controller may stay away.
Spec == Init /\ [][Next]_vars /\ WF_vars(Main) /\ \A t \in Thread : WF_vars(Timer(t))
------------------------------------------------------------------------------
(* Properties. *)

TypeOK ==
  /\ pc \in MainAt
  /\ thread_enable \in Thread \cup {NoThread}
  /\ th \in [Thread -> ThreadAt]
  /\ create_thread \in BOOLEAN /\ exit_thread \in BOOLEAN
  /\ output \in [Image -> BOOLEAN]
  /\ exiting \in BOOLEAN
  /\ active \in [Image -> BOOLEAN]

\* Several timer threads write create_thread, one lowering what another raised.
\* When the loop finds it up, and so starts no thread, some thread is on its way
\* to lower it: the timer cannot die out (proc_image.c:713, 717, 993).
CreateFlagHasAnOwner ==
  create_thread => \E t \in Thread : th[t] \in {"resource", "schedule", "lower"}

\* thread_enable is an uninitialised local of main until the first
\* pthread_create.  The loop joins it only after a thread was created
\* (proc_image.c:754, 984-986).
JoinHasAHandle == pc = "join" => thread_enable # NoThread

\* What the loop and its threads are for, seen from outside.
Periodic == INSTANCE PeriodicOutput WITH
  asked    <- {i \in Image : output[i]},
  printing <- {i \in Image : pc = Printing(i)},
  on       <- {i \in Image : active[i]},
  running  <- ~Stopped

\* The loop and its threads implement PeriodicOutput: whatever flag which thread
\* overwrites, every step is one of a periodic output or invisible.  A table is printed
\* for a request only, the request is taken back with its table and not before, and
\* nothing is asked for or printed once the process has ended.
ImplementsPeriodicOutput == Periodic!Safety

\* The liveness of PeriodicOutput: an image that stays switched on is printed again and
\* again, however the flags of overlapping timer threads overwrite each other, until the
\* process ends.
OutputKeepsComing == Periodic!OutputKeepsComing

\* The loop keeps polling the ring buffers of the event images: the pthread_join
\* in its way always returns.
PollingGoesOn == []<>(pc = "poll") \/ <>Stopped
==============================================================================
