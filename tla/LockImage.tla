------------------------------ MODULE LockImage ------------------------------
(***************************************************************************)
(* The lock image: the uprobes on the pthread mutexes, rwlocks and         *)
(* spinlocks (bpf/lock_image.bpf.c, include/lock_image.h) and the three    *)
(* hash maps they share, over threads that take and release real locks.    *)
(* A lock function acquires between its entry and its return probe; an     *)
(* unlock function releases between its two probes.  Probes of one thread  *)
(* are sequential; the only map two threads share a key of is locktype, so *)
(* the handlers are split at its accesses.                                 *)
(***************************************************************************)
EXTENDS Naturals

CONSTANTS
  Thread, Lock,
  Kind,        \* Lock -> the type of each lock
  Policies,    \* the sets of threads a lock_ctrl may select; {} is lock_func = false
  MaxCmds,     \* bound: policy changes in a behaviour
  NoLock

\* proc_flag.flag.
Flag == {"mutex", "rw", "spin"}

ASSUME LockAssumption ==
  /\ Kind \in [Lock -> Flag]
  /\ Policies \subseteq SUBSET Thread
  /\ NoLock \notin Lock

\* The functions of each type: a mode is a column of lock_status.
Mode == {"mutex", "rd", "wr", "spin"}
ModesOf == [mutex |-> {"mutex"}, rw |-> {"rd", "wr"}, spin |-> {"spin"}]

\* lock_status of the request, the return and the unlock of a mode.
Status  == [mutex |-> 1, rd |-> 4, wr |-> 7, spin |-> 10]
Req(m)  == Status[m]
Got(m)  == Status[m] + 1
Gave(m) == Status[m] + 2

\* The value of locktype: 1 for a read lock, 2 for a write lock, 0 for no entry.
TypeOfMode(m) == IF m = "rd" THEN 1 ELSE 2

VARIABLES
  watch,       \* the threads lock_ctrl selects
  cmds,        \* policy changes so far
  own,         \* [Lock -> [Thread -> Mode or "no"]]: who holds what
  th,          \* where each thread is: see Call
  proc_lock, proc_unlock,   \* [Thread \X Flag -> Lock or NoLock]
  locktype,    \* [Lock -> 0..2]
  ev,          \* the event the last step put in lock_rb
  seen,        \* history: selected since the current call was entered; FALSE outside one
  refused      \* history: some update found its map full

vars == <<watch, cmds, own, th, proc_lock, proc_unlock, locktype, ev, seen, refused>>
maps == <<proc_lock, proc_unlock, locktype>>

\* at: "run" outside the lock functions; "calling", "returned" inside a lock
\* function before and after it got its result; "marked" in the return probe;
\* "unlocking", "released", "typed" the same of an unlock function.  ptr and type
\* are locals of the return probe.
Call == [at : {"run", "calling", "returned", "marked", "unlocking", "released", "typed"},
         lock : Lock \cup {NoLock}, mode : Mode, ok : BOOLEAN,
         ptr : Lock \cup {NoLock}, type : 0..2]

\* The history fields call and sure are no part of the event: the lock the function was
\* called with, and whether the thread was selected since.
Event == [status : 1..12, t : Thread, lock : Lock, ok : BOOLEAN, call : Lock, sure : BOOLEAN]
NoEvent == [status |-> 0]
Ev(s, t, l, ok) ==
  [status |-> s, t |-> t, lock |-> l, ok |-> ok, call |-> th[t].lock, sure |-> seen[t]]

\* The thread is in its own code.
Idle == [at |-> "run", lock |-> NoLock, mode |-> "mutex", ok |-> FALSE,
         ptr |-> NoLock, type |-> 0]
Done(t) == th' = [th EXCEPT ![t] = Idle] /\ seen' = [seen EXCEPT ![t] = FALSE]

FlagOf(t) == Kind[th[t].lock]

\* Whether bpf_map_update_elem(BPF_ANY) succeeds: always with an existing key; a new one
\* may find the map full of other programs' entries.
Room(map, key, absent) == IF map[key] = absent THEN BOOLEAN ELSE {TRUE}
Refuse(ok) == refused' = (refused \/ ~ok)

\* bpf_ringbuf_reserve and bpf_ringbuf_submit; a full ring buffer loses the event.
Submit(e) == ev' = e \/ ev' = NoEvent

CanTake(l, m) ==
  \A t \in Thread : own[l][t] = "no" \/ (own[l][t] = "rd" /\ m = "rd")

Init ==
  /\ watch \in Policies /\ cmds = 0
  /\ own = [l \in Lock |-> [t \in Thread |-> "no"]]
  /\ th = [t \in Thread |-> Idle]
  /\ proc_lock = [k \in Thread \X Flag |-> NoLock]
  /\ proc_unlock = [k \in Thread \X Flag |-> NoLock]
  /\ locktype = [l \in Lock |-> 0]
  /\ ev = NoEvent
  /\ seen = [t \in Thread |-> FALSE]
  /\ refused = FALSE
------------------------------------------------------------------------------
(* Taking a lock. *)

\* Variant: an entry left from an earlier call is kept (BPF_NOEXIST).
NoteEntryKept(t, l, m) ==
  \E ok \in Room(proc_lock, <<t, Kind[l]>>, NoLock) :
    /\ Refuse(ok)
    /\ IF ok
       THEN /\ proc_lock' = [proc_lock EXCEPT ![<<t, Kind[l]>>] = IF @ = NoLock THEN l ELSE @]
            /\ Submit([Ev(Req(m), t, l, FALSE) EXCEPT !.call = l, !.sure = TRUE])
       ELSE UNCHANGED proc_lock /\ ev' = NoEvent

\* record_lock_enter of a selected thread, in the function of mode m.
NoteEntry(t, l, m) ==
  \E ok \in Room(proc_lock, <<t, Kind[l]>>, NoLock) :
    /\ Refuse(ok)
    /\ IF ok
       THEN /\ proc_lock' = [proc_lock EXCEPT ![<<t, Kind[l]>>] = l]
            /\ Submit([Ev(Req(m), t, l, FALSE) EXCEPT !.call = l, !.sure = TRUE])
       ELSE UNCHANGED proc_lock /\ ev' = NoEvent

\* A thread calls a lock or trylock function and the entry probe runs.
LockEnter(t, l, m) ==
  /\ th[t].at = "run" /\ own[l][t] = "no" /\ m \in ModesOf[Kind[l]]
  /\ th' = [th EXCEPT ![t] = [Idle EXCEPT !.at = "calling", !.lock = l, !.mode = m]]
  /\ seen' = [seen EXCEPT ![t] = t \in watch]
  /\ IF t \in watch THEN NoteEntry(t, l, m) ELSE UNCHANGED <<proc_lock, refused>> /\ ev' = NoEvent
  /\ UNCHANGED <<watch, cmds, own, proc_unlock, locktype>>

\* The lock function gets the lock, or fails because it cannot (EBUSY, EDEADLK).
Acquire(t) ==
  LET l == th[t].lock  m == th[t].mode IN
  /\ th[t].at = "calling"
  /\ th' = [th EXCEPT ![t] = [@ EXCEPT !.at = "returned", !.ok = CanTake(l, m)]]
  /\ own' = IF CanTake(l, m) THEN [own EXCEPT ![l][t] = m] ELSE own
  /\ ev' = NoEvent
  /\ UNCHANGED <<watch, cmds, maps, seen, refused>>

\* Variant: locktype is set whatever the lock function returned.
MarksAlways(m, ok) == m \in {"rd", "wr"}

\* (lock_status==5 || lock_status==8) && ret==0.
Marks(m, ok) == m \in {"rd", "wr"} /\ ok

\* record_lock_exit up to locktype.
LockMark(t) ==
  LET k == <<t, FlagOf(t)>>
      p == proc_lock[k]
      m == th[t].mode
  IN
  /\ th[t].at = "returned"
  /\ IF t \notin watch \/ p = NoLock
     THEN Done(t) /\ UNCHANGED <<proc_lock, locktype, refused>>
     ELSE /\ proc_lock' = [proc_lock EXCEPT ![k] = NoLock]
          /\ \E ok \in IF Marks(m, th[t].ok) THEN Room(locktype, p, 0) ELSE {TRUE} :
               /\ Refuse(ok)
               /\ IF ok THEN th' = [th EXCEPT ![t] = [@ EXCEPT !.at = "marked", !.ptr = p]] /\ UNCHANGED seen
                        ELSE Done(t)
               /\ locktype' = IF ok /\ Marks(m, th[t].ok)
                              THEN [locktype EXCEPT ![p] = TypeOfMode(m)] ELSE locktype
  /\ ev' = NoEvent
  /\ UNCHANGED <<watch, cmds, own, proc_unlock>>

\* Variant: the result of the lock function is not copied into the event.
LockReportOk(t) ==
  /\ th[t].at = "marked"
  /\ Done(t)
  /\ Submit(Ev(Got(th[t].mode), t, th[t].ptr, TRUE))
  /\ UNCHANGED <<watch, cmds, own, maps, refused>>

\* The rest of record_lock_exit.
LockReport(t) ==
  /\ th[t].at = "marked"
  /\ Done(t)
  /\ Submit(Ev(Got(th[t].mode), t, th[t].ptr, th[t].ok))
  /\ UNCHANGED <<watch, cmds, own, maps, refused>>
------------------------------------------------------------------------------
(* Releasing a lock. *)

\* A thread calls the unlock function and record_unlock_enter runs.  The result of
\* the update is not looked at.
UnlockEnter(t, l) ==
  /\ th[t].at = "run" /\ own[l][t] # "no"
  /\ th' = [th EXCEPT ![t] = [Idle EXCEPT !.at = "unlocking", !.lock = l, !.mode = own[l][t]]]
  /\ seen' = [seen EXCEPT ![t] = t \in watch]
  /\ \E ok \in IF t \in watch THEN Room(proc_unlock, <<t, Kind[l]>>, NoLock) ELSE {TRUE} :
       /\ Refuse(ok)
       /\ proc_unlock' = IF t \in watch /\ ok
                         THEN [proc_unlock EXCEPT ![<<t, Kind[l]>>] = l] ELSE proc_unlock
  /\ ev' = NoEvent
  /\ UNCHANGED <<watch, cmds, own, proc_lock, locktype>>

Release(t) ==
  /\ th[t].at = "unlocking"
  /\ th' = [th EXCEPT ![t] = [@ EXCEPT !.at = "released"]]
  /\ own' = [own EXCEPT ![th[t].lock][t] = "no"]
  /\ ev' = NoEvent
  /\ UNCHANGED <<watch, cmds, maps, seen, refused>>

\* record_unlock_exit up to the lookup in locktype.
UnlockTake(t) ==
  LET k == <<t, FlagOf(t)>>
      p == proc_unlock[k]
  IN
  /\ th[t].at = "released"
  /\ IF t \notin watch \/ p = NoLock
     THEN Done(t) /\ UNCHANGED proc_unlock
     ELSE /\ proc_unlock' = [proc_unlock EXCEPT ![k] = NoLock]
          /\ IF FlagOf(t) = "rw" /\ locktype[p] = 0
             THEN Done(t)
             ELSE /\ th' = [th EXCEPT ![t] = [@ EXCEPT !.at = "typed", !.ptr = p, !.type = locktype[p]]]
                  /\ UNCHANGED seen
  /\ ev' = NoEvent
  /\ UNCHANGED <<watch, cmds, own, proc_lock, locktype, refused>>

\* The status record_unlock_exit reports.
GaveStatus(t) ==
  IF FlagOf(t) = "rw" THEN (IF th[t].type = 1 THEN Gave("rd") ELSE Gave("wr"))
                      ELSE Gave(th[t].mode)

\* The rest of record_unlock_exit.
UnlockReport(t) ==
  /\ th[t].at = "typed"
  /\ Done(t)
  /\ locktype' = IF FlagOf(t) = "rw" THEN [locktype EXCEPT ![th[t].ptr] = 0] ELSE locktype
  /\ Submit(Ev(GaveStatus(t), t, th[t].ptr, TRUE))
  /\ UNCHANGED <<watch, cmds, own, proc_lock, proc_unlock, refused>>
------------------------------------------------------------------------------
\* update_lock_ctrl_map.
SetPolicy ==
  /\ cmds < MaxCmds /\ cmds' = cmds + 1
  /\ watch' \in Policies
  /\ seen' = [t \in Thread |-> seen[t] /\ t \in watch']
  /\ ev' = NoEvent
  /\ UNCHANGED <<own, th, maps, refused>>

Next ==
  \/ SetPolicy
  \/ \E t \in Thread :
       \/ \E l \in Lock : UnlockEnter(t, l) \/ \E m \in Mode : LockEnter(t, l, m)
       \/ Acquire(t) \/ LockMark(t) \/ LockReport(t)
       \/ Release(t) \/ UnlockTake(t) \/ UnlockReport(t)

Spec == Init /\ [][Next]_vars
------------------------------------------------------------------------------
(* Properties. *)

TypeOK ==
  /\ watch \subseteq Thread /\ cmds \in Nat
  /\ own \in [Lock -> [Thread -> Mode \cup {"no"}]]
  /\ th \in [Thread -> Call]
  /\ proc_lock \in [Thread \X Flag -> Lock \cup {NoLock}]
  /\ proc_unlock \in [Thread \X Flag -> Lock \cup {NoLock}]
  /\ locktype \in [Lock -> 0..2]
  /\ ev \in Event \cup {NoEvent}
  /\ seen \in [Thread -> BOOLEAN] /\ refused \in BOOLEAN

\* An event about a call that was selected from its entry on names the lock the
\* thread called the function with, although entries of earlier calls stay in
\* proc_lock and proc_unlock when the policy changes or a map is full
\* (lock_image.h:37, 78-82, 132, 158-162).
EventNamesItsLock ==
  ev # NoEvent /\ ev.sure => ev.lock = ev.call

\* Such an event that reports a lock as taken is about a lock its thread holds in
\* that mode.
TakenIsHeld ==
  \A m \in Mode :
    ev # NoEvent /\ ev.sure /\ ev.ok /\ ev.status = Got(m) => own[ev.lock][ev.t] = m

\* As long as the image is on for everyone and no map was full, locktype keeps no entry of
\* a lock that nobody holds and nobody is about to report: releases that overlap
\* with other threads' acquisitions leave nothing behind (lock_image.h:90, 173).
NoStaleType ==
  \A l \in Lock : cmds = 0 /\ watch = Thread /\ ~refused /\ locktype[l] # 0 =>
    \E t \in Thread : \/ own[l][t] # "no"
                      \/ th[t].at \in {"released", "typed"} /\ th[t].lock = l
==============================================================================
