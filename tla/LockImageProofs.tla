--------------------------- MODULE LockImageProofs ---------------------------
(***************************************************************************)
(* The properties of LockImage hold for every set of threads and locks,    *)
(* every assignment of kinds, every set of policies and any number of      *)
(* commands.                                                               *)
(***************************************************************************)
EXTENDS LockImage, TLAPS

\* A thread in a lock or unlock function is there with a lock, of a kind that has the mode.
CallsOK ==
  \A t \in Thread :
    /\ seen[t] => t \in watch /\ th[t].at # "run"
    /\ th[t].at # "run" => th[t].lock \in Lock /\ th[t].mode \in ModesOf[Kind[th[t].lock]]
    /\ th[t].at \in {"marked", "typed"} => th[t].ptr \in Lock
    /\ th[t].at \in {"returned", "marked"} /\ th[t].ok => own[th[t].lock][t] = th[t].mode

\* A lock is held in a mode of its kind.
KindsOK ==
  \A l \in Lock, t \in Thread : own[l][t] # "no" => own[l][t] \in ModesOf[Kind[l]]

\* The entry of a call that was selected since it was entered is its own, or was refused.
EntriesOK ==
  \A t \in Thread : seen[t] =>
    /\ th[t].at \in {"calling", "returned"} => proc_lock[<<t, FlagOf(t)>>] \in {th[t].lock, NoLock}
    /\ th[t].at \in {"unlocking", "released"} => proc_unlock[<<t, FlagOf(t)>>] \in {th[t].lock, NoLock}
    /\ th[t].at \in {"marked", "typed"} => th[t].ptr = th[t].lock

\* While the image is on for everyone and no map was full, nothing is missing.
Quiet == cmds = 0 /\ watch = Thread /\ ~refused
QuietOK ==
  Quiet =>
    /\ \A t \in Thread : th[t].at # "run" => seen[t]
    /\ \A t \in Thread : th[t].at \in {"unlocking", "released"} =>
         proc_unlock[<<t, FlagOf(t)>>] = th[t].lock
    /\ \A l \in Lock : locktype[l] # 0 => Kind[l] = "rw"

LockInv ==
  /\ TypeOK /\ CallsOK /\ KindsOK /\ EntriesOK /\ QuietOK
  /\ EventNamesItsLock /\ TakenIsHeld /\ NoStaleType

\* The flag of a mode tells the kinds of locks apart, and statuses tell the modes apart.
LEMMA Modes ==
  /\ \A l \in Lock : Kind[l] \in Flag /\ ModesOf[Kind[l]] \subseteq Mode
  /\ \A l \in Lock : (\E m \in {"rd", "wr"} : m \in ModesOf[Kind[l]]) => Kind[l] = "rw"
  /\ \A m \in Mode : m # "no" /\ Req(m) \in 1..12 /\ Got(m) \in 1..12 /\ Gave(m) \in 1..12
  /\ \A m, n \in Mode : Got(m) # Req(n) /\ Got(m) # Gave(n) /\ (Got(m) = Got(n) => m = n)
BY LockAssumption DEF Flag, Mode, ModesOf, Status, Req, Got, Gave

\* What the type invariant says of one thread.
LEMMA CallTypes ==
  ASSUME TypeOK, NEW t \in Thread
  PROVE  /\ th[t] \in Call /\ th[t].at \in {"run", "calling", "returned", "marked", "unlocking", "released", "typed"}
         /\ th[t].lock \in Lock \cup {NoLock} /\ th[t].mode \in Mode /\ th[t].ok \in BOOLEAN
         /\ th[t].ptr \in Lock \cup {NoLock} /\ th[t].type \in 0..2
BY DEF TypeOK, Call

\* Nothing is held, noted or reported at first.
LEMMA LockInit == Init => LockInv
<1>. SUFFICES ASSUME Init PROVE LockInv
  OBVIOUS
<1>1. Idle \in Call /\ Idle.at = "run"
  BY DEF Idle, Call, Mode
<1>2. th \in [Thread -> Call] /\ \A t \in Thread : th[t].at = "run"
  BY <1>1 DEF Init
<1>3. TypeOK
  <2>1. watch \subseteq Thread
    BY LockAssumption DEF Init
  <2>2. own \in [Lock -> [Thread -> Mode \cup {"no"}]] /\ locktype \in [Lock -> 0..2]
    BY DEF Init
  <2>. QED
    BY <1>2, <2>1, <2>2 DEF Init, TypeOK
<1>4. CallsOK /\ KindsOK /\ EntriesOK /\ QuietOK
  BY <1>2 DEF Init, CallsOK, KindsOK, EntriesOK, QuietOK
<1>5. EventNamesItsLock /\ TakenIsHeld /\ NoStaleType
  BY DEF Init, EventNamesItsLock, TakenIsHeld, NoStaleType
<1>. QED
  BY <1>3, <1>4, <1>5 DEF LockInv

\* An event put together from its fields has its type.
LEMMA EventType ==
  ASSUME NEW s \in 1..12, NEW t \in Thread, NEW l \in Lock, NEW ok \in BOOLEAN, NEW c \in Lock,
         NEW sure \in BOOLEAN
  PROVE  [status |-> s, t |-> t, lock |-> l, ok |-> ok, call |-> c, sure |-> sure] \in Event
BY DEF Event

\* A thread that enters a lock function.
LEMMA LockEnterStep ==
  ASSUME LockInv, NEW t \in Thread, NEW l \in Lock, NEW m \in Mode, LockEnter(t, l, m)
  PROVE  LockInv'
<1>. USE LockAssumption
<1>1. th \in [Thread -> Call] /\ seen \in [Thread -> BOOLEAN]
  BY DEF LockInv, TypeOK
<1>2. PICK c \in Call : th' = [th EXCEPT ![t] = c] /\ c.at = "calling" /\ c.lock = l /\ c.mode = m
  <2>. DEFINE c == [Idle EXCEPT !.at = "calling", !.lock = l, !.mode = m]
  <2>1. Idle \in Call
    BY DEF Idle, Call, Mode
  <2>2. c \in Call /\ c.at = "calling" /\ c.lock = l /\ c.mode = m
    BY <2>1 DEF Call
  <2>. QED
    BY <2>2 DEF LockEnter
<1>3. /\ th'[t] = c /\ \A u \in Thread \ {t} : th'[u] = th[u]
      /\ (seen'[t] <=> t \in watch) /\ \A u \in Thread \ {t} : seen'[u] = seen[u]
      /\ UNCHANGED <<watch, cmds, own, proc_unlock, locktype>>
      /\ m \in ModesOf[Kind[l]]
  BY <1>1, <1>2 DEF LockEnter
<1>4. /\ proc_lock' \in [Thread \X Flag -> Lock \cup {NoLock}] /\ refused' \in BOOLEAN
      /\ refused => refused'
      /\ \A u \in Thread \ {t}, f \in Flag : proc_lock'[<<u, f>>] = proc_lock[<<u, f>>]
      /\ t \in watch => proc_lock'[<<t, Kind[l]>>] \in {l, NoLock}
  <2>1. proc_lock \in [Thread \X Flag -> Lock \cup {NoLock}] /\ refused \in BOOLEAN /\ <<t, Kind[l]>> \in Thread \X Flag
    BY Modes DEF LockInv, TypeOK
  <2>2. CASE t \notin watch
    BY <2>1, <2>2 DEF LockEnter
  <2>3. CASE t \in watch
    <3>1. PICK ok \in Room(proc_lock, <<t, Kind[l]>>, NoLock) :
            /\ Refuse(ok)
            /\ proc_lock' = IF ok THEN [proc_lock EXCEPT ![<<t, Kind[l]>>] = l] ELSE proc_lock
      BY <2>3 DEF LockEnter, NoteEntry
    <3>2. ok \/ proc_lock[<<t, Kind[l]>>] = NoLock
      BY <3>1 DEF Room
    <3>3. refused' \in BOOLEAN /\ (refused => refused')
      BY <2>1, <3>1 DEF Refuse
    <3>4. proc_lock' \in [Thread \X Flag -> Lock \cup {NoLock}]
      BY <2>1, <3>1
    <3>5. \A u \in Thread \ {t}, f \in Flag : proc_lock'[<<u, f>>] = proc_lock[<<u, f>>]
      BY <2>1, <3>1
    <3>. QED
      BY <2>1, <3>1, <3>2, <3>3, <3>4, <3>5
  <2>. QED
    BY <2>2, <2>3
<1>5. \/ ev' = NoEvent
      \/ /\ ev' \in Event /\ ev'.lock = ev'.call /\ ev'.status = Req(m)
  <2>. DEFINE e == [Ev(Req(m), t, l, FALSE) EXCEPT !.call = l, !.sure = TRUE]
  <2>1. e \in Event /\ e.lock = e.call /\ e.status = Req(m)
    BY <1>1, Modes DEF Ev, Event
  <2>2. ev' = NoEvent \/ ev' = e
    BY DEF LockEnter, NoteEntry, Submit
  <2>. QED
    BY <2>1, <2>2
<1>6. TypeOK'
  <2>1. th' \in [Thread -> Call] /\ seen' \in [Thread -> BOOLEAN]
    BY <1>1, <1>2 DEF LockEnter
  <2>. QED
    BY <1>3, <1>4, <1>5, <2>1 DEF LockInv, TypeOK
<1>7. CallsOK' /\ KindsOK'
  BY <1>2, <1>3 DEF LockInv, CallsOK, KindsOK
<1>8. EntriesOK'
  BY <1>2, <1>3, <1>4, Modes DEF LockInv, EntriesOK, FlagOf, CallsOK
<1>9. QuietOK'
  BY <1>2, <1>3, <1>4, Modes DEF LockInv, QuietOK, Quiet, FlagOf, CallsOK
<1>10. EventNamesItsLock' /\ TakenIsHeld'
  BY <1>5, Modes DEF EventNamesItsLock, TakenIsHeld
<1>11. NoStaleType'
  <2>1. \A u \in Thread : th[u].at \in {"released", "typed"} => u # t
    BY DEF LockEnter
  <2>. QED
    BY <1>3, <1>4, <2>1 DEF LockInv, NoStaleType
<1>. QED
  BY <1>6, <1>7, <1>8, <1>9, <1>10, <1>11 DEF LockInv

\* A thread that leaves its function is in its own code.
LEMMA DoneFacts ==
  ASSUME TypeOK, NEW t \in Thread, Done(t)
  PROVE  /\ th' \in [Thread -> Call] /\ seen' \in [Thread -> BOOLEAN]
         /\ th'[t].at = "run" /\ ~seen'[t]
         /\ \A u \in Thread \ {t} : th'[u] = th[u] /\ seen'[u] = seen[u]
<1>1. Idle \in Call /\ Idle.at = "run"
  BY DEF Idle, Call, Mode
<1>. QED
  BY <1>1 DEF TypeOK, Done

\* The lock function gets its result: the lock, when it can be taken.
LEMMA AcquireStep ==
  ASSUME LockInv, NEW t \in Thread, Acquire(t)
  PROVE  LockInv'
<1>1. th \in [Thread -> Call] /\ own \in [Lock -> [Thread -> Mode \cup {"no"}]]
  BY DEF LockInv, TypeOK
<1>2. PICK l \in Lock, m \in Mode : l = th[t].lock /\ m = th[t].mode /\ m \in ModesOf[Kind[l]]
  BY CallTypes DEF LockInv, CallsOK, Acquire
<1>3. PICK c \in Call : /\ th' = [th EXCEPT ![t] = c] /\ c.at = "returned" /\ c.lock = l /\ c.mode = m
                        /\ (c.ok <=> CanTake(l, m))
  <2>. DEFINE c == [th[t] EXCEPT !.at = "returned", !.ok = CanTake(l, m)]
  <2>1. CanTake(l, m) \in BOOLEAN
    BY DEF CanTake
  <2>2. c \in Call /\ c.at = "returned" /\ c.lock = l /\ c.mode = m /\ (c.ok <=> CanTake(l, m))
    BY <1>1, <1>2, <2>1 DEF Call
  <2>. QED
    BY <1>2, <2>2 DEF Acquire
<1>4. /\ th'[t] = c /\ \A u \in Thread \ {t} : th'[u] = th[u]
      /\ UNCHANGED <<watch, cmds, proc_lock, proc_unlock, locktype, seen, refused>> /\ ev' = NoEvent
      /\ th[t].at = "calling"
  BY <1>1, <1>3 DEF Acquire, maps
<1>5. /\ own' \in [Lock -> [Thread -> Mode \cup {"no"}]]
      /\ \A k \in Lock, u \in Thread : own'[k][u] = IF k = l /\ u = t /\ CanTake(l, m) THEN m ELSE own[k][u]
  <2>1. own' = IF CanTake(l, m) THEN [own EXCEPT ![l][t] = m] ELSE own
    BY <1>2 DEF Acquire
  <2>. QED
    BY <1>1, <2>1
<1>6. TypeOK'
  <2>1. th' \in [Thread -> Call]
    BY <1>1, <1>3
  <2>. QED
    BY <1>4, <1>5, <2>1 DEF LockInv, TypeOK
<1>7. CallsOK' /\ KindsOK'
  <2>1. KindsOK'
    BY <1>2, <1>5 DEF LockInv, KindsOK
  <2>2. CallsOK'
    BY <1>2, <1>3, <1>4, <1>5 DEF LockInv, CallsOK
  <2>. QED
    BY <2>1, <2>2
<1>8. EntriesOK' /\ QuietOK'
  BY <1>2, <1>3, <1>4 DEF LockInv, EntriesOK, QuietOK, Quiet, FlagOf
<1>9. EventNamesItsLock' /\ TakenIsHeld'
  BY <1>4 DEF EventNamesItsLock, TakenIsHeld
<1>10. NoStaleType'
  <2>1. \A k \in Lock, u \in Thread : own[k][u] # "no" => own'[k][u] # "no"
    BY <1>5, Modes
  <2>. QED
    BY <1>4, <2>1 DEF LockInv, NoStaleType
<1>. QED
  BY <1>6, <1>7, <1>8, <1>9, <1>10 DEF LockInv

\* The return probe up to locktype takes up the entry of its own call.
LEMMA LockMarkStep ==
  ASSUME LockInv, NEW t \in Thread, LockMark(t)
  PROVE  LockInv'
<1>1. /\ th \in [Thread -> Call] /\ proc_lock \in [Thread \X Flag -> Lock \cup {NoLock}]
      /\ locktype \in [Lock -> 0..2] /\ seen \in [Thread -> BOOLEAN] /\ refused \in BOOLEAN
  BY DEF LockInv, TypeOK
<1>2. PICK l \in Lock, m \in Mode : l = th[t].lock /\ m = th[t].mode /\ m \in ModesOf[Kind[l]]
  BY CallTypes DEF LockInv, CallsOK, LockMark
<1>3. <<t, Kind[l]>> \in Thread \X Flag /\ FlagOf(t) = Kind[l]
  BY <1>2, Modes DEF FlagOf
<1>4. PICK p \in Lock \cup {NoLock} : p = proc_lock[<<t, Kind[l]>>]
  BY <1>1, <1>3
<1>5. th[t].at = "returned" /\ ev' = NoEvent /\ UNCHANGED <<watch, cmds, own, proc_unlock>>
  BY DEF LockMark
<1>6. EventNamesItsLock' /\ TakenIsHeld'
  BY <1>5 DEF EventNamesItsLock, TakenIsHeld
<1>7. CASE t \notin watch \/ p = NoLock
  <2>1. Done(t) /\ UNCHANGED <<proc_lock, locktype, refused>>
    BY <1>3, <1>4, <1>7 DEF LockMark
  <2>2. /\ th' \in [Thread -> Call] /\ seen' \in [Thread -> BOOLEAN]
        /\ th'[t].at = "run" /\ ~seen'[t]
        /\ \A u \in Thread \ {t} : th'[u] = th[u] /\ seen'[u] = seen[u]
    BY <2>1, DoneFacts DEF LockInv
  <2>3. TypeOK'
    BY <1>5, <2>1, <2>2 DEF LockInv, TypeOK, NoEvent
  <2>4. CallsOK' /\ KindsOK' /\ EntriesOK' /\ QuietOK'
    BY <1>5, <2>1, <2>2 DEF LockInv, CallsOK, KindsOK, EntriesOK, QuietOK, Quiet, FlagOf
  <2>5. NoStaleType'
    BY <1>5, <2>1, <2>2 DEF LockInv, NoStaleType
  <2>. QED
    BY <1>6, <2>3, <2>4, <2>5 DEF LockInv
<1>8. CASE t \in watch /\ p # NoLock
  <2>. DEFINE q == proc_lock[<<t, FlagOf(t)>>]
              marks == Marks(th[t].mode, th[t].ok)
  <2>1. /\ q = p /\ (marks <=> Marks(m, th[t].ok))
        /\ proc_lock' = [proc_lock EXCEPT ![<<t, FlagOf(t)>>] = NoLock]
        /\ \E ok \in IF marks THEN Room(locktype, q, 0) ELSE {TRUE} :
             /\ Refuse(ok)
             /\ IF ok THEN th' = [th EXCEPT ![t] = [@ EXCEPT !.at = "marked", !.ptr = q]] /\ UNCHANGED seen
                      ELSE Done(t)
             /\ locktype' = IF ok /\ marks THEN [locktype EXCEPT ![q] = TypeOfMode(th[t].mode)] ELSE locktype
    BY <1>2, <1>3, <1>4, <1>8 DEF LockMark
  <2>2. PICK ok \in BOOLEAN :
             /\ Refuse(ok)
             /\ IF ok THEN th' = [th EXCEPT ![t] = [@ EXCEPT !.at = "marked", !.ptr = q]] /\ UNCHANGED seen
                      ELSE Done(t)
             /\ locktype' = IF ok /\ marks THEN [locktype EXCEPT ![q] = TypeOfMode(th[t].mode)] ELSE locktype
    BY <2>1 DEF Room
  <2>. HIDE DEF q, marks
  <2>3. p \in Lock /\ (seen[t] => p = l)
    BY <1>2, <1>3, <1>4, <1>5, <1>8 DEF LockInv, EntriesOK
  <2>4. /\ proc_lock' \in [Thread \X Flag -> Lock \cup {NoLock}]
        /\ \A u \in Thread \ {t}, f \in Flag : proc_lock'[<<u, f>>] = proc_lock[<<u, f>>]
    BY <1>1, <1>3, <2>1
  <2>5. locktype' \in [Lock -> 0..2] /\ \A k \in Lock : locktype'[k] # locktype[k] => k = p /\ ok /\ Marks(m, th[t].ok)
    BY <1>1, <2>1, <2>2, <2>3 DEF TypeOfMode
  <2>6. refused' \in BOOLEAN /\ (refused' <=> refused \/ ~ok)
    BY <1>1, <2>2 DEF Refuse
  <2>7. /\ th' \in [Thread -> Call] /\ seen' \in [Thread -> BOOLEAN]
        /\ \A u \in Thread \ {t} : th'[u] = th[u] /\ seen'[u] = seen[u]
        /\ ok => /\ th'[t].at = "marked" /\ th'[t].lock = l /\ th'[t].mode = m /\ th'[t].ptr = p
                 /\ th'[t].ok = th[t].ok /\ seen'[t] = seen[t]
        /\ ~ok => th'[t].at = "run" /\ ~seen'[t]
    <3>1. CASE ok
      <4>. DEFINE c == [th[t] EXCEPT !.at = "marked", !.ptr = q]
      <4>1. /\ c \in Call /\ c.at = "marked" /\ c.lock = l /\ c.mode = m /\ c.ptr = p
            /\ c.ok = th[t].ok
        BY <1>1, <1>2, <2>1 DEF Call
      <4>2. th' = [th EXCEPT ![t] = c] /\ seen' = seen
        BY <2>2, <3>1
      <4>. HIDE DEF c
      <4>. QED
        BY <1>1, <3>1, <4>1, <4>2
    <3>2. CASE ~ok
      BY <2>2, <3>2, DoneFacts DEF LockInv
    <3>. QED
      BY <3>1, <3>2
  <2>8. TypeOK'
    BY <1>5, <2>4, <2>5, <2>6, <2>7 DEF LockInv, TypeOK, NoEvent
  <2>9. CallsOK' /\ KindsOK'
    BY <1>2, <1>5, <1>8, <2>3, <2>7 DEF LockInv, CallsOK, KindsOK
  <2>10. EntriesOK'
    BY <1>2, <1>5, <2>3, <2>4, <2>7, Modes DEF LockInv, EntriesOK, FlagOf, CallsOK
  <2>11. Quiet' => Quiet /\ ok /\ seen[t] /\ p = l
    BY <1>5, <2>3, <2>6 DEF LockInv, QuietOK, Quiet
  <2>12. QuietOK'
    <3>. SUFFICES ASSUME Quiet' PROVE QuietOK'
      BY DEF QuietOK
    <3>1. Marks(m, th[t].ok) => Kind[l] = "rw"
      BY <1>2, Modes DEF Marks
    <3>. QED
      BY <1>5, <2>5, <2>7, <2>11, <3>1 DEF LockInv, QuietOK, FlagOf
  <2>13. NoStaleType'
    <3>. SUFFICES ASSUME NEW k \in Lock, Quiet', locktype'[k] # 0
                  PROVE  \E u \in Thread : \/ own'[k][u] # "no"
                                           \/ th'[u].at \in {"released", "typed"} /\ th'[u].lock = k
      BY DEF NoStaleType, Quiet
    <3>1. CASE locktype'[k] # locktype[k]
      <4>1. k = l /\ Marks(m, th[t].ok)
        BY <2>5, <2>11, <3>1
      <4>2. own[k][t] = m /\ m # "no"
        BY <1>2, <1>5, <4>1 DEF LockInv, CallsOK, Marks
      <4>. QED
        BY <1>5, <4>2
    <3>2. CASE locktype'[k] = locktype[k]
      BY <1>5, <2>7, <2>11, <3>2 DEF LockInv, NoStaleType, Quiet
    <3>. QED
      BY <3>1, <3>2
  <2>. QED
    BY <1>6, <2>8, <2>9, <2>10, <2>12, <2>13 DEF LockInv
<1>. QED
  BY <1>7, <1>8

\* The rest of the return probe reports the lock it took up, and whether it was got.
LEMMA LockReportStep ==
  ASSUME LockInv, NEW t \in Thread, LockReport(t)
  PROVE  LockInv'
<1>1. /\ th[t].at = "marked" /\ Done(t)
      /\ UNCHANGED <<watch, cmds, own, proc_lock, proc_unlock, locktype, refused>>
  BY DEF LockReport, maps
<1>2. /\ th' \in [Thread -> Call] /\ seen' \in [Thread -> BOOLEAN]
      /\ th'[t].at = "run" /\ ~seen'[t]
      /\ \A u \in Thread \ {t} : th'[u] = th[u] /\ seen'[u] = seen[u]
  BY <1>1, DoneFacts DEF LockInv
<1>3. PICK l \in Lock, m \in Mode, p \in Lock : l = th[t].lock /\ m = th[t].mode /\ p = th[t].ptr
  BY <1>1, CallTypes DEF LockInv, CallsOK
<1>4. (seen[t] => p = l) /\ (th[t].ok => own[l][t] = m) /\ th[t].ok \in BOOLEAN /\ seen[t] \in BOOLEAN
  BY <1>1, <1>3, CallTypes DEF LockInv, EntriesOK, CallsOK, TypeOK
<1>5. \/ ev' = NoEvent
      \/ /\ ev' \in Event /\ ev'.lock = p /\ ev'.call = l /\ ev'.t = t /\ ev'.status = Got(m)
         /\ (ev'.sure <=> seen[t]) /\ (ev'.ok <=> th[t].ok)
  <2>. DEFINE e == [status |-> Got(m), t |-> t, lock |-> p, ok |-> th[t].ok, call |-> l, sure |-> seen[t]]
  <2>1. e \in Event
    BY <1>4, Modes, EventType
  <2>2. ev' = NoEvent \/ ev' = e
    BY <1>3 DEF LockReport, Submit, Ev
  <2>. QED
    BY <2>1, <2>2
<1>6. TypeOK'
  BY <1>1, <1>2, <1>5 DEF LockInv, TypeOK
<1>7. CallsOK' /\ KindsOK' /\ EntriesOK' /\ QuietOK'
  BY <1>1, <1>2 DEF LockInv, CallsOK, KindsOK, EntriesOK, QuietOK, Quiet, FlagOf
<1>8. EventNamesItsLock'
  BY <1>4, <1>5 DEF EventNamesItsLock
<1>9. TakenIsHeld'
  BY <1>1, <1>4, <1>5, Modes DEF TakenIsHeld
<1>10. NoStaleType'
  BY <1>1, <1>2 DEF LockInv, NoStaleType
<1>. QED
  BY <1>6, <1>7, <1>8, <1>9, <1>10 DEF LockInv

\* A thread that enters the unlock function of a lock it holds.
LEMMA UnlockEnterStep ==
  ASSUME LockInv, NEW t \in Thread, NEW l \in Lock, UnlockEnter(t, l)
  PROVE  LockInv'
<1>. USE LockAssumption
<1>1. /\ th \in [Thread -> Call] /\ seen \in [Thread -> BOOLEAN] /\ refused \in BOOLEAN
      /\ proc_unlock \in [Thread \X Flag -> Lock \cup {NoLock}]
  BY DEF LockInv, TypeOK
<1>2. PICK m \in Mode : m = own[l][t] /\ m \in ModesOf[Kind[l]]
  BY Modes DEF LockInv, KindsOK, UnlockEnter
<1>3. PICK c \in Call : th' = [th EXCEPT ![t] = c] /\ c.at = "unlocking" /\ c.lock = l /\ c.mode = m
  <2>. DEFINE c == [Idle EXCEPT !.at = "unlocking", !.lock = l, !.mode = own[l][t]]
  <2>1. Idle \in Call
    BY DEF Idle, Call, Mode
  <2>2. c \in Call /\ c.at = "unlocking" /\ c.lock = l /\ c.mode = m
    BY <1>2, <2>1 DEF Call
  <2>. QED
    BY <2>2 DEF UnlockEnter
<1>4. /\ th'[t] = c /\ \A u \in Thread \ {t} : th'[u] = th[u]
      /\ (seen'[t] <=> t \in watch) /\ \A u \in Thread \ {t} : seen'[u] = seen[u]
      /\ UNCHANGED <<watch, cmds, own, proc_lock, locktype>> /\ ev' = NoEvent /\ th[t].at = "run"
  BY <1>1, <1>3 DEF UnlockEnter
<1>5. /\ proc_unlock' \in [Thread \X Flag -> Lock \cup {NoLock}] /\ refused' \in BOOLEAN
      /\ refused => refused'
      /\ \A u \in Thread \ {t}, f \in Flag : proc_unlock'[<<u, f>>] = proc_unlock[<<u, f>>]
      /\ t \in watch => /\ proc_unlock'[<<t, Kind[l]>>] \in {l, NoLock}
                        /\ ~refused' => proc_unlock'[<<t, Kind[l]>>] = l
  <2>1. <<t, Kind[l]>> \in Thread \X Flag
    BY Modes
  <2>2. PICK ok \in BOOLEAN :
          /\ Refuse(ok) /\ (t \in watch => ok \/ proc_unlock[<<t, Kind[l]>>] = NoLock)
          /\ proc_unlock' = IF t \in watch /\ ok THEN [proc_unlock EXCEPT ![<<t, Kind[l]>>] = l] ELSE proc_unlock
    BY DEF UnlockEnter, Room
  <2>3. refused' \in BOOLEAN /\ (refused' <=> refused \/ ~ok)
    BY <1>1, <2>2 DEF Refuse
  <2>4. proc_unlock' \in [Thread \X Flag -> Lock \cup {NoLock}]
    BY <1>1, <2>2
  <2>5. \A u \in Thread \ {t}, f \in Flag : proc_unlock'[<<u, f>>] = proc_unlock[<<u, f>>]
    BY <1>1, <2>2
  <2>. QED
    BY <1>1, <2>1, <2>2, <2>3, <2>4, <2>5
<1>6. TypeOK'
  <2>1. th' \in [Thread -> Call] /\ seen' \in [Thread -> BOOLEAN]
    BY <1>1, <1>3 DEF UnlockEnter
  <2>. QED
    BY <1>4, <1>5, <2>1 DEF LockInv, TypeOK
<1>7. CallsOK' /\ KindsOK'
  BY <1>2, <1>3, <1>4 DEF LockInv, CallsOK, KindsOK
<1>8. EntriesOK'
  BY <1>3, <1>4, <1>5, Modes DEF LockInv, EntriesOK, FlagOf, CallsOK
<1>9. QuietOK'
  BY <1>3, <1>4, <1>5, Modes DEF LockInv, QuietOK, Quiet, FlagOf, CallsOK
<1>10. EventNamesItsLock' /\ TakenIsHeld'
  BY <1>4 DEF EventNamesItsLock, TakenIsHeld
<1>11. NoStaleType'
  BY <1>4, <1>5 DEF LockInv, NoStaleType
<1>. QED
  BY <1>6, <1>7, <1>8, <1>9, <1>10, <1>11 DEF LockInv

\* The unlock function gives the lock back; its thread is about to report that.
LEMMA ReleaseStep ==
  ASSUME LockInv, NEW t \in Thread, Release(t)
  PROVE  LockInv'
<1>1. th \in [Thread -> Call] /\ own \in [Lock -> [Thread -> Mode \cup {"no"}]]
  BY DEF LockInv, TypeOK
<1>2. PICK l \in Lock : l = th[t].lock
  BY DEF LockInv, CallsOK, Release
<1>3. PICK c \in Call : th' = [th EXCEPT ![t] = c] /\ c.at = "released" /\ c.lock = l /\ c.mode = th[t].mode
  <2>. DEFINE c == [th[t] EXCEPT !.at = "released"]
  <2>1. c \in Call /\ c.at = "released" /\ c.lock = l /\ c.mode = th[t].mode
    BY <1>1, <1>2 DEF Call
  <2>. QED
    BY <2>1 DEF Release
<1>4. /\ th'[t] = c /\ \A u \in Thread \ {t} : th'[u] = th[u]
      /\ UNCHANGED <<watch, cmds, proc_lock, proc_unlock, locktype, seen, refused>> /\ ev' = NoEvent
      /\ th[t].at = "unlocking"
  BY <1>1, <1>3 DEF Release, maps
<1>5. /\ own' \in [Lock -> [Thread -> Mode \cup {"no"}]]
      /\ \A k \in Lock, u \in Thread : own'[k][u] = IF k = l /\ u = t THEN "no" ELSE own[k][u]
  <2>1. own' = [own EXCEPT ![l][t] = "no"]
    BY <1>2 DEF Release
  <2>. QED
    BY <1>1, <2>1
<1>6. TypeOK'
  <2>1. th' \in [Thread -> Call]
    BY <1>1, <1>3
  <2>. QED
    BY <1>4, <1>5, <2>1 DEF LockInv, TypeOK
<1>7. CallsOK'
  BY <1>2, <1>3, <1>4, <1>5 DEF LockInv, CallsOK
<1>8. KindsOK'
  BY <1>5 DEF LockInv, KindsOK
<1>9. EntriesOK' /\ QuietOK'
  BY <1>2, <1>3, <1>4 DEF LockInv, EntriesOK, QuietOK, Quiet, FlagOf
<1>10. EventNamesItsLock' /\ TakenIsHeld'
  BY <1>4 DEF EventNamesItsLock, TakenIsHeld
<1>11. NoStaleType'
  BY <1>3, <1>4, <1>5 DEF LockInv, NoStaleType
<1>. QED
  BY <1>6, <1>7, <1>8, <1>9, <1>10, <1>11 DEF LockInv

\* The return probe of an unlock function up to its lookup in locktype.
LEMMA UnlockTakeStep ==
  ASSUME LockInv, NEW t \in Thread, UnlockTake(t)
  PROVE  LockInv'
<1>1. /\ th \in [Thread -> Call] /\ proc_unlock \in [Thread \X Flag -> Lock \cup {NoLock}]
      /\ locktype \in [Lock -> 0..2] /\ seen \in [Thread -> BOOLEAN]
  BY DEF LockInv, TypeOK
<1>2. PICK l \in Lock, m \in Mode : l = th[t].lock /\ m = th[t].mode /\ m \in ModesOf[Kind[l]]
  BY CallTypes DEF LockInv, CallsOK, UnlockTake
<1>3. <<t, Kind[l]>> \in Thread \X Flag /\ FlagOf(t) = Kind[l]
  BY <1>2, Modes DEF FlagOf
<1>4. PICK p \in Lock \cup {NoLock} : p = proc_unlock[<<t, FlagOf(t)>>]
  BY <1>1, <1>3
<1>5. /\ th[t].at = "released" /\ ev' = NoEvent
      /\ UNCHANGED <<watch, cmds, own, proc_lock, locktype, refused>>
  BY DEF UnlockTake
<1>6. p = NoLock \/ (p \in Lock /\ (seen[t] => p = l))
  BY <1>2, <1>3, <1>4, <1>5 DEF LockInv, EntriesOK
\* Nothing is missing while the image is on for everyone.
<1>7. Quiet => p = l /\ t \in watch
  BY <1>2, <1>3, <1>4, <1>5 DEF LockInv, QuietOK, Quiet
<1>8. /\ proc_unlock' \in [Thread \X Flag -> Lock \cup {NoLock}]
      /\ \A u \in Thread \ {t}, f \in Flag : proc_unlock'[<<u, f>>] = proc_unlock[<<u, f>>]
  <2>1. proc_unlock' = proc_unlock \/ proc_unlock' = [proc_unlock EXCEPT ![<<t, FlagOf(t)>>] = NoLock]
    BY DEF UnlockTake
  <2>. QED
    BY <1>1, <1>3, <2>1
<1>9. \/ Done(t) /\ (t \notin watch \/ p = NoLock \/ (FlagOf(t) = "rw" /\ locktype[p] = 0))
      \/ /\ p # NoLock /\ t \in watch /\ UNCHANGED seen
         /\ th' = [th EXCEPT ![t] = [@ EXCEPT !.at = "typed", !.ptr = proc_unlock[<<t, FlagOf(t)>>],
                                              !.type = locktype[proc_unlock[<<t, FlagOf(t)>>]]]]
  BY <1>4 DEF UnlockTake
<1>10. /\ th' \in [Thread -> Call] /\ seen' \in [Thread -> BOOLEAN]
       /\ \A u \in Thread \ {t} : th'[u] = th[u] /\ seen'[u] = seen[u]
       /\ \/ /\ th'[t].at = "run" /\ ~seen'[t]
             /\ t \notin watch \/ p = NoLock \/ locktype[p] = 0
          \/ /\ th'[t].at = "typed" /\ th'[t].lock = l /\ th'[t].mode = m /\ th'[t].ptr = p
             /\ p \in Lock /\ seen'[t] = seen[t]
  <2>1. CASE Done(t) /\ (t \notin watch \/ p = NoLock \/ (FlagOf(t) = "rw" /\ locktype[p] = 0))
    BY <2>1, DoneFacts DEF LockInv
  <2>2. CASE /\ p # NoLock /\ UNCHANGED seen
             /\ th' = [th EXCEPT ![t] = [@ EXCEPT !.at = "typed", !.ptr = proc_unlock[<<t, FlagOf(t)>>],
                                                  !.type = locktype[proc_unlock[<<t, FlagOf(t)>>]]]]
    <3>. DEFINE c == [th[t] EXCEPT !.at = "typed", !.ptr = proc_unlock[<<t, FlagOf(t)>>],
                                   !.type = locktype[proc_unlock[<<t, FlagOf(t)>>]]]
    <3>1. locktype[proc_unlock[<<t, FlagOf(t)>>]] \in 0..2 /\ p \in Lock
      BY <1>1, <1>4, <2>2
    <3>2. /\ c \in Call /\ c.at = "typed" /\ c.lock = l /\ c.mode = m /\ c.ptr = p
      BY <1>1, <1>2, <1>4, <3>1 DEF Call
    <3>3. th' = [th EXCEPT ![t] = c]
      BY <2>2
    <3>. HIDE DEF c
    <3>. QED
      BY <1>1, <2>2, <3>1, <3>2, <3>3
  <2>. QED
    BY <1>9, <2>1, <2>2
<1>11. TypeOK'
  BY <1>5, <1>8, <1>10 DEF LockInv, TypeOK
<1>12. CallsOK' /\ KindsOK'
  BY <1>2, <1>5, <1>10 DEF LockInv, CallsOK, KindsOK
<1>13. EntriesOK'
  BY <1>2, <1>5, <1>6, <1>8, <1>10, Modes, LockAssumption DEF LockInv, EntriesOK, FlagOf, CallsOK
<1>14. QuietOK'
  BY <1>5, <1>8, <1>10, Modes DEF LockInv, QuietOK, Quiet, FlagOf, CallsOK
<1>15. EventNamesItsLock' /\ TakenIsHeld'
  BY <1>5 DEF EventNamesItsLock, TakenIsHeld
<1>16. NoStaleType'
  <2>. SUFFICES ASSUME NEW k \in Lock, Quiet', locktype'[k] # 0
                PROVE  \E u \in Thread : \/ own'[k][u] # "no"
                                         \/ th'[u].at \in {"released", "typed"} /\ th'[u].lock = k
    BY DEF NoStaleType, Quiet
  <2>1. Quiet /\ locktype[k] # 0
    BY <1>5 DEF Quiet
  <2>2. PICK u \in Thread : own[k][u] # "no" \/ (th[u].at \in {"released", "typed"} /\ th[u].lock = k)
    BY <2>1 DEF LockInv, NoStaleType, Quiet
  <2>3. CASE u = t /\ k = l
    <3>1. th'[t].at = "typed" /\ th'[t].lock = k
      BY <1>7, <1>10, <2>1, <2>3, LockAssumption
    <3>. QED
      BY <3>1
  <2>4. CASE u # t \/ k # l
    BY <1>2, <1>5, <1>10, <2>2, <2>4
  <2>. QED
    BY <2>3, <2>4
<1>. QED
  BY <1>11, <1>12, <1>13, <1>14, <1>15, <1>16 DEF LockInv

\* The rest of the return probe of an unlock function reports the lock and clears locktype.
LEMMA UnlockReportStep ==
  ASSUME LockInv, NEW t \in Thread, UnlockReport(t)
  PROVE  LockInv'
<1>1. /\ th[t].at = "typed" /\ Done(t)
      /\ UNCHANGED <<watch, cmds, own, proc_lock, proc_unlock, refused>>
  BY DEF UnlockReport
<1>2. /\ th' \in [Thread -> Call] /\ seen' \in [Thread -> BOOLEAN]
      /\ th'[t].at = "run" /\ ~seen'[t]
      /\ \A u \in Thread \ {t} : th'[u] = th[u] /\ seen'[u] = seen[u]
  BY <1>1, DoneFacts DEF LockInv
<1>3. PICK l \in Lock, m \in Mode, p \in Lock : l = th[t].lock /\ m = th[t].mode /\ p = th[t].ptr
  BY <1>1, CallTypes DEF LockInv, CallsOK
<1>4. (seen[t] => p = l) /\ seen[t] \in BOOLEAN
  BY <1>1, <1>3 DEF LockInv, EntriesOK, TypeOK
<1>5. PICK n \in Mode : GaveStatus(t) = Gave(n)
  BY <1>3 DEF GaveStatus, Mode
<1>6. \/ ev' = NoEvent
      \/ /\ ev' \in Event /\ ev'.lock = p /\ ev'.call = l /\ ev'.status = Gave(n)
         /\ (ev'.sure <=> seen[t])
  <2>. DEFINE e == [status |-> Gave(n), t |-> t, lock |-> p, ok |-> TRUE, call |-> l, sure |-> seen[t]]
  <2>1. e \in Event
    BY <1>4, Modes, EventType
  <2>2. ev' = NoEvent \/ ev' = e
    BY <1>3, <1>5 DEF UnlockReport, Submit, Ev
  <2>3. e.lock = p /\ e.call = l /\ e.status = Gave(n) /\ (e.sure <=> seen[t])
    BY <1>4
  <2>. HIDE DEF e
  <2>. QED
    BY <2>1, <2>2, <2>3
<1>7. /\ locktype' \in [Lock -> 0..2]
      /\ \A k \in Lock : locktype'[k] = IF k = p /\ Kind[l] = "rw" THEN 0 ELSE locktype[k]
  <2>1. locktype \in [Lock -> 0..2]
    BY DEF LockInv, TypeOK
  <2>2. locktype' = IF Kind[l] = "rw" THEN [locktype EXCEPT ![p] = 0] ELSE locktype
    BY <1>3 DEF UnlockReport, FlagOf
  <2>. QED
    BY <2>1, <2>2
<1>8. TypeOK'
  BY <1>1, <1>2, <1>6, <1>7 DEF LockInv, TypeOK
<1>9. CallsOK' /\ KindsOK' /\ EntriesOK'
  BY <1>1, <1>2 DEF LockInv, CallsOK, KindsOK, EntriesOK, FlagOf
<1>10. QuietOK'
  BY <1>1, <1>2, <1>7 DEF LockInv, QuietOK, Quiet, FlagOf
<1>11. EventNamesItsLock'
  BY <1>4, <1>6 DEF EventNamesItsLock
<1>12. TakenIsHeld'
  BY <1>6, Modes DEF TakenIsHeld
<1>13. NoStaleType'
  <2>. SUFFICES ASSUME NEW k \in Lock, Quiet', locktype'[k] # 0
                PROVE  \E u \in Thread : \/ own'[k][u] # "no"
                                         \/ th'[u].at \in {"released", "typed"} /\ th'[u].lock = k
    BY DEF NoStaleType, Quiet
  <2>1. Quiet /\ locktype[k] # 0 /\ ~(k = p /\ Kind[l] = "rw")
    BY <1>1, <1>7 DEF Quiet
  <2>2. PICK u \in Thread : own[k][u] # "no" \/ (th[u].at \in {"released", "typed"} /\ th[u].lock = k)
    BY <2>1 DEF LockInv, NoStaleType, Quiet
  <2>3. p = l /\ Kind[k] = "rw"
    BY <1>1, <1>4, <2>1 DEF LockInv, QuietOK
  <2>. QED
    BY <1>1, <1>2, <1>3, <2>1, <2>2, <2>3
<1>. QED
  BY <1>8, <1>9, <1>10, <1>11, <1>12, <1>13 DEF LockInv

\* A new policy forgets the calls of the threads it does not select.
LEMMA SetPolicyStep == LockInv /\ SetPolicy => LockInv'
<1>. SUFFICES ASSUME LockInv, SetPolicy PROVE LockInv'
  OBVIOUS
<1>1. /\ cmds' = cmds + 1 /\ cmds \in Nat /\ ev' = NoEvent
      /\ UNCHANGED <<own, th, proc_lock, proc_unlock, locktype, refused>>
      /\ watch' \subseteq Thread
  BY LockAssumption DEF SetPolicy, LockInv, TypeOK, maps
<1>2. /\ seen' \in [Thread -> BOOLEAN]
      /\ \A t \in Thread : seen'[t] <=> seen[t] /\ t \in watch'
  BY DEF SetPolicy, LockInv, TypeOK
<1>3. TypeOK'
  BY <1>1, <1>2 DEF LockInv, TypeOK
<1>4. CallsOK' /\ KindsOK' /\ EntriesOK'
  BY <1>1, <1>2 DEF LockInv, CallsOK, KindsOK, EntriesOK, FlagOf
<1>5. cmds' # 0
  BY <1>1
<1>. QED
  BY <1>1, <1>3, <1>4, <1>5 DEF LockInv, QuietOK, Quiet, EventNamesItsLock, TakenIsHeld, NoStaleType

\* Every step of a thread, a probe or the controller keeps LockInv.
LEMMA LockStep == LockInv /\ [Next]_vars => LockInv'
<1>. SUFFICES ASSUME LockInv, [Next]_vars PROVE LockInv'
  OBVIOUS
<1>1. CASE UNCHANGED vars
  BY <1>1 DEF vars, LockInv, TypeOK, CallsOK, KindsOK, EntriesOK, QuietOK, Quiet, EventNamesItsLock,
              TakenIsHeld, NoStaleType, FlagOf
<1>2. CASE Next
  BY <1>2, SetPolicyStep, LockEnterStep, AcquireStep, LockMarkStep, LockReportStep, UnlockEnterStep,
     ReleaseStep, UnlockTakeStep, UnlockReportStep DEF Next
<1>. QED
  BY <1>1, <1>2

\* LockInv holds in every reachable state.
THEOREM Inductive == Spec => []LockInv
BY LockInit, LockStep, PTL DEF Spec

\* The maps of the lock image keep their types.
THEOREM TypeCorrect == Spec => []TypeOK
<1>1. LockInv => TypeOK
  BY DEF LockInv
<1>. QED
  BY <1>1, Inductive, PTL

\* An event about a call that was selected since its entry names the lock the function was
\* called with, whatever entries earlier calls left in proc_lock and proc_unlock
\* (record_lock_enter, record_lock_exit, record_unlock_enter, record_unlock_exit).
THEOREM EventsNameTheirLock == Spec => []EventNamesItsLock
<1>1. LockInv => EventNamesItsLock
  BY DEF LockInv
<1>. QED
  BY <1>1, Inductive, PTL

\* Such an event that reports a lock as taken is about a lock its thread holds in that mode
\* (record_lock_exit, the ret of the event).
THEOREM ReportedLocksAreHeld == Spec => []TakenIsHeld
<1>1. LockInv => TakenIsHeld
  BY DEF LockInv
<1>. QED
  BY <1>1, Inductive, PTL

\* While the image is on for everyone and no map was full, locktype keeps no entry of a
\* lock that nobody holds and nobody is about to report (record_unlock_exit).
THEOREM TypesAreForgotten == Spec => []NoStaleType
<1>1. LockInv => NoStaleType
  BY DEF LockInv
<1>. QED
  BY <1>1, Inductive, PTL
==============================================================================
