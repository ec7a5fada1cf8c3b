------------------------- MODULE SyscallImageProofs -------------------------
(***************************************************************************)
(* The safety properties of SyscallImage hold for any tasks and groups,    *)
(* any delays and any policies the controller may write, and the ranking   *)
(* of TopSyscalls is right.                                                *)
(***************************************************************************)
EXTENDS SyscallImage, TopSyscalls, TLAPS

\* The calls of a batch whose delay is in sum_delay: not the one the task is in.
Returned(t) ==
  IF st[t] \in {"kernel", "dead"} THEN proc_syscall[t].count - 1 ELSE proc_syscall[t].count

\* n delays of at least lo and at most hi add up to sum.
Within(n, lo, hi, sum) == n * lo <= sum /\ sum <= n * hi

\* The entry of a task whose calls and delays were counted together.
EntryOK(t) ==
  LET e == proc_syscall[t] IN
  /\ Returned(t) \in Nat
  /\ e.min_delay = 0 => Returned(t) = 0 /\ e.proc_count = 0
  /\ Within(Returned(t), e.min_delay, e.max_delay, e.sum_delay)
  /\ Within(e.proc_count, e.min_delay, e.max_delay, e.proc_sd)

\* An event in the ring buffer: its quotient is there under the policy it was made under.
EventOK(v) ==
  /\ v.min_delay > 0
  /\ ~v.odd => Within(v.count, v.min_delay, v.max_delay, v.sum_delay)
  /\ v.cmds <= cmds
  /\ v.cmds = cmds /\ sc_ctrl.sc_func /\ OneTarget /\ Prints(v) => v.filled /\ v.count > 0

EntriesOK == \A t \in Task : proc_syscall[t] # Nil /\ ~odd[t] => EntryOK(t)
RingOK == \A x \in 1..Len(ring) : EventOK(ring[x])
EnvOK ==
  /\ env.min_delay = 0 => env.sum_count = 0
  /\ ~tainted => Within(env.sum_count, env.min_delay, env.max_delay, env.sum_delay)

SyscallInv ==
  /\ TypeOK /\ sc_ctrl \in Policies
  /\ EntriesOK /\ RingOK /\ EnvOK /\ RecordIsTheSequence
-----------------------------------------------------------------------------
(* Sums and their bounds. *)

\* Bounds may be widened.
LEMMA WithinWiden ==
  ASSUME NEW n \in Nat, NEW lo \in Nat, NEW hi \in Nat, NEW sum \in Nat, Within(n, lo, hi, sum),
         NEW l \in Nat, NEW u \in Nat, l <= lo, hi <= u
  PROVE  Within(n, l, u, sum)
<1>1. ASSUME NEW a \in Nat, NEW b \in Nat, a <= b PROVE n * a <= n * b
  BY <1>1
<1>2. n * l <= n * lo /\ n * hi <= n * u
  BY <1>1
<1>3. n * l \in Nat /\ n * lo \in Nat /\ n * hi \in Nat /\ n * u \in Nat
  OBVIOUS
<1>. QED
  BY <1>2, <1>3 DEF Within

\* Two sums within the same bounds add up to one.
LEMMA WithinAdd ==
  ASSUME NEW n \in Nat, NEW m \in Nat, NEW lo \in Nat, NEW hi \in Nat, NEW sum \in Nat, NEW more \in Nat,
         Within(n, lo, hi, sum), Within(m, lo, hi, more)
  PROVE  Within(n + m, lo, hi, sum + more)
<1>1. (n + m) * lo = n * lo + m * lo /\ (n + m) * hi = n * hi + m * hi
  OBVIOUS
<1>2. n * lo \in Nat /\ m * lo \in Nat /\ n * hi \in Nat /\ m * hi \in Nat
  OBVIOUS
<1>. QED
  BY <1>1, <1>2 DEF Within

\* The sum of one delay, and that of none.
LEMMA WithinOne ==
  ASSUME NEW lo \in Nat, NEW hi \in Nat, NEW d \in Nat
  PROVE  (lo <= d /\ d <= hi => Within(1, lo, hi, d)) /\ Within(0, lo, hi, 0)
BY DEF Within

\* New bounds around one delay more.  Without a delay so far there was no lower bound.
LEMMA WithinNext ==
  ASSUME NEW n \in Nat, NEW lo \in Nat, NEW hi \in Nat, NEW sum \in Nat, Within(n, lo, hi, sum),
         lo = 0 => n = 0, NEW l \in Nat, NEW u \in Nat, lo # 0 => l <= lo, hi <= u
  PROVE  Within(n, l, u, sum)
<1>1. CASE lo = 0
  BY <1>1 DEF Within
<1>2. CASE lo # 0
  BY <1>2, WithinWiden
<1>. QED
  BY <1>1, <1>2
-----------------------------------------------------------------------------
(* The operators on an entry. *)

\* The capacity of record_syscall bounds the count.
SeqOK(e, calls_made) ==
  /\ e.count = IF Len(calls_made) < MAX_SYSCALL_COUNT THEN Len(calls_made) ELSE MAX_SYSCALL_COUNT
  /\ \A i \in 1..e.count : e.record[i] = calls_made[i]

\* What is known of any entry.
LEMMA EntryTypes ==
  ASSUME NEW e \in Entry
  PROVE  /\ e.count \in 0..MAX_SYSCALL_COUNT /\ e.count \in Nat /\ e.sum_delay \in Nat /\ e.max_delay \in Nat
         /\ e.min_delay \in Nat /\ e.proc_count \in Nat /\ e.proc_sd \in Nat
         /\ e.record \in [1..MAX_SYSCALL_COUNT -> Ids \cup {0}] /\ e # Nil
BY SyscallAssumption, SyscallNilAssumption DEF Entry

\* A new entry.
LEMMA NewEntryFacts ==
  /\ NewEntry \in Entry /\ NewEntry.count = 0 /\ NewEntry.sum_delay = 0 /\ NewEntry.max_delay = 0
  /\ NewEntry.min_delay = 0 /\ NewEntry.proc_count = 0 /\ NewEntry.proc_sd = 0
BY SyscallAssumption DEF NewEntry, Entry

\* sys_enter: a slot is filled if there is one.
LEMMA RecordedFacts ==
  ASSUME NEW e \in Entry, NEW t, NEW id \in Ids
  PROVE  LET r == Recorded(e, t, id) IN
         /\ r \in Entry /\ r.sum_delay = e.sum_delay /\ r.max_delay = e.max_delay
         /\ r.min_delay = e.min_delay /\ r.proc_count = e.proc_count /\ r.proc_sd = e.proc_sd
         /\ r.count = IF e.count = MAX_SYSCALL_COUNT THEN e.count ELSE e.count + 1
         /\ \A i \in 1..e.count : r.record[i] = e.record[i]
         /\ e.count # MAX_SYSCALL_COUNT /\ Selected(t) => r.record[e.count + 1] = id
<1>1. CASE e.count = MAX_SYSCALL_COUNT
  BY <1>1 DEF Recorded
<1>2. CASE e.count # MAX_SYSCALL_COUNT
  <2>. DEFINE n == e.count + 1
              q == IF Selected(t) THEN [e.record EXCEPT ![n] = id] ELSE e.record
              r == [e EXCEPT !.count = n, !.record = q]
  <2>1. Recorded(e, t, id) = r
    BY <1>2 DEF Recorded
  <2>2. n \in 1..MAX_SYSCALL_COUNT /\ n \in 0..MAX_SYSCALL_COUNT /\ \A i \in 1..e.count : i # n /\ i \in 1..MAX_SYSCALL_COUNT
    BY <1>2, EntryTypes, SyscallAssumption
  <2>3. /\ q \in [1..MAX_SYSCALL_COUNT -> Ids \cup {0}] /\ (Selected(t) => q[n] = id)
        /\ \A i \in 1..e.count : q[i] = e.record[i]
    <3>. HIDE DEF n
    <3>1. CASE Selected(t)
      BY <2>2, <3>1, EntryTypes
    <3>2. CASE ~Selected(t)
      BY <3>2, EntryTypes
    <3>. QED
      BY <3>1, <3>2
  <2>. HIDE DEF q, n
  <2>4. /\ r \in Entry /\ r.sum_delay = e.sum_delay /\ r.max_delay = e.max_delay
        /\ r.min_delay = e.min_delay /\ r.proc_count = e.proc_count /\ r.proc_sd = e.proc_sd
        /\ r.count = n /\ r.record = q
    BY <2>2, <2>3 DEF Entry
  <2>. HIDE DEF r
  <2>. QED
    BY <1>2, <2>1, <2>3, <2>4 DEF n
<1>. QED
  BY <1>1, <1>2

\* sys_exit: the delay is added, and the extremes hold it.
LEMMA DelayedFacts ==
  ASSUME NEW e \in Entry, NEW d \in Nat \ {0}
  PROVE  LET r == Delayed(e, d) IN
         /\ r \in Entry /\ r.sum_delay = e.sum_delay + d /\ r.count = e.count /\ r.record = e.record
         /\ r.proc_count = e.proc_count /\ r.proc_sd = e.proc_sd
         /\ r.max_delay >= d /\ r.max_delay >= e.max_delay
         /\ r.min_delay > 0 /\ r.min_delay <= d /\ (e.min_delay # 0 => r.min_delay <= e.min_delay)
<1>. DEFINE s == e.sum_delay + d
            x == IF d > e.max_delay THEN d ELSE e.max_delay
            n == IF e.min_delay = 0 \/ d < e.min_delay THEN d ELSE e.min_delay
            r == [e EXCEPT !.sum_delay = s, !.max_delay = x, !.min_delay = n]
<1>1. Delayed(e, d) = r
  BY DEF Delayed
<1>2. s \in Nat /\ x \in Nat /\ x >= d /\ x >= e.max_delay
  BY EntryTypes
<1>3. n \in Nat /\ n > 0 /\ n <= d /\ (e.min_delay # 0 => n <= e.min_delay)
  BY EntryTypes
<1>. HIDE DEF s, x, n
<1>4. /\ r \in Entry /\ r.sum_delay = s /\ r.count = e.count /\ r.record = e.record
      /\ r.proc_count = e.proc_count /\ r.proc_sd = e.proc_sd /\ r.max_delay = x /\ r.min_delay = n
  BY <1>2, <1>3 DEF Entry
<1>. HIDE DEF r
<1>. QED
  BY <1>1, <1>2, <1>3, <1>4 DEF s

\* A batch is over.
LEMMA ResetFacts ==
  ASSUME NEW e \in Entry
  PROVE  /\ Reset(e) \in Entry /\ Reset(e).count = 0 /\ Reset(e).sum_delay = 0
         /\ Reset(e).min_delay = e.min_delay /\ Reset(e).max_delay = e.max_delay
         /\ Reset(e).proc_count = e.proc_count /\ Reset(e).proc_sd = e.proc_sd
<1>. DEFINE r == [e EXCEPT !.sum_delay = 0, !.count = 0]
<1>1. 0 \in 0..MAX_SYSCALL_COUNT
  BY SyscallAssumption
<1>2. /\ r \in Entry /\ r.count = 0 /\ r.sum_delay = 0 /\ r.min_delay = e.min_delay
      /\ r.max_delay = e.max_delay /\ r.proc_count = e.proc_count /\ r.proc_sd = e.proc_sd
  BY <1>1 DEF Entry
<1>. QED
  BY <1>2 DEF Reset

\* A batch enters the totals of its task, or not.
LEMMA TotalledFacts ==
  ASSUME NEW e \in Entry, NEW t
  PROVE  LET r == Totalled(e, t) IN
         /\ r \in Entry /\ r.count = e.count /\ r.sum_delay = e.sum_delay /\ r.record = e.record
         /\ r.min_delay = e.min_delay /\ r.max_delay = e.max_delay
         /\ \/ r.proc_count = e.proc_count /\ r.proc_sd = e.proc_sd
            \/ r.proc_count = e.proc_count + e.count /\ r.proc_sd = e.proc_sd + e.sum_delay
<1>1. CASE ~Selected(t)
  BY <1>1 DEF Totalled
<1>2. CASE Selected(t)
  <2>. DEFINE a == e.proc_count + e.count
              b == e.proc_sd + e.sum_delay
              r == [e EXCEPT !.proc_count = a, !.proc_sd = b]
  <2>1. Totalled(e, t) = r
    BY <1>2 DEF Totalled
  <2>2. a \in Nat /\ b \in Nat
    BY EntryTypes
  <2>. HIDE DEF a, b
  <2>3. /\ r \in Entry /\ r.count = e.count /\ r.sum_delay = e.sum_delay /\ r.record = e.record
        /\ r.min_delay = e.min_delay /\ r.max_delay = e.max_delay /\ r.proc_count = a /\ r.proc_sd = b
    BY <2>2 DEF Entry
  <2>. HIDE DEF r
  <2>. QED
    BY <2>1, <2>3 DEF a, b
<1>. QED
  BY <1>1, <1>2
-----------------------------------------------------------------------------
(* The handlers. *)

\* What the types say, one variable at a time.
LEMMA Types ==
  ASSUME SyscallInv
  PROVE  /\ st \in [Task -> At] /\ proc_syscall \in [Task -> Entry \cup {Nil}]
         /\ since \in [Task -> Seq(Ids)] /\ whole \in [Task -> BOOLEAN] /\ odd \in [Task -> BOOLEAN]
         /\ ring \in Seq(RingEvent) /\ Len(ring) \in Nat /\ Len(ring) <= RingSize
         /\ cmds \in Nat /\ calls \in Nat /\ MAX_SYSCALL_COUNT \in Nat \ {0} /\ RingSize \in Nat
         /\ \A t \in Task : proc_syscall[t] # Nil => proc_syscall[t] \in Entry
BY SyscallAssumption DEF SyscallInv, TypeOK

\* No entry and no event.
LEMMA SyscallInit == Init => SyscallInv
<1>. SUFFICES ASSUME Init PROVE SyscallInv
  OBVIOUS
<1>1. sc_ctrl \in Policies /\ sc_ctrl \in Policy
  BY SyscallAssumption DEF Init
<1>2. \A t \in Task : proc_syscall[t] = Nil
  BY DEF Init
<1>3. TypeOK
  <2>1. env \in [sum_delay : Nat, max_delay : Nat, min_delay : Nat, sum_count : Nat]
    BY DEF Init
  <2>2. since \in [Task -> Seq(Ids)] /\ ring \in Seq(RingEvent) /\ Len(ring) = 0
    BY DEF Init
  <2>3. st \in [Task -> At]
    BY DEF Init, At
  <2>4. whole \in [Task -> BOOLEAN] /\ odd \in [Task -> BOOLEAN] /\ tainted \in BOOLEAN
    BY DEF Init
  <2>5. /\ proc_syscall \in [Task -> Entry \cup {Nil}] /\ pre_target_pid \in Task \cup {Nil}
        /\ pre_target_tgid \in Groups \cup {Nil} /\ cmds \in Nat /\ calls \in Nat
    BY DEF Init
  <2>6. Len(ring) <= RingSize
    BY <2>2, SyscallAssumption
  <2>. QED
    BY <1>1, <2>1, <2>2, <2>3, <2>4, <2>5, <2>6 DEF TypeOK
<1>4. EntriesOK /\ RecordIsTheSequence
  BY <1>2 DEF EntriesOK, RecordIsTheSequence
<1>5. RingOK
  BY DEF Init, RingOK
<1>6. EnvOK
  <2>1. env.sum_count = 0 /\ env.sum_delay = 0 /\ env.min_delay = 0 /\ env.max_delay = 0
    BY DEF Init
  <2>. QED
    BY <2>1 DEF EnvOK, Within
<1>. QED
  BY <1>1, <1>3, <1>4, <1>5, <1>6 DEF SyscallInv

\* What is to be shown of a step of task t.
LEMMA TaskFrame ==
  ASSUME SyscallInv, NEW t \in Task, UNCHANGED <<sc_ctrl, cmds, env, tainted>>,
         st' \in [Task -> At], proc_syscall' \in [Task -> Entry \cup {Nil}], since' \in [Task -> Seq(Ids)],
         whole' \in [Task -> BOOLEAN], odd' \in [Task -> BOOLEAN], calls' \in Nat,
         pre_target_pid' \in Task \cup {Nil}, pre_target_tgid' \in Groups \cup {Nil},
         \A u \in Task \ {t} : /\ st'[u] = st[u] /\ proc_syscall'[u] = proc_syscall[u] /\ since'[u] = since[u]
                               /\ (whole'[u] <=> whole[u]) /\ (odd'[u] <=> odd[u]),
         ring' \in Seq(RingEvent), Len(ring') <= RingSize, RingOK',
         proc_syscall'[t] # Nil /\ ~odd'[t] => EntryOK(t)',
         proc_syscall'[t] # Nil /\ whole'[t] => SeqOK(proc_syscall'[t], since'[t])
  PROVE  SyscallInv'
<1>1. TypeOK'
  BY DEF SyscallInv, TypeOK
<1>2. EntriesOK'
  <2>1. ASSUME NEW u \in Task, u # t, proc_syscall'[u] # Nil, ~odd'[u] PROVE EntryOK(u)'
    <3>1. EntryOK(u)
      BY <2>1 DEF SyscallInv, EntriesOK
    <3>. QED
      BY <2>1, <3>1 DEF EntryOK, Returned
  <2>. QED
    BY <2>1 DEF EntriesOK
<1>3. RecordIsTheSequence'
  <2>1. \A u \in Task : proc_syscall[u] # Nil /\ whole[u] => SeqOK(proc_syscall[u], since[u])
    BY DEF SyscallInv, RecordIsTheSequence, SeqOK
  <2>2. \A u \in Task : proc_syscall'[u] # Nil /\ whole'[u] => SeqOK(proc_syscall'[u], since'[u])
    BY <2>1
  <2>. QED
    BY <2>2 DEF RecordIsTheSequence, SeqOK
<1>4. EnvOK'
  BY DEF SyscallInv, EnvOK
<1>. QED
  BY <1>1, <1>2, <1>3, <1>4 DEF SyscallInv

\* The ring buffer as it was.
LEMMA RingFrame ==
  ASSUME SyscallInv, UNCHANGED <<sc_ctrl, cmds, ring>>
  PROVE  ring' \in Seq(RingEvent) /\ Len(ring') <= RingSize /\ RingOK'
BY DEF SyscallInv, TypeOK, RingOK, EventOK, OneTarget, Prints

\* A task enters the kernel.
LEMMA EnterStep == ASSUME SyscallInv, NEW t \in Task, NEW id \in Ids, Enter(t, id) PROVE SyscallInv'
<1>. DEFINE e == proc_syscall[t]
<1>1. /\ st[t] = "user" /\ st' = [st EXCEPT ![t] = "kernel"] /\ calls' = calls + 1
      /\ UNCHANGED <<sc_ctrl, cmds, pre_target_pid, pre_target_tgid, ring, env, tainted>>
  BY DEF Enter
<1>2. /\ st' \in [Task -> At] /\ st'[t] = "kernel" /\ calls' \in Nat
      /\ \A u \in Task \ {t} : st'[u] = st[u]
  BY <1>1, Types DEF At
<1>3. /\ since' \in [Task -> Seq(Ids)] /\ \A u \in Task \ {t} : since'[u] = since[u]
      /\ since'[t] = IF Runs(t) /\ e = Nil THEN <<id>> ELSE Append(since[t], id)
  <2>. DEFINE s == IF Runs(t) /\ e = Nil THEN <<id>> ELSE Append(since[t], id)
  <2>1. since' = [since EXCEPT ![t] = s]
    BY DEF Enter
  <2>2. s \in Seq(Ids)
    BY Types
  <2>. HIDE DEF s
  <2>3. since' \in [Task -> Seq(Ids)] /\ since'[t] = s /\ \A u \in Task \ {t} : since'[u] = since[u]
    BY <2>1, <2>2, Types
  <2>. QED
    BY <2>3 DEF s
<1>4. /\ whole' \in [Task -> BOOLEAN] /\ (whole'[t] => Runs(t) /\ Selected(t) /\ (e = Nil \/ whole[t]))
      /\ \A u \in Task \ {t} : whole'[u] <=> whole[u]
  <2>1. whole' = [whole EXCEPT ![t] = Runs(t) /\ Selected(t) /\ (e = Nil \/ whole[t])]
    BY DEF Enter
  <2>2. (Runs(t) /\ Selected(t) /\ (e = Nil \/ whole[t])) \in BOOLEAN
    OBVIOUS
  <2>. QED
    BY <2>1, <2>2, Types
<1>5. pre_target_pid' \in Task \cup {Nil} /\ pre_target_tgid' \in Groups \cup {Nil}
  BY <1>1 DEF SyscallInv, TypeOK
<1>6. ring' \in Seq(RingEvent) /\ Len(ring') <= RingSize /\ RingOK'
  BY <1>1, RingFrame
<1>7. CASE ~Runs(t) /\ odd' = [odd EXCEPT ![t] = TRUE] /\ UNCHANGED proc_syscall
  <2>1. odd' \in [Task -> BOOLEAN] /\ odd'[t] /\ \A u \in Task \ {t} : odd'[u] <=> odd[u]
    BY <1>7, Types
  <2>2. proc_syscall' \in [Task -> Entry \cup {Nil}] /\ \A u \in Task : proc_syscall'[u] = proc_syscall[u]
    BY <1>7, Types
  <2>. QED
    BY <1>1, <1>2, <1>3, <1>4, <1>5, <1>6, <1>7, <2>1, <2>2, TaskFrame
<1>8. CASE /\ Runs(t) /\ e = Nil /\ odd' = [odd EXCEPT ![t] = FALSE]
           /\ proc_syscall' = IF Room THEN [proc_syscall EXCEPT ![t] = Recorded(NewEntry, t, id)]
                                      ELSE proc_syscall
  <2>1. odd' \in [Task -> BOOLEAN] /\ \A u \in Task \ {t} : odd'[u] <=> odd[u]
    BY <1>8, Types
  <2>2. CASE UNCHANGED proc_syscall
    <3>1. proc_syscall' \in [Task -> Entry \cup {Nil}] /\ \A u \in Task : proc_syscall'[u] = proc_syscall[u]
      BY <2>2, Types
    <3>2. proc_syscall'[t] = Nil
      BY <1>8, <3>1
    <3>. QED
      BY <1>1, <1>2, <1>3, <1>4, <1>5, <1>6, <2>1, <3>1, <3>2, TaskFrame
  <2>3. CASE proc_syscall' = [proc_syscall EXCEPT ![t] = Recorded(NewEntry, t, id)]
    <3>1. PICK r \in Entry : /\ r = Recorded(NewEntry, t, id) /\ r.count = 1 /\ r.min_delay = 0
                             /\ r.max_delay = 0 /\ r.sum_delay = 0 /\ r.proc_count = 0 /\ r.proc_sd = 0
                             /\ (Selected(t) => r.record[1] = id)
      BY NewEntryFacts, RecordedFacts, Types
    <3>2. /\ proc_syscall' \in [Task -> Entry \cup {Nil}] /\ proc_syscall'[t] = r
          /\ \A u \in Task \ {t} : proc_syscall'[u] = proc_syscall[u]
      BY <2>3, <3>1, Types
    <3>3. EntryOK(t)'
      BY <1>2, <3>1, <3>2 DEF EntryOK, Returned, Within
    <3>4. whole'[t] => SeqOK(r, since'[t])
      <4>1. since'[t] = <<id>>
        BY <1>3, <1>8
      <4>2. Len(<<id>>) = 1 /\ <<id>>[1] = id
        OBVIOUS
      <4>3. 1 = IF 1 < MAX_SYSCALL_COUNT THEN 1 ELSE MAX_SYSCALL_COUNT
        BY SyscallAssumption, SMT
      <4>4. \A i \in 1..1 : i = 1
        OBVIOUS
      <4>. QED
        BY <1>4, <3>1, <4>1, <4>2, <4>3, <4>4 DEF SeqOK
    <3>. QED
      BY <1>1, <1>2, <1>3, <1>4, <1>5, <1>6, <2>1, <3>2, <3>3, <3>4, TaskFrame
  <2>. QED
    BY <1>8, <2>2, <2>3
<1>9. CASE /\ Runs(t) /\ e # Nil /\ proc_syscall' = [proc_syscall EXCEPT ![t] = Recorded(e, t, id)]
           /\ odd' = [odd EXCEPT ![t] = @ \/ e.count = MAX_SYSCALL_COUNT]
  <2>1. /\ odd' \in [Task -> BOOLEAN] /\ (~odd'[t] => ~odd[t] /\ e.count # MAX_SYSCALL_COUNT)
        /\ \A u \in Task \ {t} : odd'[u] <=> odd[u]
    <3>1. (odd[t] \/ e.count = MAX_SYSCALL_COUNT) \in BOOLEAN
      BY Types
    <3>. QED
      BY <1>9, <3>1, Types
  <2>2. e \in Entry /\ e.count \in Nat /\ e.count \in 0..MAX_SYSCALL_COUNT
    BY <1>9, Types, EntryTypes
  <2>3. PICK r \in Entry :
           /\ r = Recorded(e, t, id) /\ r.sum_delay = e.sum_delay /\ r.max_delay = e.max_delay
           /\ r.min_delay = e.min_delay /\ r.proc_count = e.proc_count /\ r.proc_sd = e.proc_sd
           /\ r.count = IF e.count = MAX_SYSCALL_COUNT THEN e.count ELSE e.count + 1
           /\ (\A i \in 1..e.count : r.record[i] = e.record[i])
           /\ (e.count # MAX_SYSCALL_COUNT /\ Selected(t) => r.record[e.count + 1] = id)
    BY <2>2, RecordedFacts
  <2>4. /\ proc_syscall' \in [Task -> Entry \cup {Nil}] /\ proc_syscall'[t] = r
        /\ \A u \in Task \ {t} : proc_syscall'[u] = proc_syscall[u]
    BY <1>9, <2>3, Types
  <2>5. ~odd'[t] => EntryOK(t)'
    <3>1. SUFFICES ASSUME ~odd'[t] PROVE EntryOK(t)'
      OBVIOUS
    <3>2. EntryOK(t) /\ Returned(t) = e.count
      BY <1>1, <1>9, <2>1, <3>1 DEF SyscallInv, EntriesOK, Returned
    <3>3. Returned(t)' = e.count
      BY <1>2, <2>1, <2>2, <2>3, <2>4, <3>1 DEF Returned
    <3>. QED
      BY <2>2, <2>3, <2>4, <3>2, <3>3 DEF EntryOK
  <2>6. whole'[t] => SeqOK(r, since'[t])
    <3>1. SUFFICES ASSUME whole'[t] PROVE SeqOK(r, since'[t])
      OBVIOUS
    <3>2. Selected(t) /\ SeqOK(e, since[t])
      BY <1>4, <1>9, <3>1 DEF SyscallInv, RecordIsTheSequence, SeqOK
    <3>3. since'[t] = Append(since[t], id) /\ since[t] \in Seq(Ids)
      BY <1>3, <1>9, Types
    <3>4. /\ Len(since'[t]) = Len(since[t]) + 1 /\ Len(since[t]) \in Nat /\ since'[t][Len(since[t]) + 1] = id
          /\ \A i \in 1..Len(since[t]) : since'[t][i] = since[t][i]
      BY <3>3
    <3>5. CASE e.count = MAX_SYSCALL_COUNT
      <4>1. Len(since[t]) >= MAX_SYSCALL_COUNT
        BY <3>2, <3>4, <3>5, Types DEF SeqOK
      <4>. QED
        BY <2>2, <2>3, <3>2, <3>4, <3>5, <4>1, Types DEF SeqOK
    <3>6. CASE e.count # MAX_SYSCALL_COUNT
      <4>1. e.count = Len(since[t]) /\ r.count = e.count + 1
        BY <2>3, <3>2, <3>6 DEF SeqOK
      <4>2. r.record[e.count + 1] = id
        BY <2>3, <3>2, <3>6
      <4>3. \A i \in 1..r.count : r.record[i] = since'[t][i]
        <5>1. \A i \in 1..r.count : i \in 1..e.count \/ i = e.count + 1
          BY <2>2, <4>1
        <5>. QED
          BY <2>3, <3>2, <3>4, <4>1, <4>2, <5>1 DEF SeqOK
      <4>4. r.count = IF Len(since'[t]) < MAX_SYSCALL_COUNT THEN Len(since'[t]) ELSE MAX_SYSCALL_COUNT
        BY <2>2, <3>4, <3>6, <4>1, Types
      <4>. QED
        BY <4>3, <4>4 DEF SeqOK
    <3>. QED
      BY <3>5, <3>6
  <2>. QED
    BY <1>1, <1>2, <1>3, <1>4, <1>5, <1>6, <2>1, <2>4, <2>5, <2>6, TaskFrame
<1>. QED
  BY <1>7, <1>8, <1>9 DEF Enter

\* With the delay of the call that returns, all calls of the batch are in the sums.
LEMMA DelayedEntry ==
  ASSUME SyscallInv, NEW t \in Task, st[t] = "kernel", proc_syscall[t] # Nil, ~odd[t],
         NEW d \in Nat \ {0}, NEW r \in Entry, r = Delayed(proc_syscall[t], d)
  PROVE  /\ Within(r.count, r.min_delay, r.max_delay, r.sum_delay)
         /\ Within(r.proc_count, r.min_delay, r.max_delay, r.proc_sd)
<1>1. PICK e \in Entry : e = proc_syscall[t]
  BY Types
<1>2. PICK n \in Nat : n = Returned(t) /\ n = e.count - 1
  BY <1>1 DEF SyscallInv, EntriesOK, EntryOK, Returned
<1>3. /\ e.min_delay = 0 => n = 0 /\ e.proc_count = 0
      /\ Within(n, e.min_delay, e.max_delay, e.sum_delay)
      /\ Within(e.proc_count, e.min_delay, e.max_delay, e.proc_sd)
  BY <1>1, <1>2 DEF SyscallInv, EntriesOK, EntryOK
<1>4. /\ r.sum_delay = e.sum_delay + d /\ r.count = e.count /\ r.proc_count = e.proc_count /\ r.proc_sd = e.proc_sd
      /\ r.max_delay >= d /\ r.max_delay >= e.max_delay
      /\ r.min_delay <= d /\ (e.min_delay # 0 => r.min_delay <= e.min_delay)
  BY <1>1, DelayedFacts
<1>5. /\ e.count \in Nat /\ e.sum_delay \in Nat /\ e.max_delay \in Nat /\ e.min_delay \in Nat
      /\ e.proc_count \in Nat /\ e.proc_sd \in Nat /\ r.max_delay \in Nat /\ r.min_delay \in Nat
  BY EntryTypes
<1>6. e.max_delay <= r.max_delay /\ d <= r.max_delay
  BY <1>4, <1>5
<1>7. Within(n, r.min_delay, r.max_delay, e.sum_delay) /\ Within(1, r.min_delay, r.max_delay, d)
  BY <1>3, <1>4, <1>5, <1>6, WithinNext, WithinOne
<1>8. Within(n + 1, r.min_delay, r.max_delay, e.sum_delay + d)
  BY <1>5, <1>7, WithinAdd
<1>9. n + 1 = r.count
  BY <1>2, <1>4, <1>5
<1>10. /\ Within(e.proc_count, e.min_delay, e.max_delay, e.proc_sd) /\ (e.min_delay = 0 => e.proc_count = 0)
       /\ (e.min_delay # 0 => r.min_delay <= e.min_delay) /\ e.max_delay <= r.max_delay
  BY <1>3, <1>4, <1>6
<1>11. Within(e.proc_count, r.min_delay, r.max_delay, e.proc_sd)
  BY <1>5, <1>10, WithinNext
<1>. QED
  BY <1>4, <1>8, <1>9, <1>11

\* The event of a complete batch has its quotient, if its policy has one target.
LEMMA EventFacts ==
  ASSUME SyscallInv, NEW t \in Task, Runs(t), NEW r \in Entry, r.count >= sc_ctrl.syscalls, r.min_delay > 0,
         ~odd[t] => Within(r.count, r.min_delay, r.max_delay, r.sum_delay)
  PROVE  EventOf(r, t) \in RingEvent /\ EventOK(EventOf(r, t))
<1>. DEFINE v == EventOf(r, t)
<1>1. v \in RingEvent
  <2>1. Selected(t) \in BOOLEAN
    BY DEF Selected
  <2>2. odd[t] \in BOOLEAN /\ cmds \in Nat
    BY Types
  <2>. QED
    BY <2>1, <2>2, EntryTypes DEF EventOf, RingEvent
<1>2. /\ v.t = t /\ v.sum_delay = r.sum_delay /\ v.max_delay = r.max_delay /\ v.min_delay = r.min_delay
      /\ v.count = r.count /\ v.filled = Selected(t) /\ v.odd = odd[t] /\ v.cmds = cmds
  BY DEF EventOf
<1>. HIDE DEF v
<1>3. sc_ctrl.sc_func => r.count > 0
  <2>1. sc_ctrl \in Policies /\ sc_ctrl \in Policy
    BY DEF SyscallInv, TypeOK
  <2>2. sc_ctrl.sc_func => sc_ctrl.syscalls > 0
    BY <2>1, SyscallAssumption
  <2>3. sc_ctrl.syscalls \in Nat /\ r.count \in Nat
    BY <2>1, EntryTypes, SyscallAssumption DEF Policy
  <2>. QED
    BY <2>2, <2>3
<1>4. OneTarget /\ Prints(v) => Selected(t)
  <2>1. Tgid[t] \in Groups /\ Nil \notin Groups /\ t # Nil
    BY SyscallAssumption DEF Groups
  <2>. QED
    BY <1>2, <2>1 DEF OneTarget, Prints, Selected
<1>5. cmds <= cmds
  BY Types
<1>. QED
  BY <1>1, <1>2, <1>3, <1>4, <1>5 DEF EventOK, v

\* sys_exit.
LEMMA ExitStep == ASSUME SyscallInv, NEW t \in Task, NEW d \in Delays, Exit(t, d) PROVE SyscallInv'
<1>1. st[t] = "kernel" /\ UNCHANGED <<sc_ctrl, cmds, pre_target_pid, pre_target_tgid, env, calls, tainted>>
  BY DEF Exit
<1>2. /\ pre_target_pid' \in Task \cup {Nil} /\ pre_target_tgid' \in Groups \cup {Nil} /\ calls' \in Nat
      /\ d \in Nat \ {0}
  BY <1>1, SyscallAssumption DEF SyscallInv, TypeOK
<1>3. ASSUME NEW a \in At, st' = [st EXCEPT ![t] = a]
      PROVE  st' \in [Task -> At] /\ st'[t] = a /\ \A u \in Task \ {t} : st'[u] = st[u]
  BY <1>3, Types
<1>4. "user" \in At /\ "drop_pid" \in At /\ "drop_tgid" \in At
  BY DEF At
<1>5. CASE st' = [st EXCEPT ![t] = "user"] /\ odd' = [odd EXCEPT ![t] = TRUE]
           /\ UNCHANGED <<proc_syscall, ring, since, whole>>
  <2>1. odd' \in [Task -> BOOLEAN] /\ odd'[t] /\ \A u \in Task \ {t} : odd'[u] <=> odd[u]
    BY <1>5, Types
  <2>2. ring' \in Seq(RingEvent) /\ Len(ring') <= RingSize /\ RingOK'
    BY <1>1, <1>5, RingFrame
  <2>3. proc_syscall[t] # Nil /\ whole[t] => SeqOK(proc_syscall[t], since[t])
    BY DEF SyscallInv, RecordIsTheSequence, SeqOK
  <2>. QED
    BY <1>1, <1>2, <1>3, <1>4, <1>5, <2>1, <2>2, <2>3, Types, TaskFrame
<1>6. CASE Runs(t) /\ proc_syscall[t] # Nil /\ UNCHANGED odd
  <2>1. PICK e \in Entry : e = proc_syscall[t]
    BY <1>6, Types
  <2>2. PICK r \in Entry : r = Delayed(e, d) /\ r.count = e.count /\ r.record = e.record /\ r.min_delay > 0
    BY <1>2, DelayedFacts
  <2>3. ~odd[t] => /\ Within(r.count, r.min_delay, r.max_delay, r.sum_delay)
                   /\ Within(r.proc_count, r.min_delay, r.max_delay, r.proc_sd)
    BY <1>1, <1>2, <1>6, <2>1, <2>2, DelayedEntry
  <2>4. whole[t] => SeqOK(r, since[t])
    BY <1>6, <2>1, <2>2 DEF SyscallInv, RecordIsTheSequence, SeqOK
  <2>5. ASSUME NEW n \in Entry, proc_syscall' = [proc_syscall EXCEPT ![t] = n]
        PROVE  /\ proc_syscall' \in [Task -> Entry \cup {Nil}] /\ proc_syscall'[t] = n
               /\ \A u \in Task \ {t} : proc_syscall'[u] = proc_syscall[u]
    BY <2>5, Types
  <2>6. odd' \in [Task -> BOOLEAN] /\ \A u \in Task : odd'[u] <=> odd[u]
    BY <1>6, Types
  \* What a batch leaves behind when it is over.
  <2>7. ASSUME NEW n \in Entry, n.count = 0, NewBatch(t)
        PROVE  /\ since' \in [Task -> Seq(Ids)] /\ whole' \in [Task -> BOOLEAN] /\ SeqOK(n, since'[t])
               /\ \A u \in Task \ {t} : since'[u] = since[u] /\ (whole'[u] <=> whole[u])
    <3>1. since' = [since EXCEPT ![t] = <<>>] /\ whole' = [whole EXCEPT ![t] = TRUE]
      BY <2>7 DEF NewBatch
    <3>2. << >> \in Seq(Ids) /\ Len(<< >>) = 0
      OBVIOUS
    <3>3. /\ since' \in [Task -> Seq(Ids)] /\ whole' \in [Task -> BOOLEAN] /\ since'[t] = << >>
          /\ \A u \in Task \ {t} : since'[u] = since[u] /\ (whole'[u] <=> whole[u])
      BY <3>1, <3>2, Types
    <3>4. 0 = IF 0 < MAX_SYSCALL_COUNT THEN 0 ELSE MAX_SYSCALL_COUNT
      BY Types
    <3>. QED
      BY <2>7, <3>2, <3>3, <3>4 DEF SeqOK
  <2>8. ASSUME NEW n \in Entry, proc_syscall'[t] = n, st'[t] \in {"user", "drop_pid", "drop_tgid"},
               n.min_delay = r.min_delay,
               Within(n.count, n.min_delay, n.max_delay, n.sum_delay),
               Within(n.proc_count, n.min_delay, n.max_delay, n.proc_sd)
        PROVE  EntryOK(t)'
    <3>1. Returned(t)' = n.count /\ n.count \in Nat /\ n.min_delay # 0
      BY <2>2, <2>8, EntryTypes DEF Returned
    <3>. QED
      BY <2>8, <3>1 DEF EntryOK
  <2>9. CASE /\ st' = [st EXCEPT ![t] = "user"] /\ proc_syscall' = [proc_syscall EXCEPT ![t] = Delayed(e, d)]
             /\ UNCHANGED <<ring, since, whole>>
    <3>1. st' \in [Task -> At] /\ st'[t] = "user" /\ \A u \in Task \ {t} : st'[u] = st[u]
      BY <1>3, <1>4, <2>9
    <3>2. /\ proc_syscall' \in [Task -> Entry \cup {Nil}] /\ proc_syscall'[t] = r
          /\ \A u \in Task \ {t} : proc_syscall'[u] = proc_syscall[u]
      BY <2>2, <2>5, <2>9
    <3>3. ring' \in Seq(RingEvent) /\ Len(ring') <= RingSize /\ RingOK'
      BY <1>1, <2>9, RingFrame
    <3>4. ~odd'[t] => EntryOK(t)'
      BY <2>3, <2>6, <2>8, <3>1, <3>2
    <3>5. /\ since' \in [Task -> Seq(Ids)] /\ whole' \in [Task -> BOOLEAN]
          /\ \A u \in Task : since'[u] = since[u] /\ (whole'[u] <=> whole[u])
      BY <2>9, Types
    <3>. QED
      BY <1>1, <1>2, <2>4, <2>6, <3>1, <3>2, <3>3, <3>4, <3>5, TaskFrame
  <2>10. CASE e.count >= sc_ctrl.syscalls /\ Flush(t, Delayed(e, d))
    <3>1. CASE /\ st' = [st EXCEPT ![t] = IF SwitchedPid(t) THEN "drop_pid" ELSE "drop_tgid"]
               /\ proc_syscall' = [proc_syscall EXCEPT ![t] = Reset(r)] /\ NewBatch(t) /\ UNCHANGED ring
      <4>1. PICK a \in {"drop_pid", "drop_tgid"} : st' = [st EXCEPT ![t] = a]
        BY <3>1
      <4>2. st' \in [Task -> At] /\ st'[t] \in {"drop_pid", "drop_tgid"} /\ \A u \in Task \ {t} : st'[u] = st[u]
        BY <1>3, <1>4, <4>1
      <4>3. PICK n \in Entry : /\ n = Reset(r) /\ n.count = 0 /\ n.sum_delay = 0 /\ n.min_delay = r.min_delay
                               /\ n.max_delay = r.max_delay /\ n.proc_count = r.proc_count /\ n.proc_sd = r.proc_sd
        BY ResetFacts
      <4>4. /\ proc_syscall' \in [Task -> Entry \cup {Nil}] /\ proc_syscall'[t] = n
            /\ \A u \in Task \ {t} : proc_syscall'[u] = proc_syscall[u]
        BY <2>5, <3>1, <4>3
      <4>5. ring' \in Seq(RingEvent) /\ Len(ring') <= RingSize /\ RingOK'
        BY <1>1, <3>1, RingFrame
      <4>6. Within(0, n.min_delay, n.max_delay, 0)
        BY EntryTypes, WithinOne
      <4>7. ~odd'[t] => EntryOK(t)'
        BY <2>3, <2>6, <2>8, <4>2, <4>3, <4>4, <4>6
      <4>8. /\ since' \in [Task -> Seq(Ids)] /\ whole' \in [Task -> BOOLEAN] /\ SeqOK(n, since'[t])
            /\ \A u \in Task \ {t} : since'[u] = since[u] /\ (whole'[u] <=> whole[u])
        BY <2>7, <3>1, <4>3
      <4>. QED
        BY <1>1, <1>2, <2>6, <4>2, <4>4, <4>5, <4>7, <4>8, TaskFrame
    <3>2. CASE st' = [st EXCEPT ![t] = "user"]
               /\ IF Len(ring) < RingSize
                  THEN /\ ring' = Append(ring, EventOf(r, t))
                       /\ proc_syscall' = [proc_syscall EXCEPT ![t] = Reset(Totalled(r, t))]
                       /\ NewBatch(t)
                  ELSE /\ proc_syscall' = [proc_syscall EXCEPT ![t] = Totalled(r, t)]
                       /\ UNCHANGED <<ring, since, whole>>
      <4>1. st' \in [Task -> At] /\ st'[t] = "user" /\ \A u \in Task \ {t} : st'[u] = st[u]
        BY <1>3, <1>4, <3>2
      <4>2. PICK m \in Entry :
              /\ m = Totalled(r, t) /\ m.count = r.count /\ m.sum_delay = r.sum_delay /\ m.record = r.record
              /\ m.min_delay = r.min_delay /\ m.max_delay = r.max_delay
              /\ \/ m.proc_count = r.proc_count /\ m.proc_sd = r.proc_sd
                 \/ m.proc_count = r.proc_count + r.count /\ m.proc_sd = r.proc_sd + r.sum_delay
        BY TotalledFacts
      <4>3. ~odd[t] => /\ Within(m.count, m.min_delay, m.max_delay, m.sum_delay)
                       /\ Within(m.proc_count, m.min_delay, m.max_delay, m.proc_sd)
        <5>1. /\ r.count \in Nat /\ r.proc_count \in Nat /\ r.min_delay \in Nat /\ r.max_delay \in Nat
              /\ r.sum_delay \in Nat /\ r.proc_sd \in Nat
          BY EntryTypes
        <5>2. ~odd[t] => Within(r.proc_count + r.count, r.min_delay, r.max_delay, r.proc_sd + r.sum_delay)
          BY <2>3, <5>1, WithinAdd
        <5>. QED
          BY <2>3, <4>2, <5>2
      <4>4. CASE Len(ring) < RingSize
        <5>1. PICK n \in Entry : /\ n = Reset(m) /\ n.count = 0 /\ n.sum_delay = 0 /\ n.min_delay = m.min_delay
                                 /\ n.max_delay = m.max_delay /\ n.proc_count = m.proc_count /\ n.proc_sd = m.proc_sd
          BY ResetFacts
        <5>2. /\ proc_syscall' \in [Task -> Entry \cup {Nil}] /\ proc_syscall'[t] = n
              /\ \A u \in Task \ {t} : proc_syscall'[u] = proc_syscall[u]
          BY <2>5, <3>2, <4>2, <4>4, <5>1
        <5>3. PICK v \in RingEvent : v = EventOf(r, t) /\ EventOK(v)
          BY <1>6, <2>2, <2>3, <2>10, EventFacts
        <5>4. ring' = Append(ring, v)
          BY <3>2, <4>4, <5>3
        <5>5. /\ ring' \in Seq(RingEvent) /\ Len(ring') = Len(ring) + 1 /\ Len(ring') <= RingSize
              /\ \A x \in 1..Len(ring') : ring'[x] = v \/ (x \in 1..Len(ring) /\ ring'[x] = ring[x])
          BY <4>4, <5>4, Types
        <5>6. RingOK'
          <6>1. \A x \in 1..Len(ring') : EventOK(ring'[x])
            BY <5>3, <5>5 DEF SyscallInv, RingOK
          <6>. QED
            BY <1>1, <6>1 DEF RingOK, EventOK, OneTarget, Prints
        <5>7. Within(0, n.min_delay, n.max_delay, 0)
          BY EntryTypes, WithinOne
        <5>8. ~odd'[t] => EntryOK(t)'
          BY <2>6, <2>8, <4>1, <4>2, <4>3, <5>1, <5>2, <5>7
        <5>9. /\ since' \in [Task -> Seq(Ids)] /\ whole' \in [Task -> BOOLEAN] /\ SeqOK(n, since'[t])
              /\ \A u \in Task \ {t} : since'[u] = since[u] /\ (whole'[u] <=> whole[u])
          BY <2>7, <3>2, <4>4, <5>1
        <5>. QED
          BY <1>1, <1>2, <2>6, <4>1, <5>2, <5>5, <5>6, <5>8, <5>9, TaskFrame
      <4>5. CASE ~(Len(ring) < RingSize)
        <5>1. /\ proc_syscall' \in [Task -> Entry \cup {Nil}] /\ proc_syscall'[t] = m
              /\ \A u \in Task \ {t} : proc_syscall'[u] = proc_syscall[u]
          BY <2>5, <3>2, <4>2, <4>5
        <5>2. UNCHANGED <<ring, since, whole>>
          BY <3>2, <4>5
        <5>3. ring' \in Seq(RingEvent) /\ Len(ring') <= RingSize /\ RingOK'
          BY <1>1, <5>2, RingFrame
        <5>4. ~odd'[t] => EntryOK(t)'
          BY <2>6, <2>8, <4>1, <4>2, <4>3, <5>1
        <5>5. /\ since' \in [Task -> Seq(Ids)] /\ whole' \in [Task -> BOOLEAN]
              /\ \A u \in Task : since'[u] = since[u] /\ (whole'[u] <=> whole[u])
          BY <5>2, Types
        <5>6. whole[t] => SeqOK(m, since[t])
          BY <2>4, <4>2 DEF SeqOK
        <5>. QED
          BY <1>1, <1>2, <2>6, <4>1, <5>1, <5>3, <5>4, <5>5, <5>6, TaskFrame
      <4>. QED
        BY <4>4, <4>5
    <3>. QED
      BY <2>2, <2>10, <3>1, <3>2 DEF Flush
  <2>. QED
    BY <1>6, <2>1, <2>9, <2>10 DEF Exit
<1>. QED
  BY <1>5, <1>6 DEF Exit

\* The target is remembered; dropping the batch left nothing to be counted.
LEMMA RememberStep == ASSUME SyscallInv, NEW t \in Task, Remember(t) PROVE SyscallInv'
<1>1. /\ st[t] \in {"drop_pid", "drop_tgid"} /\ st' = [st EXCEPT ![t] = "user"]
      /\ UNCHANGED <<sc_ctrl, cmds, proc_syscall, ring, env, calls, since, whole, odd, tainted>>
  BY DEF Remember, ghost
<1>2. st' \in [Task -> At] /\ st'[t] = "user" /\ \A u \in Task \ {t} : st'[u] = st[u]
  BY <1>1, Types DEF At
<1>3. sc_ctrl.target_pid \in Task \cup {Nil} /\ sc_ctrl.target_tgid \in Groups \cup {Nil}
  BY DEF SyscallInv, TypeOK, Policy
<1>4. pre_target_pid' \in Task \cup {Nil} /\ pre_target_tgid' \in Groups \cup {Nil} /\ calls' \in Nat
  BY <1>1, <1>3 DEF Remember, SyscallInv, TypeOK
<1>5. ring' \in Seq(RingEvent) /\ Len(ring') <= RingSize /\ RingOK'
  BY <1>1, RingFrame
<1>6. proc_syscall'[t] # Nil /\ ~odd'[t] => EntryOK(t)'
  <2>1. Returned(t)' = Returned(t)
    BY <1>1, <1>2 DEF Returned
  <2>. QED
    BY <1>1, <2>1 DEF SyscallInv, EntriesOK, EntryOK
<1>7. proc_syscall'[t] # Nil /\ whole'[t] => SeqOK(proc_syscall'[t], since'[t])
  BY <1>1 DEF SyscallInv, RecordIsTheSequence, SeqOK
<1>. QED
  BY <1>1, <1>2, <1>4, <1>5, <1>6, <1>7, Types, TaskFrame

\* A task exits inside its last call; its entry goes, or stays without that call's delay.
LEMMA DieStep == ASSUME SyscallInv, NEW t \in Task, Die(t) PROVE SyscallInv'
<1>1. /\ st[t] = "kernel" /\ st' = [st EXCEPT ![t] = "dead"]
      /\ UNCHANGED <<sc_ctrl, cmds, pre_target_pid, pre_target_tgid, ring, env, calls, since, whole, odd, tainted>>
  BY DEF Die, ghost
<1>2. st' \in [Task -> At] /\ st'[t] = "dead" /\ \A u \in Task \ {t} : st'[u] = st[u]
  BY <1>1, Types DEF At
<1>3. /\ proc_syscall' \in [Task -> Entry \cup {Nil}] /\ proc_syscall'[t] \in {Nil, proc_syscall[t]}
      /\ \A u \in Task \ {t} : proc_syscall'[u] = proc_syscall[u]
  <2>1. CASE sc_ctrl.sc_func
    BY <2>1, Types DEF Die
  <2>2. CASE ~sc_ctrl.sc_func
    BY <2>2, Types DEF Die
  <2>. QED
    BY <2>1, <2>2
<1>4. pre_target_pid' \in Task \cup {Nil} /\ pre_target_tgid' \in Groups \cup {Nil} /\ calls' \in Nat
  BY <1>1 DEF SyscallInv, TypeOK
<1>5. ring' \in Seq(RingEvent) /\ Len(ring') <= RingSize /\ RingOK'
  BY <1>1, RingFrame
<1>6. ASSUME proc_syscall'[t] # Nil, ~odd'[t] PROVE EntryOK(t)'
  <2>1. proc_syscall'[t] = proc_syscall[t] /\ EntryOK(t)
    BY <1>1, <1>3, <1>6 DEF SyscallInv, EntriesOK
  <2>2. Returned(t)' = Returned(t)
    BY <1>1, <1>2, <2>1 DEF Returned
  <2>. QED
    BY <2>1, <2>2 DEF EntryOK
<1>7. proc_syscall'[t] # Nil /\ whole'[t] => SeqOK(proc_syscall'[t], since'[t])
  BY <1>1, <1>3 DEF SyscallInv, RecordIsTheSequence, SeqOK
<1>. QED
  BY <1>1, <1>2, <1>3, <1>4, <1>5, <1>6, <1>7, Types, TaskFrame

\* A new task finds no entry, or one of a task before it.
LEMMA SpawnStep == ASSUME SyscallInv, NEW t \in Task, Spawn(t) PROVE SyscallInv'
<1>1. /\ st' = [st EXCEPT ![t] = "user"] /\ since' = [since EXCEPT ![t] = <<>>]
      /\ whole' = [whole EXCEPT ![t] = (proc_syscall[t] = Nil)]
      /\ odd' = [odd EXCEPT ![t] = (proc_syscall[t] # Nil)]
      /\ UNCHANGED <<sc_ctrl, cmds, proc_syscall, pre_target_pid, pre_target_tgid, ring, env, calls, tainted>>
  BY DEF Spawn
<1>2. st' \in [Task -> At] /\ \A u \in Task \ {t} : st'[u] = st[u]
  BY <1>1, Types DEF At
<1>3. since' \in [Task -> Seq(Ids)] /\ \A u \in Task \ {t} : since'[u] = since[u]
  BY <1>1, Types
<1>4. /\ whole' \in [Task -> BOOLEAN] /\ (whole'[t] => proc_syscall[t] = Nil)
      /\ \A u \in Task \ {t} : whole'[u] <=> whole[u]
  <2>1. (proc_syscall[t] = Nil) \in BOOLEAN
    OBVIOUS
  <2>. QED
    BY <1>1, <2>1, Types
<1>5. /\ odd' \in [Task -> BOOLEAN] /\ (~odd'[t] => proc_syscall[t] = Nil)
      /\ \A u \in Task \ {t} : odd'[u] <=> odd[u]
  <2>1. (proc_syscall[t] # Nil) \in BOOLEAN
    OBVIOUS
  <2>. QED
    BY <1>1, <2>1, Types
<1>6. pre_target_pid' \in Task \cup {Nil} /\ pre_target_tgid' \in Groups \cup {Nil} /\ calls' \in Nat
  BY <1>1 DEF SyscallInv, TypeOK
<1>7. ring' \in Seq(RingEvent) /\ Len(ring') <= RingSize /\ RingOK'
  BY <1>1, RingFrame
<1>. QED
  BY <1>1, <1>2, <1>3, <1>4, <1>5, <1>6, <1>7, Types, TaskFrame

\* No event in the ring buffer was made under a policy that is new.
LEMMA SetPolicyStep == ASSUME SyscallInv, NEW p \in Policies, SetPolicy(p) PROVE SyscallInv'
<1>1. /\ cmds' = cmds + 1 /\ sc_ctrl' = p
      /\ UNCHANGED <<st, proc_syscall, pre_target_pid, pre_target_tgid, ring, env, calls, since, whole, odd, tainted>>
  BY DEF SetPolicy, ghost
<1>2. TypeOK'
  BY <1>1, SyscallAssumption DEF SyscallInv, TypeOK
<1>3. EntriesOK'
  BY <1>1 DEF SyscallInv, EntriesOK, EntryOK, Returned
<1>4. RecordIsTheSequence' /\ EnvOK'
  BY <1>1 DEF SyscallInv, RecordIsTheSequence, EnvOK
<1>5. RingOK'
  <2>1. ASSUME NEW v \in RingEvent, EventOK(v) PROVE EventOK(v)'
    <3>1. v.cmds \in Nat
      BY DEF RingEvent
    <3>2. v.cmds <= cmds' /\ v.cmds # cmds'
      BY <1>1, <2>1, <3>1, Types DEF EventOK
    <3>. QED
      BY <2>1, <3>2 DEF EventOK
  <2>2. \A x \in 1..Len(ring) : ring[x] \in RingEvent /\ EventOK(ring[x])
    BY Types DEF SyscallInv, RingOK
  <2>3. \A x \in 1..Len(ring) : EventOK(ring[x])'
    <3>. SUFFICES ASSUME NEW x \in 1..Len(ring) PROVE EventOK(ring[x])'
      OBVIOUS
    <3>1. PICK v \in RingEvent : v = ring[x] /\ v = ring'[x] /\ EventOK(v)
      BY <1>1, <2>2
    <3>2. EventOK(v)'
      BY <2>1, <3>1
    <3>. QED
      BY <3>1, <3>2 DEF EventOK, Prints
  <2>. QED
    BY <1>1, <2>3 DEF RingOK
<1>. QED
  BY <1>1, <1>2, <1>3, <1>4, <1>5 DEF SyscallInv
-----------------------------------------------------------------------------
(* print_syscall. *)

\* An event is received, and its batch enters the totals of the system.
LEMMA PrintStep == ASSUME SyscallInv, PrintSyscall PROVE SyscallInv'
<1>1. /\ ring # <<>> /\ ring' = Tail(ring)
      /\ UNCHANGED <<st, sc_ctrl, cmds, proc_syscall, pre_target_pid, pre_target_tgid, calls, since, whole, odd>>
  BY DEF PrintSyscall
<1>2. PICK v \in RingEvent : v = Head(ring) /\ EventOK(v)
  <2>1. 1 \in 1..Len(ring) /\ Head(ring) = ring[1] /\ ring[1] \in RingEvent
    BY <1>1, Types
  <2>. QED
    BY <2>1 DEF SyscallInv, RingOK
<1>3. /\ v.sum_delay \in Nat /\ v.max_delay \in Nat /\ v.min_delay \in Nat /\ v.count \in Nat /\ v.odd \in BOOLEAN
  BY SyscallAssumption DEF RingEvent
<1>4. /\ ring' \in Seq(RingEvent) /\ Len(ring') <= RingSize
      /\ \A x \in 1..Len(ring') : x + 1 \in 1..Len(ring) /\ ring'[x] = ring[x + 1]
  BY <1>1, Types
<1>5. RingOK'
  <2>1. \A x \in 1..Len(ring') : EventOK(ring'[x])
    BY <1>4 DEF SyscallInv, RingOK
  <2>. QED
    BY <1>1, <2>1 DEF RingOK, EventOK, OneTarget, Prints
<1>6. EntriesOK' /\ RecordIsTheSequence'
  BY <1>1 DEF SyscallInv, EntriesOK, EntryOK, Returned, RecordIsTheSequence
<1>7. /\ env.sum_delay \in Nat /\ env.max_delay \in Nat /\ env.min_delay \in Nat /\ env.sum_count \in Nat
      /\ tainted \in BOOLEAN
  BY DEF SyscallInv, TypeOK
<1>8. /\ env' \in [sum_delay : Nat, max_delay : Nat, min_delay : Nat, sum_count : Nat]
      /\ tainted' \in BOOLEAN /\ EnvOK'
  <2>1. CASE ~sc_ctrl.sc_func
    <3>1. env' = env /\ (tainted' <=> tainted) /\ tainted' \in BOOLEAN
      BY <1>7, <2>1 DEF PrintSyscall
    <3>. QED
      BY <3>1 DEF SyscallInv, TypeOK, EnvOK
  <2>2. CASE sc_ctrl.sc_func
    <3>1. tainted' \in BOOLEAN /\ (~tainted' => ~tainted /\ ~v.odd)
      BY <1>2, <1>7, <2>2 DEF PrintSyscall
    <3>2. env' = Added(env, v)
      BY <1>2, <2>2 DEF PrintSyscall
    <3>3. /\ env'.sum_delay = env.sum_delay + v.sum_delay /\ env'.sum_count = env.sum_count + v.count
          /\ env'.max_delay = IF v.max_delay > env.max_delay THEN v.max_delay ELSE env.max_delay
          /\ env'.min_delay = IF env.min_delay = 0 \/ v.min_delay < env.min_delay THEN v.min_delay ELSE env.min_delay
      BY <3>2 DEF Added
    <3>4. env' \in [sum_delay : Nat, max_delay : Nat, min_delay : Nat, sum_count : Nat]
      BY <1>3, <1>7, <3>2 DEF Added
    <3>5. PICK lo \in Nat, hi \in Nat : lo = env'.min_delay /\ hi = env'.max_delay
      BY <3>4
    <3>6. /\ lo # 0 /\ lo <= v.min_delay /\ v.max_delay <= hi
          /\ (env.min_delay # 0 => lo <= env.min_delay) /\ env.max_delay <= hi
      BY <1>2, <1>3, <1>7, <3>3, <3>5 DEF EventOK
    <3>7. ASSUME ~tainted' PROVE Within(env'.sum_count, lo, hi, env'.sum_delay)
      <4>1. /\ Within(env.sum_count, env.min_delay, env.max_delay, env.sum_delay)
            /\ env.min_delay = 0 => env.sum_count = 0
        BY <3>1, <3>7 DEF SyscallInv, EnvOK
      <4>2. Within(v.count, v.min_delay, v.max_delay, v.sum_delay)
        BY <1>2, <3>1, <3>7 DEF EventOK
      <4>3. Within(env.sum_count, lo, hi, env.sum_delay)
        BY <1>7, <3>6, <4>1, WithinNext
      <4>4. Within(v.count, lo, hi, v.sum_delay)
        BY <1>3, <3>6, <4>2, WithinWiden
      <4>5. Within(env.sum_count + v.count, lo, hi, env.sum_delay + v.sum_delay)
        BY <1>3, <1>7, <4>3, <4>4, WithinAdd
      <4>6. env'.sum_count = env.sum_count + v.count /\ env'.sum_delay = env.sum_delay + v.sum_delay
        BY <3>3
      <4>. QED
        BY <4>5, <4>6, Zenon
    <3>. QED
      BY <3>1, <3>4, <3>5, <3>6, <3>7 DEF EnvOK
  <2>. QED
    BY <2>1, <2>2
<1>9. TypeOK'
  BY <1>1, <1>4, <1>8 DEF SyscallInv, TypeOK
<1>. QED
  BY <1>1, <1>5, <1>6, <1>8, <1>9 DEF SyscallInv
-----------------------------------------------------------------------------
(* The theorems. *)

\* Every step keeps SyscallInv.
LEMMA SyscallStep == ASSUME SyscallInv, [Next]_vars PROVE SyscallInv'
<1>1. CASE UNCHANGED vars
  <2>1. UNCHANGED <<st, sc_ctrl, cmds, proc_syscall, pre_target_pid, pre_target_tgid, ring, env, calls, since,
                    whole, odd, tainted>>
    BY <1>1 DEF vars, ghost
  <2>2. TypeOK'
    BY <2>1 DEF SyscallInv, TypeOK
  <2>3. EntriesOK' /\ RingOK'
    BY <2>1 DEF SyscallInv, EntriesOK, EntryOK, Returned, RingOK, EventOK, OneTarget, Prints
  <2>4. EnvOK' /\ RecordIsTheSequence'
    BY <2>1 DEF SyscallInv, EnvOK, RecordIsTheSequence
  <2>. QED
    BY <2>1, <2>2, <2>3, <2>4 DEF SyscallInv
<1>. QED
  BY <1>1, EnterStep, ExitStep, RememberStep, DieStep, SpawnStep, SetPolicyStep, PrintStep DEF Next

\* SyscallInv is an invariant of the syscall image.
THEOREM Inductive == Spec => []SyscallInv
  BY SyscallInit, SyscallStep, PTL DEF Spec

\* Every variable keeps its type; in particular count stays within record_syscall.
THEOREM TypeCorrect == Spec => []TypeOK
<1>1. SyscallInv => TypeOK
  BY DEF SyscallInv
<1>. QED
  BY <1>1, Inductive, PTL

\* The sequence of a batch that was recorded as a whole is that of the calls the task made
\* (syscall_image.bpf.c:131, 139, 146, 217, 236).
THEOREM RecordsAreSequences == Spec => []RecordIsTheSequence
<1>1. SyscallInv => RecordIsTheSequence
  BY DEF SyscallInv
<1>. QED
  BY <1>1, Inductive, PTL

\* Both averages lie between the extremes shown beside them (proc_image.c:430-458).
THEOREM AveragesAreInRange == Spec => []AveragesInRange
<1>1. SyscallInv => AveragesInRange
  <2>. SUFFICES ASSUME SyscallInv PROVE AveragesInRange
    OBVIOUS
  <2>1. ProcAverageInRange
    BY DEF SyscallInv, EntriesOK, EntryOK, Within, ProcAverageInRange
  <2>2. SysAverageInRange
    BY DEF SyscallInv, EnvOK, Within, SysAverageInRange
  <2>. QED
    BY <2>1, <2>2 DEF AveragesInRange
<1>. QED
  BY <1>1, Inductive, PTL

\* A row printed under the policy its event was made under has a quotient that was written,
\* and whose divisor is not 0 (syscall_image.bpf.c:228, proc_image.c:444, 458).
THEOREM QuotientsAreWritten == Spec => []QuotientIsWritten
<1>1. SyscallInv => QuotientIsWritten
  <2>. SUFFICES ASSUME SyscallInv, ring # <<>>, sc_ctrl.sc_func, Head(ring).cmds = cmds, OneTarget,
                       Prints(Head(ring))
                PROVE  Head(ring).filled /\ Head(ring).count > 0
    BY DEF QuotientIsWritten
  <2>1. 1 \in 1..Len(ring) /\ Head(ring) = ring[1]
    BY Types
  <2>2. EventOK(Head(ring))
    BY <2>1 DEF SyscallInv, RingOK
  <2>. QED
    BY <2>2 DEF EventOK
<1>. QED
  BY <1>1, Inductive, PTL
-----------------------------------------------------------------------------
(***************************************************************************)
(* The ranking of TopSyscalls is right for any set of system call numbers  *)
(* and any sequence of calls.  RankingIsRight is inductive together with   *)
(* the type: one call raises one counter by one, so at most that number is *)
(* out of place, and the two branches of update_syscalls put it back.      *)
(***************************************************************************)

TopInv == TopTypeOK /\ RankingIsRight

\* What one comparison of the bubble sort does to the three places.
LEMMA BubbleFacts ==
  ASSUME NEW c \in [Sys -> Nat], NEW p \in [Place -> Sys]
  PROVE  /\ Bubble(p, c, 1) \in [Place -> Sys] /\ Bubble(p, c, 2) \in [Place -> Sys]
         /\ \/ /\ c[p[2]] <= c[p[1]] /\ Bubble(p, c, 1)[1] = p[1] /\ Bubble(p, c, 1)[2] = p[2]
            \/ /\ c[p[2]] > c[p[1]] /\ Bubble(p, c, 1)[1] = p[2] /\ Bubble(p, c, 1)[2] = p[1]
         /\ Bubble(p, c, 1)[3] = p[3]
         /\ \/ /\ c[p[3]] <= c[p[2]] /\ Bubble(p, c, 2)[2] = p[2] /\ Bubble(p, c, 2)[3] = p[3]
            \/ /\ c[p[3]] > c[p[2]] /\ Bubble(p, c, 2)[2] = p[3] /\ Bubble(p, c, 2)[3] = p[2]
         /\ Bubble(p, c, 2)[1] = p[1]
BY DEF Bubble, Place

\* The bubble sort orders the places and keeps the numbers in them.
LEMMA SortedFacts ==
  ASSUME NEW c \in [Sys -> Nat], NEW p \in [Place -> Sys]
  PROVE  /\ Sorted(p, c) \in [Place -> Sys]
         /\ c[Sorted(p, c)[3]] <= c[Sorted(p, c)[2]]
         /\ c[Sorted(p, c)[2]] <= c[Sorted(p, c)[1]]
         /\ \A s : (\E i \in Place : Sorted(p, c)[i] = s) <=> (\E i \in Place : p[i] = s)
         /\ c[Sorted(p, c)[3]] <= c[p[1]] /\ c[Sorted(p, c)[3]] <= c[p[2]]
         /\ c[Sorted(p, c)[3]] <= c[p[3]]
<1> DEFINE q == Bubble(p, c, 2)
           r == Bubble(q, c, 1)
<1>1. q \in [Place -> Sys] /\ r \in [Place -> Sys]
  BY BubbleFacts
<1>2. Sorted(p, c) = Bubble(r, c, 2)
  BY DEF Sorted
<1>3. /\ p[1] \in Sys /\ p[2] \in Sys /\ p[3] \in Sys
      /\ q[1] \in Sys /\ q[2] \in Sys /\ q[3] \in Sys
      /\ r[1] \in Sys /\ r[2] \in Sys /\ r[3] \in Sys
  BY <1>1 DEF Place
<1>. HIDE DEF q, r
<1>4. \A f \in [Place -> Sys] : \A s : (\E i \in Place : f[i] = s) <=> (s = f[1] \/ s = f[2] \/ s = f[3])
  BY DEF Place
<1>5. /\ q[1] = p[1]
      /\ \/ c[p[3]] <= c[p[2]] /\ q[2] = p[2] /\ q[3] = p[3]
         \/ c[p[3]] > c[p[2]] /\ q[2] = p[3] /\ q[3] = p[2]
  BY BubbleFacts DEF q
<1>6. /\ r[3] = q[3]
      /\ \/ c[q[2]] <= c[q[1]] /\ r[1] = q[1] /\ r[2] = q[2]
         \/ c[q[2]] > c[q[1]] /\ r[1] = q[2] /\ r[2] = q[1]
  BY <1>1, BubbleFacts DEF r
<1>7. /\ Sorted(p, c) \in [Place -> Sys]
      /\ Sorted(p, c)[1] = r[1]
      /\ \/ c[r[3]] <= c[r[2]] /\ Sorted(p, c)[2] = r[2] /\ Sorted(p, c)[3] = r[3]
         \/ c[r[3]] > c[r[2]] /\ Sorted(p, c)[2] = r[3] /\ Sorted(p, c)[3] = r[2]
  BY <1>1, <1>2, BubbleFacts
<1>8. \A s \in Sys : c[s] \in Nat
  OBVIOUS
<1>9. \A s : (\E i \in Place : Sorted(p, c)[i] = s) <=> (\E i \in Place : p[i] = s)
  BY <1>4, <1>5, <1>6, <1>7
<1>. QED
  BY <1>3, <1>5, <1>6, <1>7, <1>8, <1>9

\* A call of a number that has a place: the places are sorted again.
LEMMA ListedStep ==
  ASSUME TopInv, NEW s \in Sys, Update(s), Listed(s)
  PROVE  TopInv'
<1> DEFINE c == syscalls'
<1>1. c \in [Sys -> Nat] /\ top \in [Place -> Sys]
  BY DEF TopInv, TopTypeOK, Update
<1>2. top' = Sorted(top, c)
  BY DEF Update
<1>3. \A x \in Sys : c[x] \in Nat /\ (x # s => c[x] = syscalls[x]) /\ c[x] >= syscalls[x]
  BY DEF TopInv, TopTypeOK, Update
<1>4. top[1] \in Sys /\ top[2] \in Sys /\ top[3] \in Sys
  BY <1>1 DEF Place
<1>5. /\ \A x : (\E i \in Place : top'[i] = x) <=> (\E i \in Place : top[i] = x)
      /\ top' \in [Place -> Sys] /\ Ordered'
  BY <1>1, <1>2, SortedFacts DEF Ordered
<1>6. ASSUME NEW x \in Sys, ~Listed(x)'
      PROVE  c[x] <= c[top'[3]]
  <2>1. ~Listed(x) /\ x # s
    BY <1>5, <1>6 DEF Listed
  <2>2. c[x] = syscalls[x] /\ syscalls[x] <= syscalls[top[3]]
    BY <1>3, <2>1 DEF TopInv, RankingIsRight
  <2>3. top'[3] \in {top[1], top[2], top[3]}
    BY <1>5 DEF Place
  <2>4. \A i \in Place : syscalls[top[3]] <= syscalls[top[i]]
    BY <1>4 DEF TopInv, TopTypeOK, RankingIsRight, Ordered, Place
  <2>5. syscalls[top[3]] <= syscalls[top'[3]]
    BY <2>3, <2>4 DEF Place
  <2>. QED
    BY <1>3, <1>4, <2>2, <2>3, <2>5 DEF TopInv, TopTypeOK
<1>. QED
  BY <1>1, <1>5, <1>6 DEF TopInv, TopTypeOK, RankingIsRight

\* A call of a number that has none: it is inserted, or stays out.
LEMMA UnlistedStep ==
  ASSUME TopInv, NEW s \in Sys, Update(s), ~Listed(s)
  PROVE  TopInv'
<1> DEFINE c == syscalls'
<1>1. c \in [Sys -> Nat] /\ top \in [Place -> Sys]
  BY DEF TopInv, TopTypeOK, Update
<1>2. \A x \in Sys : c[x] \in Nat /\ syscalls[x] \in Nat /\ (x # s => c[x] = syscalls[x])
  BY DEF TopInv, TopTypeOK, Update
<1>3. /\ top[1] \in Sys /\ top[2] \in Sys /\ top[3] \in Sys
      /\ top[1] # s /\ top[2] # s /\ top[3] # s
  BY <1>1 DEF Place, Listed
<1>4. c[top[3]] <= c[top[2]] /\ c[top[2]] <= c[top[1]]
  BY <1>2, <1>3 DEF TopInv, RankingIsRight, Ordered
<1>5. \A x \in Sys : x \notin {s, top[1], top[2], top[3]} => c[x] <= c[top[3]]
  BY <1>2, <1>3 DEF TopInv, RankingIsRight, Listed, Place
<1>6. CASE c[s] > c[top[3]]
  <2>1. top' = Inserted(top, c, s)
    BY <1>6 DEF Update
  <2>2. /\ top' \in [Place -> Sys]
        /\ \/ c[s] > c[top[1]] /\ c[s] > c[top[2]] /\ top'[1] = s /\ top'[2] = top[1] /\ top'[3] = top[2]
           \/ c[s] <= c[top[1]] /\ c[s] > c[top[2]] /\ top'[1] = top[1] /\ top'[2] = s /\ top'[3] = top[2]
           \/ c[s] <= c[top[2]] /\ top'[1] = top[1] /\ top'[2] = top[2] /\ top'[3] = s
    BY <1>1, <1>2, <1>3, <2>1 DEF Inserted, Place
  <2>3. Ordered'
    BY <1>2, <1>3, <1>4, <1>6, <2>2 DEF Ordered
  <2>4. ASSUME NEW x \in Sys, ~Listed(x)'
        PROVE  c[x] <= c[top'[3]]
    <3>1. x # top'[1] /\ x # top'[2] /\ x # top'[3]
      BY <2>4 DEF Listed, Place
    <3>2. x # s
      BY <2>2, <3>1
    <3>3. c[top[3]] <= c[top'[3]]
      BY <1>2, <1>3, <1>4, <1>6, <2>2
    <3>4. x = top[3] \/ c[x] <= c[top[3]]
      BY <1>5, <2>2, <3>1, <3>2
    <3>. QED
      BY <1>2, <1>3, <2>2, <3>3, <3>4
  <2>. QED
    BY <1>1, <2>2, <2>3, <2>4 DEF TopInv, TopTypeOK, RankingIsRight
<1>7. CASE ~(c[s] > c[top[3]])
  <2>1. top' = top
    BY <1>7 DEF Update
  <2>2. \A x \in Sys : ~Listed(x)' => c[x] <= c[top'[3]]
    BY <1>2, <1>3, <1>5, <1>7, <2>1 DEF Listed, Place
  <2>. QED
    BY <1>1, <1>4, <2>1, <2>2 DEF TopInv, TopTypeOK, RankingIsRight, Ordered
<1>. QED
  BY <1>6, <1>7

\* The inductive invariant.
THEOREM TopInvariance == TopSpec => []TopInv
<1>1. TopInit => TopInv
  BY TopAssumption DEF TopInit, TopInv, TopTypeOK, RankingIsRight, Ordered, Listed, Place
<1>2. TopInv /\ [TopNext]_top_vars => TopInv'
  <2>1. ASSUME TopInv, NEW s \in Sys, Update(s)
        PROVE  TopInv'
    BY <2>1, ListedStep, UnlistedStep
  <2>2. ASSUME TopInv, UNCHANGED top_vars
        PROVE  TopInv'
    BY <2>2 DEF TopInv, TopTypeOK, RankingIsRight, Ordered, Listed, top_vars
  <2>. QED
    BY <2>1, <2>2 DEF TopNext
<1>. QED
  BY <1>1, <1>2, PTL DEF TopSpec

\* update_syscalls ranks right, for every set of system call numbers and every
\* sequence of calls.
THEOREM TopIsRight == TopSpec => []RankingIsRight
<1>1. TopInv => RankingIsRight
  BY DEF TopInv
<1>. QED
  BY <1>1, TopInvariance, PTL
=============================================================================
