------------------------- MODULE KeytimeImageProofs -------------------------
(***************************************************************************)
(* The safety properties of KeytimeImage hold for any number of pids, any  *)
(* size of the maps, any policies and any number of tasks made.            *)
(***************************************************************************)
EXTENDS KeytimeImage, TLAPS

\* How a task comes to be that is made by a call at this point.
Made == [fork |-> "fork", vfork |-> "vfork", vforked |-> "vfork", pclone |-> "thread", clone |-> "other"]
Calling == {"fork", "vfork", "vforked", "pclone", "clone"}

\* Root never ends; a call that has made a task remembers it; only Root inherits.
TaskOK ==
  /\ task[Root].at \notin {"none", "exiting"}
  /\ \A p \in Pid : /\ task[p].at = "vborn" => task[p].how = "vfork"
                    /\ task[p].how = "vfork" => task[p].par \in {task[p].maker, Root}
                    /\ task[p].new # Nil <=> task[p].at \in Calling

\* The task a call remembers is the one it made, or gone: its pid was not used again.
NewOK ==
  \A p, c \in Pid : task[p].new = c /\ task[c].at # "none" =>
    task[c].maker = p /\ task[c].how = Made[task[p].at]

\* The entry of a task that was noted says how it was made, and by whom or under Root.
EntryOK(p) ==
  child[p] # Nil =>
    /\ child[p].type = CreateType[task[p].how]
    /\ child[p].ppid = task[p].maker \/ (child[p].ppid = Root /\ task[p].par = Root)

NotedOK == \A p \in noted : task[p].at # "none" /\ task[p].how # "other" /\ EntryOK(p)

\* No probe of the parent is to come that would write the entry of p.
Written(p) == \A q \in Pid : task[q].new = p => task[q].at \in {"vfork", "vforked"}

LateOK == \A p \in noted \cup reported : Written(p)

\* A task whose exit was reported is about to delete its entry, or has done so.
ReportedOK ==
  \A p \in reported : \/ task[p].at = "none" /\ child[p] = Nil
                      \/ task[p].at = "exiting" /\ found[p]

KeytimeInv ==
  TypeOK /\ TaskOK /\ NewOK /\ NotedOK /\ LateOK /\ ReportedOK /\ ExitNamesMaker

Task == [at : At, how : How, maker : Pid \cup {Nil}, par : Pid \cup {Nil}, new : Pid \cup {Nil}]
-----------------------------------------------------------------------------
(* What a step may do to a task. *)

\* q goes on: it returns from a call, or is woken in one, or is where it was.
Kept(q) ==
  /\ task'[q].how = task[q].how /\ task'[q].maker = task[q].maker
  /\ task'[q].par \in {task[q].par, Root}
  /\ task'[q].at = "none" <=> task[q].at = "none"
  /\ task'[q].at = "vborn" => task[q].at = "vborn"
  /\ task[q].at = "exiting" => task'[q].at = "exiting"
  /\ task'[q].at = "exiting" => task[q].at = "exiting" \/ q # Root
  /\ \/ task'[q].new = Nil /\ task'[q].at \notin Calling
     \/ /\ task'[q].new = task[q].new
        /\ task'[q].at = task[q].at \/ (task[q].at = "vfork" /\ task'[q].at = "vforked")

\* q is no more.
Lost(q) == q # Root /\ task'[q] = NoTask

\* A step that makes no task keeps what is known of the tasks.
LEMMA TaskFrame ==
  ASSUME KeytimeInv, \A q \in Pid : Kept(q) \/ Lost(q)
  PROVE  TaskOK' /\ NewOK'
<1>. USE DEF KeytimeInv
<1>1. Root \in Pid /\ Nil \notin Pid
  BY KeytimeAssumption
<1>2. TaskOK'
  <2>1. task'[Root].at \notin {"none", "exiting"}
    BY <1>1 DEF TaskOK, Kept, Lost
  <2>2. ASSUME NEW q \in Pid
        PROVE  /\ task'[q].at = "vborn" => task'[q].how = "vfork"
               /\ task'[q].how = "vfork" => task'[q].par \in {task'[q].maker, Root}
               /\ task'[q].new # Nil <=> task'[q].at \in Calling
    <3>1. CASE Kept(q)
      BY <3>1 DEF TaskOK, Kept, Calling
    <3>2. CASE Lost(q)
      BY <3>2 DEF Lost, NoTask, Calling
    <3>. QED
      BY <3>1, <3>2
  <2>. QED
    BY <2>1, <2>2 DEF TaskOK
<1>3. ASSUME NEW q \in Pid, NEW c \in Pid, task'[q].new = c, task'[c].at # "none"
      PROVE  task'[c].maker = q /\ task'[c].how = Made[task'[q].at]
  <2>1. Kept(c) /\ task[c].at # "none"
    BY <1>3 DEF Lost, NoTask, Kept
  <2>2. Kept(q) /\ task[q].new = c /\ Made[task'[q].at] = Made[task[q].at]
    BY <1>1, <1>3 DEF Lost, NoTask, Kept, Made
  <2>. QED
    BY <1>3, <2>1, <2>2 DEF NewOK, Kept
<1>. QED
  BY <1>2, <1>3 DEF NewOK

\* A step in which no task ends, and which writes no entry but that of c, keeps what is
\* known of the entries if it does so of that of c.
LEMMA EntryFrame ==
  ASSUME KeytimeInv, NEW c \in Child, \A q \in Pid : Kept(q),
         \A x \in Child \ {c} : child'[x] = child[x],
         child'[c] = child[c] \/ c \notin reported,
         found' = found, reported' = reported, noted' \subseteq noted \cup {c}, noted' \subseteq Pid,
         c \in noted' => /\ task[c].at # "none" /\ task[c].how # "other" /\ EntryOK(c)' /\ Written(c)'
  PROVE  NotedOK' /\ LateOK' /\ ReportedOK'
<1>. USE DEF KeytimeInv
<1>1. ASSUME NEW x \in noted' PROVE task'[x].at # "none" /\ task'[x].how # "other" /\ EntryOK(x)'
  <2>1. CASE x = c
    BY <1>1, <2>1 DEF Kept
  <2>2. CASE x # c
    <3>1. x \in noted /\ x \in Pid /\ x \in Child
      BY <1>1, <2>2 DEF Child
    <3>2. /\ child'[x] = child[x] /\ Kept(x)
          /\ task[x].at # "none" /\ task[x].how # "other" /\ EntryOK(x)
      BY <2>2, <3>1 DEF NotedOK
    <3>. QED
      BY <3>2 DEF Kept, EntryOK
  <2>. QED
    BY <2>1, <2>2
<1>2. ASSUME NEW x \in noted' \cup reported' PROVE Written(x)'
  <2>1. CASE x = c /\ c \in noted'
    BY <2>1
  <2>2. CASE ~(x = c /\ c \in noted')
    <3>1. x \in noted \cup reported /\ Written(x) /\ x # Nil
      BY <1>2, <2>2, KeytimeAssumption DEF LateOK, TypeOK
    <3>. QED
      BY <3>1 DEF Written, Kept
  <2>. QED
    BY <2>1, <2>2
<1>3. ASSUME NEW x \in reported' PROVE \/ task'[x].at = "none" /\ child'[x] = Nil
                                       \/ task'[x].at = "exiting" /\ found'[x]
  <2>1. x \in Pid /\ x \in Child /\ x \in reported /\ child'[x] = child[x] /\ Kept(x)
    BY <1>3 DEF TypeOK, Child
  <2>. QED
    BY <2>1 DEF ReportedOK, Kept
<1>. QED
  BY <1>1, <1>2, <1>3 DEF NotedOK, LateOK, ReportedOK

\* An event that is not about an exit, or none, names no maker.
LEMMA QuietEvents ==
  ASSUME \A e \in ev' : e.type \in {4, 6, 8}
  PROVE  ExitNamesMaker'
BY DEF ExitNamesMaker

\* A task moves on, its call over.
LEMMA MoveFacts ==
  ASSUME TypeOK, NEW p \in Pid, NEW to \in At, Move(p, to)
  PROVE  /\ task' \in [Pid -> Task]
         /\ task'[p].at = to /\ task'[p].new = Nil /\ task'[p].how = task[p].how
         /\ task'[p].maker = task[p].maker /\ task'[p].par = task[p].par
         /\ \A q \in Pid \ {p} : task'[q] = task[q]
<1>. DEFINE r == [task[p] EXCEPT !.at = to, !.new = Nil]
<1>1. task \in [Pid -> Task]
  BY DEF TypeOK, Task
<1>2. /\ r \in Task /\ r.at = to /\ r.new = Nil /\ r.how = task[p].how
      /\ r.maker = task[p].maker /\ r.par = task[p].par
  BY <1>1 DEF Task
<1>3. task' = [task EXCEPT ![p] = r]
  BY DEF Move
<1>. HIDE DEF r
<1>. QED
  BY <1>1, <1>2, <1>3

\* A move within the life of a task keeps all tasks.
LEMMA MoveKeeps ==
  ASSUME KeytimeInv, NEW p \in Pid, NEW to \in At \ (Calling \cup {"none", "vborn"}), Move(p, to),
         task[p].at # "none", task[p].at # "exiting", to = "exiting" => p # Root
  PROVE  task' \in [Pid -> Task] /\ \A q \in Pid : Kept(q)
<1>1. /\ task' \in [Pid -> Task]
      /\ task'[p].at = to /\ task'[p].new = Nil /\ task'[p].how = task[p].how
      /\ task'[p].maker = task[p].maker /\ task'[p].par = task[p].par
      /\ \A q \in Pid \ {p} : task'[q] = task[q]
  BY MoveFacts DEF KeytimeInv
<1>2. Kept(p)
  BY <1>1 DEF Kept
<1>3. \A q \in Pid \ {p} : Kept(q)
  BY <1>1 DEF Kept
<1>. QED
  BY <1>1, <1>2, <1>3

\* child_create writes the entry it is told to, or finds the map full and the entry absent.
LEMMA CreateFacts ==
  ASSUME TypeOK, NEW k \in {4, 6, 8}, NEW c \in Child, NEW p \in Pid \cup {Nil}, ChildCreate(k, c, p)
  PROVE  /\ child' \in [Child -> ChildInfo \cup {Nil}]
         /\ ev' \subseteq Event /\ \A e \in ev' : e.type \in {4, 6, 8}
         /\ \A x \in Child \ {c} : child'[x] = child[x]
         /\ \/ child'[c].type = k /\ child'[c].ppid = p
            \/ child' = child /\ child[c] = Nil
<1>. DEFINE r == [type |-> k, ppid |-> p]
            e == Ev(k, p, c)
<1>1. r \in ChildInfo /\ r.type = k /\ r.ppid = p
  BY DEF ChildInfo
<1>2. e \in Event /\ e.type = k
  BY DEF Ev, Event
<1>3. CASE Room({x \in Child : child[x] # Nil}, c)
  <2>1. child' = [child EXCEPT ![c] = r] /\ (ev' = {e} \/ ev' = {})
    BY <1>3 DEF ChildCreate, Submit
  <2>. HIDE DEF r, e
  <2>. QED
    BY <1>1, <1>2, <2>1 DEF TypeOK
<1>4. CASE ~Room({x \in Child : child[x] # Nil}, c)
  <2>1. child' = child /\ ev' = {}
    BY <1>4 DEF ChildCreate
  <2>2. child[c] = Nil
    BY <1>4 DEF Room
  <2>. QED
    BY <2>1, <2>2 DEF TypeOK
<1>. QED
  BY <1>3, <1>4
-----------------------------------------------------------------------------
(* Each action preserves the invariant. *)

LEMMA KeytimeInit == Init => KeytimeInv
<1>. SUFFICES ASSUME Init PROVE KeytimeInv
  OBVIOUS
<1>. DEFINE r == [NoTask EXCEPT !.at = "run"]
<1>1. /\ NoTask \in Task /\ NoTask.at = "none" /\ NoTask.new = Nil /\ NoTask.how = "other"
      /\ r \in Task /\ r.at = "run" /\ r.new = Nil /\ r.how = "other"
  BY DEF NoTask, Task, At, How
<1>2. task = [p \in Pid |-> IF p = Root THEN r ELSE NoTask]
  BY DEF Init
<1>. HIDE DEF r
<1>3. /\ task \in [Pid -> Task]
      /\ \A p \in Pid : /\ task[p].at \in {"none", "run"} /\ task[p].new = Nil /\ task[p].how = "other"
                        /\ p = Root => task[p].at = "run"
  BY <1>1, <1>2
<1>4. TypeOK
  BY <1>3 DEF Init, TypeOK, Off, Policy, Task
<1>5. TaskOK /\ NewOK
  BY <1>3, KeytimeAssumption DEF TaskOK, NewOK, Calling
<1>. QED
  BY <1>4, <1>5 DEF Init, KeytimeInv, NotedOK, LateOK, ReportedOK, ExitNamesMaker

\* A step that touches neither entries nor history, and ends and makes no task.
LEMMA PlainStep ==
  ASSUME KeytimeInv, task' \in [Pid -> Task], \A q \in Pid : Kept(q),
         UNCHANGED <<child, found, noted, reported>>, ev' = {},
         kt' \in Policy, made' \in Nat, pthread_create_enable' \subseteq Pid
  PROVE  KeytimeInv'
<1>1. TypeOK'
  BY DEF KeytimeInv, TypeOK, Task
<1>2. TaskOK' /\ NewOK'
  BY TaskFrame
<1>3. Failed \in Child /\ Failed \notin noted /\ Failed \notin reported /\ noted \subseteq Pid
  BY KeytimeAssumption DEF Child, KeytimeInv, TypeOK
<1>4. NotedOK' /\ LateOK' /\ ReportedOK'
  BY <1>3, EntryFrame
<1>5. ExitNamesMaker'
  BY QuietEvents
<1>. QED
  BY <1>1, <1>2, <1>4, <1>5 DEF KeytimeInv

\* A step whose task moves on and which may write the entry of c.
LEMMA CreateStep ==
  ASSUME KeytimeInv, task' \in [Pid -> Task], \A q \in Pid : Kept(q), NEW c \in Child,
         child' \in [Child -> ChildInfo \cup {Nil}],
         \A x \in Child \ {c} : child'[x] = child[x], child'[c] = child[c] \/ c \notin reported,
         ev' \subseteq Event, \A e \in ev' : e.type \in {4, 6, 8},
         noted' \subseteq noted \cup {c}, noted' \subseteq Pid,
         c \in noted' => /\ task[c].at # "none" /\ task[c].how # "other" /\ EntryOK(c)' /\ Written(c)',
         UNCHANGED <<kt, pthread_create_enable, found, made, reported>>
  PROVE  KeytimeInv'
<1>1. TypeOK'
  BY DEF KeytimeInv, TypeOK, Task
<1>2. TaskOK' /\ NewOK'
  BY TaskFrame
<1>3. NotedOK' /\ LateOK' /\ ReportedOK'
  BY EntryFrame
<1>4. ExitNamesMaker'
  BY QuietEvents
<1>. QED
  BY <1>1, <1>2, <1>3, <1>4 DEF KeytimeInv

\* The kernel makes a task under a pid that is free.
LEMMA MakeStep ==
  ASSUME KeytimeInv, NEW p \in Pid, NEW c \in Pid, NEW to \in Calling, NEW from \in {"run", "vborn"},
         from = "vborn" => Made[to] = "vfork",
         task[p].at \in {"run", "pthread"}, Make(p, to, c, from, Made[to])
  PROVE  KeytimeInv'
<1>. USE DEF KeytimeInv
<1>1. c # p /\ task[c].at = "none" /\ task \in [Pid -> Task] /\ Nil \notin Pid /\ Root \in Pid /\ c # Root
  BY KeytimeAssumption DEF Make, TypeOK, Task, TaskOK
<1>2. PICK how \in How : how = Made[to]
  BY DEF Made, Calling, How
<1>. DEFINE rp == [task[p] EXCEPT !.at = to, !.new = c]
            up == IF how = "thread" THEN task[p].par ELSE p
            rc == [at |-> from, how |-> how, maker |-> p, new |-> Nil, par |-> up]
<1>3. up \in Pid \cup {Nil} /\ (how = "vfork" => up = p)
  BY <1>1 DEF Task
<1>4. /\ rp \in Task /\ rp.at = to /\ rp.new = c /\ rp.how = task[p].how
      /\ rp.maker = task[p].maker /\ rp.par = task[p].par
  BY <1>1 DEF Task, At, Calling
<1>5. /\ rc \in Task /\ rc.at = from /\ rc.how = how /\ rc.maker = p /\ rc.new = Nil /\ rc.par = up
  BY <1>3 DEF Task, At
<1>6. task' = [task EXCEPT ![p] = rp, ![c] = rc]
  BY <1>2 DEF Make
<1>. HIDE DEF rp, rc, up
<1>7. /\ task' \in [Pid -> Task] /\ task'[p] = rp /\ task'[c] = rc
      /\ \A q \in Pid \ {p, c} : task'[q] = task[q]
  BY <1>1, <1>4, <1>5, <1>6
<1>8. /\ \A q \in Pid : task[q].new # c
      /\ noted' = noted \ {c} /\ reported' = reported \ {c} /\ ev' = {}
      /\ UNCHANGED <<kt, child, pthread_create_enable, found>> /\ made' = made + 1
  BY DEF Make
<1>9. TypeOK'
  BY <1>7, <1>8 DEF TypeOK, Task
<1>10. TaskOK'
  <2>1. task'[Root].at \notin {"none", "exiting"}
    BY <1>1, <1>4, <1>7 DEF TaskOK, Calling
  <2>2. /\ rp.at # "vborn" /\ (rp.how = "vfork" => rp.par \in {rp.maker, Root})
        /\ rp.new # Nil /\ rp.at \in Calling
    BY <1>1, <1>4 DEF TaskOK, Calling
  <2>3. /\ rc.at = "vborn" => rc.how = "vfork"
        /\ rc.how = "vfork" => rc.par \in {rc.maker, Root}
        /\ rc.new = Nil /\ rc.at \notin Calling
    BY <1>2, <1>3, <1>5 DEF Calling
  <2>. QED
    BY <1>7, <2>1, <2>2, <2>3 DEF TaskOK
<1>11. NewOK'
  <2>1. ASSUME NEW q \in Pid, NEW d \in Pid, task'[q].new = d, task'[d].at # "none"
        PROVE  task'[d].maker = q /\ task'[d].how = Made[task'[q].at]
    <3>1. CASE q = p
      BY <1>2, <1>4, <1>5, <1>7, <2>1, <3>1
    <3>2. CASE q # p
      <4>1. q # c /\ task'[q] = task[q] /\ d # c
        BY <1>1, <1>5, <1>7, <1>8, <2>1, <3>2
      <4>2. task[d].at # "none" /\ task'[d].maker = task[d].maker /\ task'[d].how = task[d].how
        BY <1>4, <1>7, <2>1, <4>1
      <4>. QED
        BY <2>1, <4>1, <4>2 DEF NewOK
    <3>. QED
      BY <3>1, <3>2
  <2>. QED
    BY <2>1 DEF NewOK
<1>12. NotedOK'
  <2>1. \A x \in noted' : /\ x \in noted /\ x \in Pid \ {c} /\ child'[x] = child[x]
                          /\ task'[x].at # "none" /\ task'[x].how = task[x].how
                          /\ task'[x].maker = task[x].maker /\ task'[x].par = task[x].par
    BY <1>4, <1>7, <1>8 DEF TypeOK, NotedOK, Calling
  <2>. QED
    BY <2>1 DEF NotedOK, EntryOK
<1>13. LateOK'
  <2>1. ASSUME NEW x \in noted' \cup reported', NEW q \in Pid, task'[q].new = x
        PROVE  task'[q].at \in {"vfork", "vforked"}
    <3>1. x \in noted \cup reported /\ x # c /\ x # Nil
      BY <1>1, <1>8 DEF TypeOK
    <3>2. q # p /\ q # c
      BY <1>4, <1>5, <1>7, <2>1, <3>1
    <3>. QED
      BY <1>7, <2>1, <3>1, <3>2 DEF LateOK, Written
  <2>. QED
    BY <2>1 DEF LateOK, Written
<1>14. ReportedOK'
  <2>1. \A x \in reported' : x \in reported /\ x \in Pid \ {p, c} /\ task'[x] = task[x]
    BY <1>7, <1>8 DEF TypeOK, ReportedOK
  <2>. QED
    BY <1>8, <2>1 DEF ReportedOK
<1>15. ExitNamesMaker'
  BY <1>8, QuietEvents
<1>. QED
  BY <1>9, <1>10, <1>11, <1>12, <1>13, <1>14, <1>15

LEMMA ForkStep ==
  ASSUME KeytimeInv, NEW p \in Pid, NEW c \in Pid, Fork(p, c) \/ Vfork(p, c) \/ Clone(p, c)
  PROVE  KeytimeInv'
<1>1. /\ Made["fork"] = "fork" /\ Made["vfork"] = "vfork" /\ Made["pclone"] = "thread" /\ Made["clone"] = "other"
      /\ {"fork", "vfork", "pclone", "clone"} \subseteq Calling
  BY DEF Made, Calling
<1>2. CASE Fork(p, c)
  <2>1. task[p].at = "run" /\ Make(p, "fork", c, "run", Made["fork"])
    BY <1>1, <1>2 DEF Fork
  <2>. QED
    BY <1>1, <2>1, MakeStep
<1>3. CASE Vfork(p, c)
  <2>1. task[p].at = "run" /\ Make(p, "vfork", c, "vborn", Made["vfork"])
    BY <1>1, <1>3 DEF Vfork
  <2>. QED
    BY <1>1, <2>1, MakeStep
<1>4. CASE task[p].at = "pthread" /\ Make(p, "pclone", c, "run", "thread")
  <2>1. task[p].at = "pthread" /\ Make(p, "pclone", c, "run", Made["pclone"])
    BY <1>1, <1>4
  <2>. QED
    BY <1>1, <2>1, MakeStep
<1>5. CASE task[p].at = "run" /\ Make(p, "clone", c, "run", "other")
  <2>1. task[p].at = "run" /\ Make(p, "clone", c, "run", Made["clone"])
    BY <1>1, <1>5
  <2>. QED
    BY <1>1, <2>1, MakeStep
<1>. QED
  BY <1>2, <1>3, <1>4, <1>5 DEF Clone

\* A probe of the caller sees the return of a call that made a task.
LEMMA CallerReturns ==
  ASSUME KeytimeInv, NEW p \in Pid, NEW to \in {"run", "pret"}, Move(p, to),
         task[p].at \in {"fork", "pclone", "clone"},
         UNCHANGED <<kt, pthread_create_enable, found, made, reported>>,
         \/ Quiet /\ noted' = noted
         \/ \E k \in {4, 8} : /\ ChildCreate(k, task[p].new, p)
                              /\ \/ noted' = noted
                                 \/ /\ Note(task[p].new) /\ Made[task[p].at] # "other"
                                    /\ k = CreateType[Made[task[p].at]]
  PROVE  KeytimeInv'
<1>. USE DEF KeytimeInv
<1>1. to \in At \ (Calling \cup {"none", "vborn"}) /\ task[p].at \in Calling
  BY DEF At, Calling
<1>2. /\ task' \in [Pid -> Task] /\ (\A q \in Pid : Kept(q)) /\ task'[p].new = Nil
  BY <1>1, MoveKeeps, MoveFacts
<1>3. CASE Quiet /\ noted' = noted
  BY <1>2, <1>3, PlainStep DEF Quiet, TypeOK
<1>4. ASSUME NEW k \in {4, 8}, ChildCreate(k, task[p].new, p),
             \/ noted' = noted
             \/ /\ Note(task[p].new) /\ Made[task[p].at] # "other"
                /\ k = CreateType[Made[task[p].at]]
      PROVE  KeytimeInv'
  <2>1. PICK c \in Pid : c = task[p].new
    BY <1>1 DEF TaskOK, TypeOK
  <2>2. c \in Child /\ c # Nil /\ c \notin noted /\ c \notin reported /\ noted \subseteq Pid
    BY <2>1, KeytimeAssumption DEF Child, LateOK, Written, TypeOK
  <2>3. /\ child' \in [Child -> ChildInfo \cup {Nil}]
        /\ ev' \subseteq Event /\ \A e \in ev' : e.type \in {4, 6, 8}
        /\ \A x \in Child \ {c} : child'[x] = child[x]
        /\ \/ child'[c].type = k /\ child'[c].ppid = p
           \/ child' = child /\ child[c] = Nil
    BY <1>4, <2>1, <2>2, CreateFacts
  <2>4. noted' \subseteq noted \cup {c}
    BY <1>4, <2>1 DEF Note
  <2>5. ASSUME c \in noted'
        PROVE  task[c].at # "none" /\ task[c].how # "other" /\ EntryOK(c)' /\ Written(c)'
    <3>1. /\ child'[c] # Nil /\ task[c].at # "none" /\ Made[task[p].at] # "other"
          /\ k = CreateType[Made[task[p].at]]
      BY <1>4, <2>1, <2>2, <2>5 DEF Note
    <3>2. task[c].maker = p /\ task[c].how = Made[task[p].at]
      BY <2>1, <3>1 DEF NewOK
    <3>3. child'[c].type = k /\ child'[c].ppid = p
      BY <2>3, <3>1
    <3>4. task'[c].how = task[c].how /\ task'[c].maker = p
      BY <1>2, <3>2 DEF Kept
    <3>5. EntryOK(c)'
      BY <3>1, <3>2, <3>3, <3>4 DEF EntryOK
    <3>6. ASSUME NEW q \in Pid, task'[q].new = c PROVE FALSE
      <4>1. task[q].new = c
        BY <1>2, <2>2, <3>6 DEF Kept
      <4>2. q = p
        BY <3>1, <3>2, <4>1 DEF NewOK
      <4>. QED
        BY <1>2, <2>2, <3>6, <4>2
    <3>. QED
      BY <3>1, <3>2, <3>5, <3>6 DEF Written
  <2>6. noted' \subseteq Pid
    BY <2>2, <2>4
  <2>. QED
    BY <1>2, <2>2, <2>3, <2>4, <2>5, <2>6, CreateStep
<1>. QED
  BY <1>3, <1>4

LEMMA ForkReturnStep ==
  ASSUME KeytimeInv, NEW p \in Pid, ForkReturn(p)
  PROVE  KeytimeInv'
<1>1. Made["fork"] = "fork" /\ CreateType["fork"] = 4 /\ task[p].at = "fork" /\ Move(p, "run")
  BY DEF Made, CreateType, ForkReturn
<1>2. CASE Watched(p)
  BY <1>1, <1>2, CallerReturns DEF ForkReturn, ForkExit
<1>3. CASE ~Watched(p)
  BY <1>1, <1>3, CallerReturns DEF ForkReturn, ForkExit
<1>. QED
  BY <1>2, <1>3

LEMMA CloneReturnStep ==
  ASSUME KeytimeInv, NEW p \in Pid, CloneReturn(p)
  PROVE  KeytimeInv'
<1>1. Made["pclone"] = "thread" /\ CreateType["thread"] = 8
  BY DEF Made, CreateType
<1>2. PICK to \in {"run", "pret"} : Move(p, to)
  BY DEF CloneReturn
<1>3. CASE Watched(p) /\ p \in pthread_create_enable
  BY <1>1, <1>2, <1>3, CallerReturns DEF CloneReturn
<1>4. CASE ~(Watched(p) /\ p \in pthread_create_enable)
  BY <1>2, <1>4, CallerReturns DEF CloneReturn
<1>. QED
  BY <1>3, <1>4

\* A fork that failed leaves an entry under -1, which is no pid.
LEMMA ForkFailsStep ==
  ASSUME KeytimeInv, NEW p \in Pid, ForkFails(p)
  PROVE  KeytimeInv'
<1>. USE DEF KeytimeInv
<1>1. task' = task /\ task' \in [Pid -> Task] /\ \A q \in Pid : Kept(q)
  BY DEF ForkFails, Kept, TypeOK, Task, TaskOK
<1>2. /\ Failed \in Child /\ noted \subseteq Pid /\ Failed \notin noted /\ Failed \notin reported
      /\ noted' = noted /\ CreateType["fork"] = 4
      /\ UNCHANGED <<kt, pthread_create_enable, found, made, reported>>
  BY KeytimeAssumption DEF Child, TypeOK, ForkFails, ghost, CreateType
<1>3. CASE Watched(p)
  <2>1. ChildCreate(4, Failed, p)
    BY <1>2, <1>3 DEF ForkFails, ForkExit
  <2>2. /\ child' \in [Child -> ChildInfo \cup {Nil}]
        /\ ev' \subseteq Event /\ \A e \in ev' : e.type \in {4, 6, 8}
        /\ \A x \in Child \ {Failed} : child'[x] = child[x]
    BY <1>2, <2>1, CreateFacts
  <2>. QED
    BY <1>1, <1>2, <2>2, CreateStep
<1>4. CASE ~Watched(p)
  BY <1>1, <1>2, <1>4, PlainStep DEF ForkFails, ForkExit, Quiet, TypeOK
<1>. QED
  BY <1>3, <1>4

\* The probe of vfork in the new task.
LEMMA VforkChildStep ==
  ASSUME KeytimeInv, NEW p \in Pid, VforkChild(p)
  PROVE  KeytimeInv'
<1>. USE DEF KeytimeInv
<1>1. /\ "run" \in At \ (Calling \cup {"none", "vborn"}) /\ Move(p, "run") /\ task[p].at = "vborn"
      /\ UNCHANGED <<kt, pthread_create_enable, found, made, reported>>
      /\ task[p].how = "vfork" /\ task[p].par \in {task[p].maker, Root} /\ task[p].par \in Pid \cup {Nil}
  BY DEF At, Calling, VforkChild, TaskOK, TypeOK
<1>2. /\ task' \in [Pid -> Task] /\ (\A q \in Pid : Kept(q)) /\ task'[p].new = Nil
      /\ task'[p].par = task[p].par /\ task'[p].maker = task[p].maker /\ task'[p].how = "vfork"
  BY <1>1, MoveKeeps, MoveFacts
<1>3. CASE Watched(task[p].par)
  <2>1. ChildCreate(6, p, task[p].par) /\ Note(p) /\ CreateType["vfork"] = 6
    BY <1>3 DEF VforkChild, VforkExit, CreateType
  <2>2. p \in Child /\ p # Nil /\ p \notin reported /\ noted \subseteq Pid
    BY <1>1, KeytimeAssumption DEF Child, ReportedOK, TypeOK
  <2>3. /\ child' \in [Child -> ChildInfo \cup {Nil}]
        /\ ev' \subseteq Event /\ \A e \in ev' : e.type \in {4, 6, 8}
        /\ \A x \in Child \ {p} : child'[x] = child[x]
        /\ \/ child'[p].type = 6 /\ child'[p].ppid = task[p].par
           \/ child' = child /\ child[p] = Nil
    BY <1>1, <2>1, <2>2, CreateFacts
  <2>4. noted' \subseteq noted \cup {p} /\ noted' \subseteq Pid
    BY <2>1, <2>2 DEF Note
  <2>5. EntryOK(p)'
    BY <1>1, <1>2, <2>1, <2>3 DEF EntryOK
  <2>6. ASSUME NEW q \in Pid, task'[q].new = p PROVE task'[q].at \in {"vfork", "vforked"}
    <3>1. Kept(q) /\ task[q].new = p /\ task'[q].new # Nil
      BY <1>2, <2>2, <2>6 DEF Kept
    <3>2. Made[task[q].at] = "vfork" /\ task[q].at \in Calling
      BY <1>1, <2>2, <3>1 DEF NewOK, TaskOK
    <3>3. task[q].at \in {"vfork", "vforked"}
      BY <3>2 DEF Made, Calling
    <3>. QED
      BY <3>1, <3>3 DEF Kept
  <2>7. task[p].at # "none" /\ task[p].how # "other" /\ Written(p)'
    BY <1>1, <2>6 DEF Written
  <2>. QED
    BY <1>1, <1>2, <2>2, <2>3, <2>4, <2>5, <2>7, CreateStep
<1>4. CASE ~Watched(task[p].par)
  BY <1>1, <1>2, <1>4, PlainStep DEF VforkChild, VforkExit, Quiet, TypeOK
<1>. QED
  BY <1>3, <1>4

\* The probe of vfork in the caller, which takes itself for a child.
LEMMA VforkReturnStep ==
  ASSUME KeytimeInv, NEW p \in Pid, VforkReturn(p)
  PROVE  KeytimeInv'
<1>. USE DEF KeytimeInv
<1>1. /\ "run" \in At \ (Calling \cup {"none", "vborn"}) /\ Move(p, "run") /\ task[p].at \in {"vforked", "run"}
      /\ UNCHANGED <<kt, pthread_create_enable, found, made, reported>>
      /\ task[p].par \in Pid \cup {Nil} /\ noted' = (IF child' = child THEN noted ELSE noted \ {p})
  BY DEF At, Calling, VforkReturn, TypeOK
<1>2. /\ task' \in [Pid -> Task] /\ (\A q \in Pid : Kept(q)) /\ task'[p].new = Nil
      /\ task'[p].par = task[p].par /\ task'[p].maker = task[p].maker /\ task'[p].how = task[p].how
  BY <1>1, MoveKeeps, MoveFacts
<1>3. CASE Watched(task[p].par)
  <2>1. ChildCreate(6, p, task[p].par)
    BY <1>3 DEF VforkReturn, VforkExit, CreateType
  <2>2. p \in Child /\ p # Nil /\ p \notin reported /\ noted \subseteq Pid
    BY <1>1, KeytimeAssumption DEF Child, ReportedOK, TypeOK
  <2>3. /\ child' \in [Child -> ChildInfo \cup {Nil}]
        /\ ev' \subseteq Event /\ \A e \in ev' : e.type \in {4, 6, 8}
        /\ \A x \in Child \ {p} : child'[x] = child[x]
    BY <1>1, <2>1, <2>2, CreateFacts
  <2>4. noted' \subseteq noted \cup {p} /\ noted' \subseteq Pid
    BY <1>1, <2>2
  <2>5. ASSUME p \in noted'
        PROVE  task[p].at # "none" /\ task[p].how # "other" /\ EntryOK(p)' /\ Written(p)'
    <3>1. p \in noted /\ child' = child
      BY <1>1, <2>5
    <3>2. task[p].at # "none" /\ task[p].how # "other" /\ EntryOK(p) /\ Written(p)
      BY <3>1 DEF NotedOK, LateOK
    <3>3. EntryOK(p)'
      BY <1>2, <3>1, <3>2 DEF EntryOK
    <3>4. Written(p)'
      BY <1>2, <2>2, <3>2 DEF Written, Kept
    <3>. QED
      BY <3>2, <3>3, <3>4
  <2>. QED
    BY <1>1, <1>2, <2>2, <2>3, <2>4, <2>5, CreateStep
<1>4. CASE ~Watched(task[p].par)
  BY <1>1, <1>2, <1>4, PlainStep DEF VforkReturn, VforkExit, Quiet, TypeOK
<1>. QED
  BY <1>3, <1>4

\* pthread_create, execve and a clone3 that fails.
LEMMA PlainSteps ==
  ASSUME KeytimeInv, NEW p \in Pid,
         PthreadEnter(p) \/ CloneFails(p) \/ PthreadReturn(p) \/ ExecEnter(p)
  PROVE  KeytimeInv'
<1>. USE DEF KeytimeInv
<1>1. PICK to \in {"pthread", "pret", "run", "exec"} : Move(p, to)
  BY DEF PthreadEnter, CloneFails, PthreadReturn, ExecEnter
<1>2. /\ to \in At \ (Calling \cup {"none", "vborn"}) /\ task[p].at \in {"run", "pthread", "pret"}
      /\ UNCHANGED <<kt, found, made, child, noted, reported>> /\ ev' = {}
      /\ pthread_create_enable' \subseteq Pid
  BY DEF At, Calling, PthreadEnter, CloneFails, PthreadReturn, ExecEnter, Quiet, ghost, TypeOK
<1>3. task' \in [Pid -> Task] /\ \A q \in Pid : Kept(q)
  BY <1>1, <1>2, MoveKeeps
<1>. QED
  BY <1>2, <1>3, PlainStep DEF TypeOK

\* A task that is woken by p is kept.
LEMMA WokenFacts ==
  ASSUME KeytimeInv, NEW q \in Pid, NEW p \in Pid
  PROVE  /\ Woken(q, p) \in At
         /\ Woken(q, p) = task[q].at \/ (task[q].at = "vfork" /\ Woken(q, p) = "vforked")
BY DEF Woken, KeytimeInv, TypeOK, At

LEMMA ExecExitStep ==
  ASSUME KeytimeInv, NEW p \in Pid, ExecExit(p)
  PROVE  KeytimeInv'
<1>. USE DEF KeytimeInv
<1>1. /\ UNCHANGED <<kt, pthread_create_enable, found, made, child, noted, reported>> /\ ev' = {}
      /\ task[p].at = "exec" /\ task \in [Pid -> Task] /\ task[p].new = Nil
  BY DEF ExecExit, Quiet, ghost, TypeOK, Task, TaskOK, Calling
<1>2. ASSUME NEW q \in Pid
      PROVE  \E to \in At : /\ task'[q] = [task[q] EXCEPT !.at = to]
                            /\ q = p => to = "run"
                            /\ q # p => to = task[q].at \/ (task[q].at = "vfork" /\ to = "vforked")
  <2>1. CASE task' = [task EXCEPT ![p] = [@ EXCEPT !.at = "run"]]
    <3>1. CASE q = p
      BY <1>1, <2>1, <3>1 DEF At
    <3>2. CASE q # p
      <4>1. task'[q] = task[q] /\ task[q] = [task[q] EXCEPT !.at = task[q].at] /\ task[q].at \in At
        BY <1>1, <2>1, <3>2 DEF Task
      <4>. QED
        BY <3>2, <4>1
    <3>. QED
      BY <3>1, <3>2
  <2>2. CASE task' = [x \in Pid |-> [task[x] EXCEPT !.at = IF x = p THEN "run" ELSE Woken(x, p)]]
    <3>1. task'[q] = [task[q] EXCEPT !.at = IF q = p THEN "run" ELSE Woken(q, p)] /\ "run" \in At
      BY <2>2 DEF At
    <3>. QED
      BY <3>1, WokenFacts
  <2>. QED
    BY <2>1, <2>2 DEF ExecExit
<1>3. ASSUME NEW q \in Pid PROVE task'[q] \in Task /\ Kept(q)
  <2>1. PICK to \in At : /\ task'[q] = [task[q] EXCEPT !.at = to]
                         /\ q = p => to = "run"
                         /\ q # p => to = task[q].at \/ (task[q].at = "vfork" /\ to = "vforked")
    BY <1>2
  <2>2. /\ task'[q] \in Task /\ task'[q].at = to /\ task'[q].how = task[q].how /\ task'[q].new = task[q].new
        /\ task'[q].maker = task[q].maker /\ task'[q].par = task[q].par
    BY <1>1, <2>1 DEF Task
  <2>. QED
    BY <1>1, <2>1, <2>2 DEF Kept, Calling
<1>4. task' \in [Pid -> Task]
  <2>1. task' = [q \in Pid |-> task'[q]]
    BY <1>1 DEF ExecExit
  <2>. QED
    BY <1>3, <2>1
<1>. QED
  BY <1>1, <1>3, <1>4, PlainStep DEF TypeOK

\* sys_enter_exit: what is reported of a task that was noted is right, and its entry is to go.
LEMMA ExitStep ==
  ASSUME KeytimeInv, NEW p \in Pid, Exit(p)
  PROVE  KeytimeInv'
<1>. USE DEF KeytimeInv
<1>1. /\ "exiting" \in At \ (Calling \cup {"none", "vborn"}) /\ Move(p, "exiting") /\ task[p].at = "run"
      /\ UNCHANGED <<kt, child, pthread_create_enable, made, noted>> /\ p \in Child /\ p \notin reported
      /\ p # Root
  BY DEF At, Calling, Exit, Child, ReportedOK
<1>2. /\ task' \in [Pid -> Task] /\ (\A q \in Pid : Kept(q)) /\ task'[p].at = "exiting"
      /\ task'[p].par = task[p].par /\ task'[p].maker = task[p].maker /\ task'[p].how = task[p].how
  BY <1>1, MoveKeeps, MoveFacts
<1>3. \/ /\ found' = [found EXCEPT ![p] = FALSE] /\ ev' = {} /\ reported' = reported
      \/ /\ child[p] # Nil /\ found' = [found EXCEPT ![p] = TRUE]
         /\ ev' = {Ev(child[p].type + 1, child[p].ppid, p)}
         /\ reported' = IF p \in noted THEN reported \cup {p} ELSE reported
  BY DEF Exit, ChildExit
<1>4. TaskOK' /\ NewOK'
  BY <1>2, TaskFrame
<1>5. /\ found' \in [Pid -> BOOLEAN] /\ \A x \in Pid \ {p} : found'[x] <=> found[x]
      /\ reported' \subseteq reported \cup (IF found'[p] THEN noted \cap {p} ELSE {})
  <2>1. CASE found' = [found EXCEPT ![p] = FALSE] /\ reported' = reported
    BY <2>1 DEF TypeOK
  <2>2. CASE /\ found' = [found EXCEPT ![p] = TRUE]
             /\ reported' = IF p \in noted THEN reported \cup {p} ELSE reported
    BY <2>2 DEF TypeOK
  <2>. QED
    BY <1>3, <2>1, <2>2
<1>6. ev' \subseteq Event
  <2>1. child[p] # Nil => child[p].type + 1 \in 4..9 /\ child[p].ppid \in Pid \cup {Nil}
    BY <1>1 DEF TypeOK, ChildInfo
  <2>. QED
    BY <1>1, <1>3, <2>1 DEF Event, Ev
<1>7. TypeOK'
  BY <1>1, <1>2, <1>5, <1>6 DEF TypeOK, Task
<1>8. NotedOK'
  <2>1. ASSUME NEW x \in noted' PROVE task'[x].at # "none" /\ task'[x].how # "other" /\ EntryOK(x)'
    <3>1. x \in noted /\ x \in Pid /\ Kept(x) /\ child' = child
      BY <1>1, <1>2 DEF TypeOK
    <3>. QED
      BY <3>1 DEF NotedOK, EntryOK, Kept
  <2>. QED
    BY <2>1 DEF NotedOK
<1>9. LateOK'
  <2>1. ASSUME NEW x \in noted' \cup reported' PROVE Written(x)'
    <3>1. x \in noted \cup reported /\ Written(x) /\ x # Nil
      BY <1>1, <1>5, KeytimeAssumption DEF LateOK, TypeOK
    <3>. QED
      BY <1>2, <3>1 DEF Written, Kept
  <2>. QED
    BY <2>1 DEF LateOK
<1>10. ReportedOK'
  <2>1. ASSUME NEW x \in reported' PROVE \/ task'[x].at = "none" /\ child'[x] = Nil
                                         \/ task'[x].at = "exiting" /\ found'[x]
    <3>1. CASE x = p
      BY <1>1, <1>2, <1>5, <2>1, <3>1
    <3>2. CASE x # p
      BY <1>1, <1>2, <1>5, <2>1, <3>2 DEF ReportedOK, Kept, TypeOK
    <3>. QED
      BY <3>1, <3>2
  <2>. QED
    BY <2>1 DEF ReportedOK
<1>11. ExitNamesMaker'
  <2>1. ASSUME NEW e \in ev', e.type \in {5, 7, 9}, e.info \in noted'
        PROVE  /\ task'[e.info].how # "other" /\ e.type = CreateType[task'[e.info].how] + 1
               /\ e.pid \in {task'[e.info].maker, task'[e.info].par}
    <3>1. /\ child[p] # Nil /\ e.type = child[p].type + 1 /\ e.pid = child[p].ppid /\ e.info = p
      BY <1>3, <2>1 DEF Ev
    <3>2. task[p].how # "other" /\ EntryOK(p)
      BY <1>1, <2>1, <3>1 DEF NotedOK
    <3>. QED
      BY <1>2, <3>1, <3>2 DEF EntryOK
  <2>. QED
    BY <2>1 DEF ExitNamesMaker
<1>. QED
  BY <1>4, <1>7, <1>8, <1>9, <1>10, <1>11

\* A task is gone, killed or after its exit; its entry is deleted if its exit was reported.
LEMMA GoneStep ==
  ASSUME KeytimeInv, NEW p \in Pid, ExitEnd(p) \/ Kill(p)
  PROVE  KeytimeInv'
<1>. USE DEF KeytimeInv
<1>1. /\ p # Root /\ Gone(p) /\ ev' = {} /\ task[p].at # "none"
      /\ UNCHANGED <<kt, pthread_create_enable, made>> /\ task \in [Pid -> Task]
      /\ noted' = noted \ {p} /\ reported' = reported /\ p \in Child
  BY DEF ExitEnd, Kill, Gone, TypeOK, Task, TaskOK, Child
<1>2. task' = [q \in Pid |->
        IF q = p THEN NoTask
        ELSE [task[q] EXCEPT !.at = Woken(q, p), !.par = IF task[q].par = p THEN Root ELSE task[q].par]]
  BY <1>1 DEF Gone
<1>3. Root \in Pid /\ Nil \notin Pid /\ NoTask \in Task /\ NoTask.at = "none" /\ NoTask.new = Nil
  BY KeytimeAssumption DEF NoTask, Task, At, How
<1>4. ASSUME NEW q \in Pid, q # p PROVE task'[q] \in Task /\ Kept(q)
  <2>1. PICK to \in At : to = Woken(q, p)
    BY WokenFacts
  <2>2. PICK up \in Pid \cup {Nil} : up = IF task[q].par = p THEN Root ELSE task[q].par
    BY <1>1, <1>3 DEF Task
  <2>3. task'[q] = [task[q] EXCEPT !.at = to, !.par = up]
    BY <1>2, <1>4, <2>1, <2>2
  <2>4. /\ task'[q] \in Task /\ task'[q].at = to /\ task'[q].how = task[q].how
        /\ task'[q].new = task[q].new /\ task'[q].maker = task[q].maker /\ task'[q].par = up
    BY <1>1, <2>3 DEF Task
  <2>5. to = task[q].at \/ (task[q].at = "vfork" /\ to = "vforked")
    BY <2>1, WokenFacts
  <2>. QED
    BY <2>2, <2>4, <2>5 DEF Kept
<1>5. task'[p] = NoTask /\ Lost(p)
  BY <1>1, <1>2 DEF Lost
<1>6. task' \in [Pid -> Task]
  BY <1>2, <1>3, <1>4, <1>5
<1>7. TaskOK' /\ NewOK'
  BY <1>4, <1>5, TaskFrame
<1>8. /\ child' \in [Child -> ChildInfo \cup {Nil}] /\ found' \in [Pid -> BOOLEAN]
      /\ \A x \in Child \ {p} : child'[x] = child[x]
      /\ \A x \in Pid \ {p} : found'[x] <=> found[x]
      /\ p \in reported => child'[p] = Nil
  <2>1. CASE ExitEnd(p)
    <3>1. p \in reported => found[p]
      BY <2>1 DEF ExitEnd, ReportedOK
    <3>. QED
      BY <1>1, <2>1, <3>1 DEF ExitEnd, TypeOK
  <2>2. CASE Kill(p)
    BY <2>2 DEF Kill, TypeOK, ReportedOK
  <2>. QED
    BY <2>1, <2>2
<1>9. TypeOK'
  BY <1>1, <1>6, <1>8 DEF TypeOK, Task
<1>10. NotedOK'
  <2>1. ASSUME NEW x \in noted' PROVE task'[x].at # "none" /\ task'[x].how # "other" /\ EntryOK(x)'
    <3>1. x \in noted /\ x \in Pid /\ x # p /\ x \in Child
      BY <1>1 DEF TypeOK, Child
    <3>2. Kept(x) /\ child'[x] = child[x]
      BY <1>4, <1>8, <3>1
    <3>. QED
      BY <3>1, <3>2 DEF NotedOK, EntryOK, Kept
  <2>. QED
    BY <2>1 DEF NotedOK
<1>11. LateOK'
  <2>1. ASSUME NEW x \in noted' \cup reported', NEW q \in Pid, task'[q].new = x
        PROVE  task'[q].at \in {"vfork", "vforked"}
    <3>1. x \in noted \cup reported /\ Written(x) /\ x # Nil
      BY <1>1, <1>3 DEF LateOK, TypeOK
    <3>2. q # p /\ Kept(q)
      BY <1>3, <1>4, <1>5, <2>1, <3>1
    <3>. QED
      BY <2>1, <3>1, <3>2 DEF Written, Kept
  <2>. QED
    BY <2>1 DEF LateOK, Written
<1>12. ReportedOK'
  <2>1. ASSUME NEW x \in reported' PROVE \/ task'[x].at = "none" /\ child'[x] = Nil
                                         \/ task'[x].at = "exiting" /\ found'[x]
    <3>1. x \in reported /\ x \in Pid /\ x \in Child
      BY <1>1 DEF TypeOK, Child
    <3>2. CASE x = p
      BY <1>3, <1>5, <1>8, <3>1, <3>2
    <3>3. CASE x # p
      BY <1>4, <1>8, <3>1, <3>3 DEF ReportedOK, Kept
    <3>. QED
      BY <3>2, <3>3
  <2>. QED
    BY <2>1 DEF ReportedOK
<1>13. ExitNamesMaker'
  BY <1>1, QuietEvents
<1>. QED
  BY <1>7, <1>9, <1>10, <1>11, <1>12, <1>13

LEMMA KeytimeStep == KeytimeInv /\ [Next]_vars => KeytimeInv'
<1>. SUFFICES ASSUME KeytimeInv, [Next]_vars PROVE KeytimeInv'
  OBVIOUS
<1>1. ASSUME NEW p \in Pid, TaskStep(p) PROVE KeytimeInv'
  <2>1. CASE \E c \in Pid : Fork(p, c) \/ Vfork(p, c) \/ Clone(p, c)
    BY <2>1, ForkStep
  <2>2. CASE ForkFails(p)
    BY <2>2, ForkFailsStep
  <2>3. CASE ForkReturn(p)
    BY <2>3, ForkReturnStep
  <2>4. CASE VforkChild(p)
    BY <2>4, VforkChildStep
  <2>5. CASE VforkReturn(p)
    BY <2>5, VforkReturnStep
  <2>6. CASE PthreadEnter(p) \/ CloneFails(p) \/ PthreadReturn(p) \/ ExecEnter(p)
    BY <2>6, PlainSteps
  <2>7. CASE CloneReturn(p)
    BY <2>7, CloneReturnStep
  <2>8. CASE ExecExit(p)
    BY <2>8, ExecExitStep
  <2>9. CASE Exit(p)
    BY <2>9, ExitStep
  <2>10. CASE ExitEnd(p) \/ Kill(p)
    BY <2>10, GoneStep
  <2>. QED
    BY <1>1, <2>1, <2>2, <2>3, <2>4, <2>5, <2>6, <2>7, <2>8, <2>9, <2>10 DEF TaskStep
<1>2. ASSUME NEW k \in Policies, SetPolicy(k) PROVE KeytimeInv'
  <2>1. /\ task' = task /\ UNCHANGED <<child, pthread_create_enable, found, made, noted, reported>>
        /\ ev' = {} /\ kt' \in Policy
    BY <1>2, KeytimeAssumption DEF SetPolicy, ghost
  <2>2. task' \in [Pid -> Task] /\ \A q \in Pid : Kept(q)
    BY <2>1 DEF KeytimeInv, TypeOK, Task, TaskOK, Kept
  <2>. QED
    BY <2>1, <2>2, PlainStep DEF KeytimeInv, TypeOK
<1>3. CASE UNCHANGED vars
  BY <1>3 DEF vars, ghost, KeytimeInv, TypeOK, TaskOK, NewOK, NotedOK, EntryOK, LateOK, Written,
              ReportedOK, ExitNamesMaker
<1>. QED
  BY <1>1, <1>2, <1>3 DEF Next
-----------------------------------------------------------------------------
\* The invariant holds in every behaviour: the entries of the map child, the pending
\* probes of the parents and the tasks agree as KeytimeInv says.
THEOREM Inductive == Spec => []KeytimeInv
BY KeytimeInit, KeytimeStep, PTL DEF Spec

\* The state of the keytime handlers always has its type.
THEOREM TypeCorrect == Spec => []TypeOK
<1>1. KeytimeInv => TypeOK
  BY DEF KeytimeInv
<1>. QED
  BY <1>1, Inductive, PTL

\* child_exit reports the exit of a task whose creation was recorded as that of a task
\* made the way it was, under its maker or the task that has inherited it.
THEOREM ExitsNameTheirMaker == Spec => []ExitNamesMaker
<1>1. KeytimeInv => ExitNamesMaker
  BY DEF KeytimeInv
<1>. QED
  BY <1>1, Inductive, PTL

\* The entry of a task that was noted and whose exit was reported is gone with the task:
\* no probe of its parent is left that would bring it back.
THEOREM ReportedTasksAreForgotten == Spec => []ReportedTaskIsForgotten
<1>1. KeytimeInv => ReportedTaskIsForgotten
  BY DEF KeytimeInv, ReportedOK, ReportedTaskIsForgotten
<1>. QED
  BY <1>1, Inductive, PTL
=============================================================================
