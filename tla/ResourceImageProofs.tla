------------------------ MODULE ResourceImageProofs ------------------------
(***************************************************************************)
(* The safety properties of ResourceImage hold for any number of CPUs and  *)
(* tasks, any policy and any size of the maps.                             *)
(***************************************************************************)
EXTENDS ResourceImage, WellFoundedInduction, TLAPS

\* The probe of a task that left a CPU: nobody runs the task, no other probe works on it,
\* and it came before it left.
ProbeOK ==
  \A c \in Cpu :
    /\ h[c].at \in {"create", "found", "add", "put"} <=> h[c].prev # Nil
    /\ h[c].at \in {"add", "put"} => h[c].ptr # Nil
    /\ h[c].prev # Nil =>
         /\ \A b \in Cpu : run[b] # h[c].prev /\ (h[b].prev = h[c].prev => b = c)
         /\ start[h[c].prev] # Nil /\ start[h[c].prev] <= h[c].t /\ since[h[c].prev] <= h[c].t

\* The pointer of a probe is to the entry of its task, if that has not been deleted.
PointerOK ==
  \A c \in Cpu : h[c].at \in {"add", "put"} => total[h[c].prev] \in {h[c].ptr, Nil}

\* Nothing is recorded that has not happened; a start that was noted is that of the stint.
TimesOK ==
  \A k \in Task :
    /\ since[k] <= clock /\ (start[k] # Nil => start[k] <= clock)
    /\ noted[k] => start[k] = since[k]

RunOK  == \A b, c \in Cpu : run[b] = run[c] => b = c
ElemOK == \A j, k \in InTotal : total[j] = total[k] => j = k

\* Where the printer is among the entries it has printed.
PrinterOK ==
  /\ p.at \in {"lookup", "delete"} => p.key \in InTotal
  /\ p.at = "walk" /\ p.key # Nil => p.key \in InTotal
  /\ p.at \in {"walk", "lookup", "delete"} => p.fd
  /\ ~p.fd \/ p.at = "idle" => \A k \in Task : ~shown[k]
  /\ \A k \in Task : shown[k] =>
       /\ k \in InTotal
       /\ p.at = "walk" => p.key # Nil /\ Slot[k] <= Slot[p.key]
       /\ p.at = "lookup" => Slot[k] < Slot[p.key]
       /\ p.at = "clear" /\ p.key # Nil => Slot[k] > Slot[p.key]
       /\ p.at = "delete" => Slot[k] >= Slot[p.key]

ResourceInv ==
  /\ TypeOK /\ ProbeOK /\ PointerOK /\ TimesOK /\ RunOK /\ ElemOK /\ PrinterOK
  /\ MeterIsExact /\ PrintNeverFails
----------------------------------------------------------------------------
ElemRec == [pid : Task \cup {Nil}, time : Nat]

\* What the types say, one variable at a time.
LEMMA Types ==
  ASSUME ResourceInv
  PROVE  /\ h \in [Cpu -> Probe] /\ p \in Printer /\ elem \in [Elem -> ElemRec]
         /\ total \in [Task -> Elem \cup {Nil}] /\ start \in [Task -> Nat \cup {Nil}]
         /\ clock \in Nat /\ run \in [Cpu -> Task] /\ since \in [Task -> Nat] /\ used \in [Task -> Nat]
         /\ noted \in [Task -> BOOLEAN] /\ odd \in [Task -> BOOLEAN] /\ shown \in [Task -> BOOLEAN]
         /\ Nil \notin Task /\ Nil \notin Elem /\ Nil \notin Nat
         /\ \A c \in Cpu : /\ h[c].prev \in Task \cup {Nil} /\ h[c].t \in Nat /\ h[c].ptr \in Elem \cup {Nil}
                           /\ h[c].at \in {"idle", "create", "found", "add", "put", "next"}
         /\ \A k \in Task : k \in InTotal <=> total[k] \in Elem
         /\ \A e \in Elem : elem[e] \in ElemRec /\ elem[e].time \in Nat
<1>1. /\ h \in [Cpu -> Probe] /\ p \in Printer /\ elem \in [Elem -> ElemRec]
      /\ total \in [Task -> Elem \cup {Nil}] /\ Nil \notin Elem
  BY ResourceAssumption DEF ResourceInv, TypeOK, ElemRec
<1>2. \A c \in Cpu : /\ h[c].prev \in Task \cup {Nil} /\ h[c].t \in Nat /\ h[c].ptr \in Elem \cup {Nil}
                     /\ h[c].at \in {"idle", "create", "found", "add", "put", "next"}
  BY <1>1 DEF Probe
<1>3. \A k \in Task : k \in InTotal <=> total[k] \in Elem
  BY <1>1 DEF InTotal
<1>4. \A e \in Elem : elem[e] \in ElemRec /\ elem[e].time \in Nat
  BY <1>1 DEF ElemRec
<1>. QED
  BY <1>1, <1>2, <1>3, <1>4, ResourceAssumption DEF ResourceInv, TypeOK

\* The state the maps are created in.
LEMMA ResourceInit == Init => ResourceInv
<1>. SUFFICES ASSUME Init PROVE ResourceInv
  OBVIOUS
<1>1. Nil \notin Task /\ Nil \notin Elem
  BY ResourceAssumption
<1>2. At("idle") \in Probe /\ At("idle").at = "idle" /\ At("idle").prev = Nil
  BY DEF At, Probe
<1>3. \A c \in Cpu : h[c] = At("idle")
  BY DEF Init
<1>4. InTotal = {}
  BY DEF Init, InTotal
<1>5. TypeOK
  <2>1. h \in [Cpu -> Probe]
    BY <1>2 DEF Init
  <2>2. [pid |-> Nil, time |-> 0] \in [pid : Task \cup {Nil}, time : Nat]
    OBVIOUS
  <2>3. elem \in [Elem -> [pid : Task \cup {Nil}, time : Nat]]
    BY <2>2 DEF Init
  <2>4. p \in Printer
    BY DEF Init, Printer
  <2>5. run \in [Cpu -> Task]
    BY DEF Init, Task
  <2>. QED
    BY <2>1, <2>3, <2>4, <2>5 DEF Init, TypeOK
<1>6. ProbeOK /\ PointerOK
  BY <1>2, <1>3 DEF ProbeOK, PointerOK
<1>7. TimesOK /\ RunOK
  BY DEF Init, TimesOK, RunOK
<1>8. ElemOK /\ MeterIsExact
  BY <1>4 DEF ElemOK, MeterIsExact
<1>9. PrinterOK /\ PrintNeverFails
  BY DEF Init, PrinterOK, PrintNeverFails
<1>. QED
  BY <1>5, <1>6, <1>7, <1>8, <1>9 DEF ResourceInv
----------------------------------------------------------------------------
(* The probe. *)

\* A probe that goes on with the task that left, or is done with it.
LEMMA ProbeFrame ==
  ASSUME ResourceInv, NEW c \in Cpu, NEW r \in Probe, h' = [h EXCEPT ![c] = r],
         UNCHANGED <<run, start, since>>,
         \/ /\ r.prev = Nil /\ r.at \in {"idle", "next"}
            /\ \A k \in Task : k # h[c].prev => total'[k] = total[k]
         \/ /\ r.prev = h[c].prev /\ r.t = h[c].t /\ r.prev # Nil
            /\ r.at \in {"add", "put"} /\ r.ptr # Nil
            /\ UNCHANGED total /\ total[r.prev] \in {r.ptr, Nil}
  PROVE  h' \in [Cpu -> Probe] /\ ProbeOK' /\ PointerOK'
<1>1. h' \in [Cpu -> Probe] /\ h'[c] = r /\ \A b \in Cpu \ {c} : h'[b] = h[b]
  BY Types
<1>2. ProbeOK'
  BY <1>1 DEF ResourceInv, ProbeOK
<1>3. ASSUME NEW b \in Cpu, b # c, h[b].at \in {"add", "put"} PROVE total'[h[b].prev] = total[h[b].prev]
  <2>1. h[b].prev \in Task /\ h[b].prev # Nil /\ h[b].prev # h[c].prev
    BY <1>3, Types DEF ResourceInv, ProbeOK
  <2>. QED
    BY <2>1
<1>4. PointerOK'
  BY <1>1, <1>3 DEF ResourceInv, PointerOK
<1>. QED
  BY <1>1, <1>2, <1>4

\* A probe that is done with the task that left.
LEMMA AtFacts ==
  ASSUME NEW a \in {"idle", "next"}
  PROVE  At(a) \in Probe /\ At(a).prev = Nil /\ At(a).at = a
BY DEF At, Probe

\* What an update of total does to the entries, and what it leaves alone.
LEMMA UpdateFacts ==
  ASSUME ResourceInv, NEW k \in Task, NEW v \in ElemRec, Update(k, v), UNCHANGED <<p, shown>>
  PROVE  /\ total' \in [Task -> Elem \cup {Nil}] /\ elem' \in [Elem -> ElemRec]
         /\ InTotal' = InTotal \cup {k} /\ total'[k] \in Elem /\ elem'[total'[k]] = v
         /\ \A j \in InTotal \ {k} : total'[j] = total[j] /\ elem'[total'[j]] = elem[total[j]]
         /\ \A j \in Task \ {k} : total'[j] = total[j]
         /\ ElemOK' /\ PrinterOK'
<1>1. PICK e \in Elem \ Owned : total' = [total EXCEPT ![k] = e] /\ elem' = [elem EXCEPT ![e] = v]
  BY DEF Update
<1>2. total' \in [Task -> Elem \cup {Nil}] /\ elem' \in [Elem -> ElemRec]
  BY <1>1, Types
<1>3. total'[k] = e /\ \A j \in Task \ {k} : total'[j] = total[j]
  BY <1>1, Types
<1>4. InTotal' = InTotal \cup {k}
  BY <1>3, Types DEF InTotal
<1>5. \A j \in InTotal : total[j] # e /\ total[j] \in Elem /\ j \in Task
  BY <1>1, Types DEF Owned, InTotal
<1>6. elem'[e] = v /\ \A j \in InTotal \ {k} : total'[j] = total[j] /\ elem'[total'[j]] = elem[total[j]]
  BY <1>1, <1>3, <1>5, Types
<1>7. ElemOK'
  BY <1>3, <1>4, <1>5, <1>6 DEF ResourceInv, ElemOK
<1>8. PrinterOK'
  BY <1>4 DEF ResourceInv, PrinterOK
<1>. QED
  BY <1>1, <1>2, <1>3, <1>4, <1>6, <1>7, <1>8

\* CPU c goes to the next task.
LEMMA SwitchStep == ASSUME ResourceInv, NEW c \in Cpu, NEW next \in Task, Switch(c, next) PROVE ResourceInv'
<1>1. /\ clock' = clock + 1 /\ run' = [run EXCEPT ![c] = next] /\ since' = [since EXCEPT ![next] = clock + 1]
      /\ noted' = [noted EXCEPT ![next] = FALSE] /\ UNCHANGED <<watch, cmds, maps, printer, used, odd, shown>>
      /\ h[c].at = "idle" /\ \A b \in Cpu : run[b] # next /\ h[b].prev # next
  BY DEF Switch, Waiting
<1>2. PICK r \in Probe :
        /\ h' = [h EXCEPT ![c] = r]
        /\ \/ r.prev = Nil /\ r.at \in {"idle", "next"}
           \/ /\ r.prev = run[c] /\ r.at \in {"create", "found"} /\ r.t = clock + 1
              /\ start[run[c]] # Nil
  <2>1. CASE watch = {} \/ run[c] \notin watch \/ start[run[c]] = Nil
    <3>1. h' = [h EXCEPT ![c] = At("idle")] \/ h' = [h EXCEPT ![c] = At("next")]
      BY <2>1 DEF Switch
    <3>. QED
      BY <3>1, AtFacts
  <2>2. CASE ~(watch = {} \/ run[c] \notin watch \/ start[run[c]] = Nil)
    <3>. DEFINE r == [at |-> IF run[c] \in InTotal THEN "found" ELSE "create", prev |-> run[c],
                      t |-> clock + 1, ptr |-> Nil]
    <3>1. h' = [h EXCEPT ![c] = r]
      BY <2>2 DEF Switch
    <3>2. r \in Probe
      BY Types DEF Probe
    <3>. QED
      BY <2>2, <3>1, <3>2
  <2>. QED
    BY <2>1, <2>2
<1>3. /\ run' \in [Cpu -> Task] /\ run'[c] = next /\ \A b \in Cpu \ {c} : run'[b] = run[b]
  BY <1>1, Types
<1>4. /\ since' \in [Task -> Nat] /\ since'[next] = clock + 1 /\ \A k \in Task \ {next} : since'[k] = since[k]
  BY <1>1, Types
<1>5. h' \in [Cpu -> Probe] /\ h'[c] = r /\ \A b \in Cpu \ {c} : h'[b] = h[b]
  BY <1>2, Types
<1>6. TypeOK'
  BY <1>1, <1>3, <1>4, <1>5 DEF ResourceInv, TypeOK, maps, printer
<1>7. ProbeOK'
  <2>1. \A b \in Cpu \ {c} : /\ h'[b].prev # Nil => (\A a \in Cpu : run'[a] # h[b].prev) /\ h[b].prev # run[c]
                             /\ h'[b].prev # Nil => since'[h[b].prev] = since[h[b].prev]
    BY <1>1, <1>3, <1>4, <1>5, Types DEF ResourceInv, ProbeOK
  <2>2. run[c] # next /\ run[c] \in Task /\ run[c] # Nil /\ \A b \in Cpu : run'[b] # run[c]
    BY <1>1, <1>3, Types DEF ResourceInv, RunOK
  <2>3. since'[run[c]] <= clock + 1 /\ (start[run[c]] # Nil => start[run[c]] <= clock + 1)
    BY <1>4, <2>2, Types DEF ResourceInv, TimesOK
  <2>. QED
    BY <1>1, <1>2, <1>5, <2>1, <2>2, <2>3 DEF ResourceInv, ProbeOK, maps
<1>11. PointerOK'
  BY <1>1, <1>2, <1>5 DEF ResourceInv, PointerOK, maps
<1>8. TimesOK'
  <2>1. \A k \in Task : noted'[k] => noted[k] /\ k # next
    BY <1>1, Types
  <2>. QED
    BY <1>1, <1>4, <2>1, Types DEF ResourceInv, TimesOK, maps
<1>9. RunOK'
  BY <1>1, <1>3 DEF ResourceInv, RunOK
<1>10. ElemOK' /\ MeterIsExact' /\ PrinterOK' /\ PrintNeverFails'
  BY <1>1 DEF ResourceInv, ElemOK, MeterIsExact, PrinterOK, PrintNeverFails, InTotal, maps, printer
<1>. QED
  BY <1>6, <1>7, <1>8, <1>9, <1>10, <1>11 DEF ResourceInv

\* What the probe's subtraction comes to: a length of time, and that of the stint if the
\* start was noted.
LEMMA ElapsedFacts ==
  ASSUME ResourceInv, NEW c \in Cpu, h[c].prev # Nil
  PROVE  /\ h[c].prev \in Task /\ Elapsed(c) \in Nat /\ Stint(c) \in Nat
         /\ noted[h[c].prev] => Elapsed(c) = Stint(c)
<1>1. h[c].prev \in Task /\ h[c].t \in Nat
  BY Types
<1>2. start[h[c].prev] \in Nat /\ since[h[c].prev] \in Nat
  BY <1>1, Types DEF ResourceInv, ProbeOK
<1>3. start[h[c].prev] <= h[c].t /\ since[h[c].prev] <= h[c].t
  BY DEF ResourceInv, ProbeOK
<1>4. noted[h[c].prev] => start[h[c].prev] = since[h[c].prev]
  BY <1>1 DEF ResourceInv, TimesOK
<1>. QED
  BY <1>1, <1>2, <1>3, <1>4 DEF Elapsed, Stint

\* A charge opens an entry.
LEMMA CreateStep == ASSUME ResourceInv, NEW c \in Cpu, Create(c) PROVE ResourceInv'
<1>1. h[c].at = "create" /\ h' = [h EXCEPT ![c] = At("next")]
  BY DEF Create
<1>2. UNCHANGED <<clock, run, since, watch, cmds, start, p, first_rsc, prevtime, noted, shown>>
  BY DEF Create, kernel, printer
<1>3. PICK k \in Task : k = h[c].prev /\ k # Nil
  BY <1>1, Types DEF ResourceInv, ProbeOK
<1>4. ASSUME \A j \in Task \ {k} : total'[j] = total[j]
      PROVE  h' \in [Cpu -> Probe] /\ ProbeOK' /\ PointerOK'
  <2>1. \A j \in Task : j # h[c].prev => total'[j] = total[j]
    BY <1>3, <1>4
  <2>. QED
    BY <1>1, <1>2, <2>1, AtFacts, ProbeFrame
<1>5. TimesOK' /\ RunOK' /\ PrintNeverFails'
  BY <1>2 DEF ResourceInv, TimesOK, RunOK, PrintNeverFails
<1>6. CASE UNCHANGED <<total, elem, used, odd>>
  <2>7. h' \in [Cpu -> Probe] /\ ProbeOK' /\ PointerOK'
    BY <1>4, <1>6
  <2>1. TypeOK'
    BY <1>2, <1>6, <2>7 DEF ResourceInv, TypeOK
  <2>2. ElemOK' /\ PrinterOK' /\ MeterIsExact'
    BY <1>2, <1>6 DEF ResourceInv, ElemOK, PrinterOK, MeterIsExact, InTotal
  <2>. QED
    BY <1>5, <2>7, <2>1, <2>2 DEF ResourceInv
<1>7. CASE /\ Update(k, [pid |-> k, time |-> Elapsed(c)])
           /\ used' = [used EXCEPT ![k] = Stint(c)] /\ odd' = [odd EXCEPT ![k] = ~noted[k]]
  <2>1. PICK v \in ElemRec : Update(k, v) /\ v.pid = k /\ v.time = Elapsed(c)
    BY <1>3, <1>7, ElapsedFacts DEF ElemRec
  <2>2. /\ total' \in [Task -> Elem \cup {Nil}] /\ elem' \in [Elem -> ElemRec]
        /\ InTotal' = InTotal \cup {k} /\ total'[k] \in Elem /\ elem'[total'[k]] = v
        /\ \A j \in InTotal \ {k} : total'[j] = total[j] /\ elem'[total'[j]] = elem[total[j]]
        /\ \A j \in Task \ {k} : total'[j] = total[j]
        /\ ElemOK' /\ PrinterOK'
    BY <1>2, <2>1, UpdateFacts
  <2>7. h' \in [Cpu -> Probe] /\ ProbeOK' /\ PointerOK'
    BY <1>4, <2>2
  <2>3. /\ used' \in [Task -> Nat] /\ used'[k] = Stint(c) /\ \A j \in Task \ {k} : used'[j] = used[j]
    BY <1>3, <1>7, ElapsedFacts, Types
  <2>4. /\ odd' \in [Task -> BOOLEAN] /\ (~odd'[k] => noted[k]) /\ \A j \in Task \ {k} : odd'[j] = odd[j]
    <3>1. (~noted[k]) \in BOOLEAN
      OBVIOUS
    <3>. QED
      BY <1>7, <3>1, Types
  <2>5. TypeOK'
    BY <1>2, <2>7, <2>2, <2>3, <2>4 DEF ResourceInv, TypeOK, ElemRec
  <2>6. MeterIsExact'
    <3>1. ~odd'[k] => v.time = used'[k]
      BY <1>3, <2>1, <2>3, <2>4, ElapsedFacts
    <3>2. \A j \in InTotal \ {k} : j \in Task
      BY DEF InTotal
    <3>. QED
      BY <2>1, <2>2, <2>3, <2>4, <3>1, <3>2 DEF ResourceInv, MeterIsExact
  <2>. QED
    BY <1>5, <2>7, <2>2, <2>5, <2>6 DEF ResourceInv
<1>. QED
  BY <1>3, <1>6, <1>7 DEF Create

\* The second lookup.
LEMMA FindStep == ASSUME ResourceInv, NEW c \in Cpu, Find(c) PROVE ResourceInv'
<1>1. h[c].at = "found" /\ UNCHANGED <<kernel, watch, cmds, maps, printer, history>>
  BY DEF Find
<1>2. h[c].prev \in Task /\ h[c].prev # Nil
  BY <1>1, Types DEF ResourceInv, ProbeOK
<1>3. PICK r \in Probe :
        /\ h' = [h EXCEPT ![c] = r]
        /\ \/ r.prev = Nil /\ r.at = "idle"
           \/ /\ r.prev = h[c].prev /\ r.t = h[c].t /\ r.at = "add" /\ r.ptr # Nil
              /\ total[r.prev] = r.ptr
  <2>1. CASE h[c].prev \in InTotal
    <3>. DEFINE e == total[h[c].prev]
                r == [h[c] EXCEPT !.at = "add", !.ptr = e]
    <3>1. h' = [h EXCEPT ![c] = r]
      BY <2>1 DEF Find
    <3>2. e \in Elem /\ e # Nil /\ h[c] \in Probe
      BY <1>2, <2>1, Types
    <3>. HIDE DEF e
    <3>3. r \in Probe /\ r.prev = h[c].prev /\ r.t = h[c].t /\ r.at = "add" /\ r.ptr = e
      BY <3>2 DEF Probe
    <3>. HIDE DEF r
    <3>. QED
      BY <3>1, <3>2, <3>3 DEF e
  <2>2. CASE h[c].prev \notin InTotal
    <3>1. h' = [h EXCEPT ![c] = At("idle")]
      BY <2>2 DEF Find
    <3>. QED
      BY <3>1, AtFacts
  <2>. QED
    BY <2>1, <2>2
<1>4. h' \in [Cpu -> Probe] /\ ProbeOK' /\ PointerOK'
  <2>1. UNCHANGED <<run, start, since, total>>
    BY <1>1 DEF kernel, maps
  <2>. QED
    BY <1>2, <1>3, <2>1, ProbeFrame
<1>5. TypeOK'
  BY <1>1, <1>4 DEF ResourceInv, TypeOK, kernel, maps, printer, history
<1>6. TimesOK' /\ RunOK' /\ ElemOK' /\ PrinterOK' /\ MeterIsExact' /\ PrintNeverFails'
  BY <1>1 DEF ResourceInv, TimesOK, RunOK, ElemOK, PrinterOK, MeterIsExact, PrintNeverFails, InTotal,
              kernel, maps, printer, history
<1>. QED
  BY <1>4, <1>5, <1>6 DEF ResourceInv

\* A charge through the pointer.
LEMMA AddStep == ASSUME ResourceInv, NEW c \in Cpu, Add(c) PROVE ResourceInv'
<1>1. h[c].at = "add" /\ UNCHANGED <<clock, run, since, watch, cmds, start, total, p, first_rsc, prevtime, noted, shown>>
  BY DEF Add, kernel, printer
<1>2. PICK k \in Task, e \in Elem : k = h[c].prev /\ e = h[c].ptr /\ k # Nil
  BY <1>1, Types DEF ResourceInv, ProbeOK
<1>3. /\ elem' = [elem EXCEPT ![e] = [@ EXCEPT !.time = elem[e].time + Elapsed(c)]]
      /\ used' = [used EXCEPT ![k] = @ + Stint(c)] /\ h' = [h EXCEPT ![c] = [@ EXCEPT !.at = "put"]]
      /\ odd' = [j \in Task |-> odd[j] \/ (total[j] = e /\ (j # k \/ ~noted[k]))]
  BY <1>2 DEF Add
<1>4. h' \in [Cpu -> Probe] /\ ProbeOK' /\ PointerOK'
  <2>. DEFINE r == [h[c] EXCEPT !.at = "put"]
  <2>1. h[c] \in Probe
    BY Types
  <2>2. r \in Probe /\ r.prev = h[c].prev /\ r.t = h[c].t /\ r.at = "put" /\ r.ptr = h[c].ptr
    BY <2>1 DEF Probe
  <2>3. h' = [h EXCEPT ![c] = r]
    BY <1>3
  <2>. HIDE DEF r
  <2>4. r.ptr # Nil /\ r.prev # Nil /\ total[r.prev] \in {r.ptr, Nil}
    BY <1>1, <1>2, <2>2, Types DEF ResourceInv, PointerOK
  <2>. QED
    BY <1>1, <2>2, <2>3, <2>4, ProbeFrame
<1>5. PICK d \in Nat, l \in Nat : d = Elapsed(c) /\ l = Stint(c) /\ (noted[k] => d = l)
  BY <1>2, ElapsedFacts
<1>6. /\ elem' \in [Elem -> ElemRec] /\ elem'[e].pid = elem[e].pid /\ elem'[e].time = elem[e].time + d
      /\ \A f \in Elem \ {e} : elem'[f] = elem[f]
  <2>. DEFINE v == [elem[e] EXCEPT !.time = elem[e].time + d]
  <2>1. v \in ElemRec /\ v.pid = elem[e].pid /\ v.time = elem[e].time + d
    BY Types DEF ElemRec
  <2>2. elem' = [elem EXCEPT ![e] = v]
    BY <1>3, <1>5
  <2>. HIDE DEF v
  <2>. QED
    BY <2>1, <2>2, Types
<1>7. /\ used' \in [Task -> Nat] /\ used'[k] = used[k] + l /\ \A j \in Task \ {k} : used'[j] = used[j]
  BY <1>3, <1>5, Types
<1>8. /\ odd' \in [Task -> BOOLEAN]
      /\ \A j \in Task : ~odd'[j] => ~odd[j] /\ (total[j] = e => j = k /\ noted[k])
  <2>1. \A j \in Task : (odd[j] \/ (total[j] = e /\ (j # k \/ ~noted[k]))) \in BOOLEAN
    BY Types
  <2>2. odd' \in [Task -> BOOLEAN]
    BY <1>3, <2>1
  <2>3. \A j \in Task : odd'[j] <=> odd[j] \/ (total[j] = e /\ (j # k \/ ~noted[k]))
    BY <1>3
  <2>. QED
    BY <2>2, <2>3
<1>9. TypeOK'
  BY <1>1, <1>4, <1>6, <1>7, <1>8 DEF ResourceInv, TypeOK, ElemRec
<1>10. TimesOK' /\ RunOK' /\ ElemOK' /\ PrinterOK' /\ PrintNeverFails' /\ InTotal' = InTotal
  BY <1>1 DEF ResourceInv, TimesOK, RunOK, ElemOK, PrinterOK, PrintNeverFails, InTotal
<1>11. MeterIsExact'
  <2>. SUFFICES ASSUME NEW j \in InTotal, ~odd'[j]
                PROVE  elem'[total[j]].pid = j /\ elem'[total[j]].time = used'[j]
    BY <1>1, <1>10 DEF MeterIsExact
  <2>1. j \in Task /\ total[j] \in Elem
    BY Types DEF InTotal
  <2>2. elem[total[j]].pid = j /\ elem[total[j]].time = used[j]
    BY <1>8, <2>1 DEF ResourceInv, MeterIsExact
  <2>3. CASE total[j] = e
    BY <1>5, <1>6, <1>7, <1>8, <2>1, <2>2, <2>3, Types
  <2>4. CASE total[j] # e
    <3>1. j # k
      BY <1>1, <1>2, <2>1, <2>4, Types DEF ResourceInv, PointerOK
    <3>. QED
      BY <1>6, <1>7, <2>1, <2>2, <2>4, <3>1
  <2>. QED
    BY <2>3, <2>4
<1>. QED
  BY <1>4, <1>9, <1>10, <1>11 DEF ResourceInv

\* The element is stored once more; an entry that was deleted comes back, and is odd.
LEMMA PutStep == ASSUME ResourceInv, NEW c \in Cpu, Put(c) PROVE ResourceInv'
<1>1. h[c].at = "put" /\ h' = [h EXCEPT ![c] = At("next")]
  BY DEF Put
<1>2. UNCHANGED <<clock, run, since, watch, cmds, start, p, first_rsc, prevtime, noted, used, shown>>
  BY DEF Put, kernel, printer
<1>3. PICK k \in Task, e \in Elem : k = h[c].prev /\ e = h[c].ptr /\ k # Nil
  BY <1>1, Types DEF ResourceInv, ProbeOK
<1>4. ASSUME \A j \in Task \ {k} : total'[j] = total[j]
      PROVE  h' \in [Cpu -> Probe] /\ ProbeOK' /\ PointerOK'
  <2>1. \A j \in Task : j # h[c].prev => total'[j] = total[j]
    BY <1>3, <1>4
  <2>. QED
    BY <1>1, <1>2, <2>1, AtFacts, ProbeFrame
<1>5. TimesOK' /\ RunOK' /\ PrintNeverFails'
  BY <1>2 DEF ResourceInv, TimesOK, RunOK, PrintNeverFails
<1>6. CASE UNCHANGED <<total, elem, odd>>
  <2>1. h' \in [Cpu -> Probe] /\ ProbeOK' /\ PointerOK'
    BY <1>4, <1>6
  <2>2. TypeOK'
    BY <1>2, <1>6, <2>1 DEF ResourceInv, TypeOK
  <2>3. ElemOK' /\ PrinterOK' /\ MeterIsExact'
    BY <1>2, <1>6 DEF ResourceInv, ElemOK, PrinterOK, MeterIsExact, InTotal
  <2>. QED
    BY <1>5, <2>1, <2>2, <2>3 DEF ResourceInv
<1>7. CASE Update(k, elem[e]) /\ odd' = [odd EXCEPT ![k] = @ \/ total[k] # e]
  <2>1. PICK v \in ElemRec : Update(k, v) /\ v = elem[e]
    BY <1>7, Types
  <2>2. /\ total' \in [Task -> Elem \cup {Nil}] /\ elem' \in [Elem -> ElemRec]
        /\ InTotal' = InTotal \cup {k} /\ total'[k] \in Elem /\ elem'[total'[k]] = v
        /\ \A j \in InTotal \ {k} : total'[j] = total[j] /\ elem'[total'[j]] = elem[total[j]]
        /\ \A j \in Task \ {k} : total'[j] = total[j]
        /\ ElemOK' /\ PrinterOK'
    BY <1>2, <2>1, UpdateFacts
  <2>3. h' \in [Cpu -> Probe] /\ ProbeOK' /\ PointerOK'
    BY <1>4, <2>2
  <2>4. /\ odd' \in [Task -> BOOLEAN] /\ (~odd'[k] => ~odd[k] /\ total[k] = e)
        /\ \A j \in Task \ {k} : odd'[j] = odd[j]
    <3>1. (odd[k] \/ total[k] # e) \in BOOLEAN
      BY Types
    <3>. QED
      BY <1>7, <3>1, Types
  <2>5. TypeOK'
    BY <1>2, <2>2, <2>3, <2>4 DEF ResourceInv, TypeOK, ElemRec
  <2>6. MeterIsExact'
    <3>1. ~odd'[k] => v.pid = k /\ v.time = used[k]
      BY <2>1, <2>4, Types DEF ResourceInv, MeterIsExact
    <3>2. \A j \in InTotal \ {k} : j \in Task
      BY DEF InTotal
    <3>. QED
      BY <1>2, <2>2, <2>4, <3>1, <3>2 DEF ResourceInv, MeterIsExact
  <2>. QED
    BY <1>5, <2>2, <2>3, <2>5, <2>6 DEF ResourceInv
<1>. QED
  BY <1>3, <1>6, <1>7 DEF Put

\* The task that comes is recorded.
LEMMA StartNextStep == ASSUME ResourceInv, NEW c \in Cpu, StartNext(c) PROVE ResourceInv'
<1>1. h[c].at = "next" /\ h' = [h EXCEPT ![c] = At("idle")]
  BY DEF StartNext
<1>2. UNCHANGED <<clock, run, since, watch, cmds, total, elem, p, first_rsc, prevtime, used, odd, shown>>
  BY DEF StartNext, kernel, printer
<1>3. PICK k \in Task : k = run[c]
  BY Types
<1>4. /\ start' \in [Task -> Nat \cup {Nil}] /\ noted' \in [Task -> BOOLEAN]
      /\ \A j \in Task \ {k} : start'[j] = start[j] /\ noted'[j] = noted[j]
      /\ \/ start'[k] = start[k] /\ noted'[k] = noted[k]
         \/ start'[k] = since[k]
  <2>1. CASE UNCHANGED <<start, noted>>
    BY <2>1, Types
  <2>2. CASE start' = [start EXCEPT ![k] = since[k]] /\ noted' = [noted EXCEPT ![k] = TRUE]
    BY <2>2, Types
  <2>. QED
    BY <1>3, <2>1, <2>2 DEF StartNext
<1>5. h' \in [Cpu -> Probe] /\ h'[c] = At("idle") /\ \A b \in Cpu \ {c} : h'[b] = h[b]
  BY <1>1, Types, AtFacts
<1>6. ProbeOK'
  <2>1. \A b \in Cpu : h[b].prev # Nil => h[b].prev \in Task \ {k}
    BY <1>3, Types DEF ResourceInv, ProbeOK
  <2>2. \A b \in Cpu : h[b].prev # Nil => start'[h[b].prev] = start[h[b].prev]
    BY <1>4, <2>1
  <2>3. At("idle").prev = Nil /\ At("idle").at = "idle"
    BY AtFacts
  <2>. QED
    BY <1>2, <1>5, <2>2, <2>3 DEF ResourceInv, ProbeOK
<1>7. PointerOK'
  BY <1>2, <1>5, AtFacts DEF ResourceInv, PointerOK
<1>8. TypeOK'
  BY <1>2, <1>4, <1>5 DEF ResourceInv, TypeOK
<1>9. TimesOK'
  BY <1>2, <1>4, Types DEF ResourceInv, TimesOK
<1>10. RunOK' /\ ElemOK' /\ PrinterOK' /\ MeterIsExact' /\ PrintNeverFails'
  BY <1>2 DEF ResourceInv, RunOK, ElemOK, PrinterOK, MeterIsExact, PrintNeverFails, InTotal
<1>. QED
  BY <1>6, <1>7, <1>8, <1>9, <1>10 DEF ResourceInv
----------------------------------------------------------------------------
(* The printer. *)

\* The next key is the first one ahead.
LEMMA NextKeyFacts ==
  ASSUME ResourceInv, Ahead # {}
  PROVE  /\ NextKey \in InTotal /\ NextKey \in Task /\ p.fd
         /\ \A j \in Ahead : Slot[NextKey] <= Slot[j]
         /\ p.key \in InTotal => Slot[NextKey] > Slot[p.key]
<1>1. Ahead \subseteq InTotal /\ InTotal \subseteq Task /\ p.fd
  BY DEF Ahead, InTotal
<1>2. \E k \in Ahead : \A j \in Ahead : Slot[k] <= Slot[j]
  <2>. DEFINE T == {Slot[k] : k \in Ahead}
  <2>1. T \subseteq Nat /\ T # {}
    BY <1>1, ResourceAssumption
  <2>. HIDE DEF T
  <2>2. PICK x \in T : \A y \in T : ~ (<<y, x>> \in OpToRel(<, Nat))
    BY <2>1, WFMin, NatLessThanWellFounded, Zenon
  <2>3. \A y \in T : <<y, x>> \in Nat \X Nat /\ <<y, x>>[1] = y /\ <<y, x>>[2] = x
    BY <2>1
  <2>4. \A y \in T : ~(y < x)
    BY <2>2, <2>3, Zenon DEF OpToRel
  <2>5. \A y \in T : x <= y
    BY <2>1, <2>4
  <2>. QED
    BY <2>5 DEF T
<1>3. NextKey \in Ahead /\ \A j \in Ahead : Slot[NextKey] <= Slot[j]
  BY <1>2 DEF NextKey
<1>. QED
  BY <1>1, <1>3 DEF Ahead

\* A step of the printer that deletes nothing leaves all but its own place alone.
LEMMA PrinterFrame ==
  ASSUME ResourceInv, PrintUnchanged, UNCHANGED <<total, used, odd>>, p' \in Printer,
         first_rsc' \in BOOLEAN, prevtime' \in Nat, shown' \in [Task -> BOOLEAN], PrinterOK',
         p'.at # "failed"
  PROVE  ResourceInv'
<1>1. UNCHANGED <<clock, run, since, watch, cmds, start, elem, h, noted, total, used, odd>>
  BY DEF PrintUnchanged, kernel
<1>2. TypeOK'
  BY <1>1 DEF ResourceInv, TypeOK
<1>3. /\ ProbeOK' /\ PointerOK' /\ TimesOK' /\ RunOK' /\ ElemOK' /\ MeterIsExact'
  BY <1>1 DEF ResourceInv, ProbeOK, PointerOK, TimesOK, RunOK, ElemOK, MeterIsExact, InTotal
<1>. QED
  BY <1>2, <1>3 DEF ResourceInv, PrintNeverFails

\* What the types say about the printer.
LEMMA PrinterTypes ==
  ASSUME ResourceInv
  PROVE  /\ p \in Printer /\ p.key \in Task \cup {Nil} /\ p.fd \in BOOLEAN
         /\ prevtime \in Nat /\ first_rsc \in BOOLEAN /\ InTotal \subseteq Task /\ Nil \notin InTotal
         /\ \A k \in Task : Slot[k] \in Nat
<1>1. p \in Printer
  BY DEF ResourceInv, TypeOK
<1>2. p.key \in Task \cup {Nil} /\ p.fd \in BOOLEAN
  BY <1>1 DEF Printer
<1>. QED
  BY <1>1, <1>2, ResourceAssumption DEF ResourceInv, TypeOK, InTotal

\* A call of print_resource begins with nothing printed.
LEMMA PrintStartStep == ASSUME ResourceInv, PrintStart PROVE ResourceInv'
<1>1. p.at = "idle" /\ PrintUnchanged /\ UNCHANGED <<total, prevtime, used, odd, shown>> /\ first_rsc' = FALSE
  BY DEF PrintStart
<1>2. \A k \in Task : ~shown[k]
  BY <1>1 DEF ResourceInv, PrinterOK
<1>3. p' \in Printer /\ p'.at \in {"walk", "clear"} /\ p'.key = Nil /\ (p'.at = "walk" => p'.fd)
  <2>1. CASE first_rsc
    <3>1. PICK fd \in BOOLEAN : p' = [at |-> "clear", key |-> Nil, fd |-> fd]
      BY <2>1 DEF PrintStart
    <3>. QED
      BY <3>1 DEF Printer
  <2>2. CASE ~first_rsc
    <3>1. p' = [at |-> "walk", key |-> Nil, fd |-> TRUE]
      BY <2>2 DEF PrintStart
    <3>. QED
      BY <3>1 DEF Printer
  <2>. QED
    BY <2>1, <2>2
<1>4. PrinterOK'
  BY <1>1, <1>2, <1>3 DEF PrinterOK
<1>. QED
  BY <1>1, <1>3, <1>4, Types, PrinterTypes, PrinterFrame

\* The walk goes to the next key, which comes after all that were printed.
LEMMA PrintNextStep == ASSUME ResourceInv, PrintNext PROVE ResourceInv'
<1>1. /\ p.at = "walk" /\ PrintUnchanged /\ UNCHANGED <<total, first_rsc, prevtime, used, odd, shown>>
      /\ InTotal' = InTotal
  BY DEF PrintNext, InTotal
<1>2. CASE Ahead = {}
  <2>1. p' = [p EXCEPT !.at = "clear", !.key = Nil]
    BY <1>2 DEF PrintNext
  <2>2. p' \in Printer /\ p'.at = "clear" /\ p'.key = Nil /\ p'.fd = p.fd
    BY <2>1, PrinterTypes DEF Printer
  <2>3. PrinterOK'
    BY <1>1, <2>2 DEF ResourceInv, PrinterOK
  <2>. QED
    BY <1>1, <2>2, <2>3, Types, PrinterTypes, PrinterFrame
<1>3. CASE Ahead # {}
  <2>1. PICK n \in InTotal : n = NextKey /\ n \in Task /\ p.fd /\ (p.key \in InTotal => Slot[n] > Slot[p.key])
    BY <1>3, NextKeyFacts
  <2>2. p' = [p EXCEPT !.at = "lookup", !.key = n]
    BY <1>3, <2>1 DEF PrintNext
  <2>3. p' \in Printer /\ p'.at = "lookup" /\ p'.key = n /\ p'.fd = p.fd
    BY <2>1, <2>2, PrinterTypes DEF Printer
  <2>4. \A k \in Task : shown[k] => k \in InTotal /\ Slot[k] < Slot[n]
    <3>1. \A k \in Task : shown[k] => k \in InTotal /\ p.key \in InTotal /\ Slot[k] <= Slot[p.key]
      BY <1>1 DEF ResourceInv, PrinterOK
    <3>. QED
      BY <2>1, <3>1, PrinterTypes
  <2>5. PrinterOK'
    BY <1>1, <2>1, <2>3, <2>4 DEF PrinterOK
  <2>. QED
    BY <1>1, <2>3, <2>5, Types, PrinterTypes, PrinterFrame
<1>. QED
  BY <1>2, <1>3

\* The entry is there, and is printed or passed over.
LEMMA PrintRowStep == ASSUME ResourceInv, PrintRow PROVE ResourceInv'
<1>1. /\ p.at = "lookup" /\ PrintUnchanged /\ UNCHANGED <<total, first_rsc, prevtime, used, odd>>
      /\ InTotal' = InTotal
  BY DEF PrintRow, InTotal
<1>2. PICK n \in InTotal : n = p.key /\ n \in Task
  BY <1>1, PrinterTypes DEF ResourceInv, PrinterOK
<1>3. p' = [p EXCEPT !.at = "walk"]
  BY <1>2 DEF PrintRow
<1>4. p' \in Printer /\ p'.at = "walk" /\ p'.key = n /\ (p'.fd <=> p.fd)
  BY <1>2, <1>3, PrinterTypes DEF Printer
<1>5. shown' \in [Task -> BOOLEAN] /\ \A k \in Task \ {n} : shown'[k] = shown[k]
  <2>1. shown' = [shown EXCEPT ![n] = shown[n] \/ TimeOf(n) \in 1..(clock - prevtime)]
    BY <1>2 DEF PrintRow
  <2>2. (shown[n] \/ TimeOf(n) \in 1..(clock - prevtime)) \in BOOLEAN
    BY <1>2, Types
  <2>. QED
    BY <1>2, <2>1, <2>2, Types
<1>6. \A k \in Task : shown'[k] => k \in InTotal /\ Slot[k] <= Slot[n]
  BY <1>1, <1>2, <1>5, PrinterTypes DEF ResourceInv, PrinterOK
<1>7. p.fd
  BY <1>1 DEF ResourceInv, PrinterOK
<1>8. PrinterOK'
  BY <1>1, <1>2, <1>4, <1>6, <1>7, PrinterTypes DEF PrinterOK
<1>. QED
  BY <1>1, <1>4, <1>5, <1>8, PrinterTypes, PrinterFrame

\* The delete loop goes to the next key, or ends the interval: what was printed lies ahead of
\* it wherever the loop restarts from, so nothing of it is left then.
LEMMA ClearNextStep == ASSUME ResourceInv, ClearNext PROVE ResourceInv'
<1>1. /\ p.at = "clear" /\ PrintUnchanged /\ UNCHANGED <<total, first_rsc, used, odd, shown>>
      /\ InTotal' = InTotal
  BY DEF ClearNext, InTotal
<1>2. \A k \in Task : shown[k] => p.fd /\ k \in Ahead
  <2>1. \A k \in Task : shown[k] => p.fd /\ k \in InTotal /\ (p.key # Nil => Slot[k] > Slot[p.key])
    BY <1>1 DEF ResourceInv, PrinterOK
  <2>. QED
    BY <2>1, PrinterTypes DEF Ahead
<1>3. CASE Ahead # {} /\ p' = [p EXCEPT !.at = "delete", !.key = NextKey] /\ UNCHANGED prevtime
  <2>1. PICK n \in InTotal : n = NextKey /\ n \in Task /\ p.fd /\ \A j \in Ahead : Slot[n] <= Slot[j]
    BY <1>3, NextKeyFacts
  <2>2. p' = [p EXCEPT !.at = "delete", !.key = n]
    BY <1>3, <2>1
  <2>3. p' \in Printer /\ p'.at = "delete" /\ p'.key = n /\ p'.fd = p.fd
    BY <2>1, <2>2, PrinterTypes DEF Printer
  <2>4. \A k \in Task : shown[k] => k \in InTotal /\ Slot[k] >= Slot[n]
    <3>1. \A k \in Task : shown[k] => k \in InTotal /\ Slot[n] <= Slot[k]
      BY <1>2, <2>1 DEF Ahead
    <3>. QED
      BY <2>1, <3>1, PrinterTypes
  <2>5. PrinterOK'
    BY <1>1, <2>1, <2>3, <2>4 DEF PrinterOK
  <2>. QED
    BY <1>1, <1>3, <2>3, <2>5, Types, PrinterTypes, PrinterFrame
<1>4. CASE Ahead = {} /\ p' = [at |-> "idle", key |-> Nil, fd |-> FALSE] /\ prevtime' = clock
  <2>1. p' \in Printer /\ p'.at = "idle" /\ p'.key = Nil
    BY <1>4 DEF Printer
  <2>2. \A k \in Task : ~shown[k]
    BY <1>2, <1>4
  <2>3. PrinterOK'
    BY <1>1, <2>1, <2>2 DEF PrinterOK
  <2>. QED
    BY <1>1, <1>4, <2>1, <2>3, Types, PrinterTypes, PrinterFrame
<1>. QED
  BY <1>3, <1>4 DEF ClearNext

\* An entry is deleted; those that were printed come after it.
LEMMA ClearDeleteStep == ASSUME ResourceInv, ClearDelete PROVE ResourceInv'
<1>1. /\ p.at = "delete" /\ UNCHANGED <<clock, run, since, watch, cmds, start, elem, h, noted, first_rsc, prevtime>>
  BY DEF ClearDelete, PrintUnchanged, kernel
<1>2. PICK n \in InTotal : n = p.key /\ n \in Task
  BY <1>1, PrinterTypes DEF ResourceInv, PrinterOK
<1>3. p' = [p EXCEPT !.at = "clear"]
  BY <1>2 DEF ClearDelete
<1>4. p' \in Printer /\ p'.at = "clear" /\ p'.key = n /\ (p'.fd <=> p.fd)
  BY <1>2, <1>3, PrinterTypes DEF Printer
<1>5. /\ total' \in [Task -> Elem \cup {Nil}] /\ total'[n] = Nil /\ \A k \in Task \ {n} : total'[k] = total[k]
      /\ used' \in [Task -> Nat] /\ \A k \in Task \ {n} : used'[k] = used[k]
      /\ odd' \in [Task -> BOOLEAN] /\ \A k \in Task \ {n} : odd'[k] = odd[k]
      /\ shown' \in [Task -> BOOLEAN] /\ ~shown'[n] /\ \A k \in Task \ {n} : shown'[k] = shown[k]
  BY <1>2, Types DEF ClearDelete
<1>6. InTotal' = InTotal \ {n}
  BY <1>2, <1>5 DEF InTotal
<1>7. TypeOK'
  BY <1>1, <1>4, <1>5 DEF ResourceInv, TypeOK
<1>8. ProbeOK' /\ TimesOK' /\ RunOK'
  BY <1>1 DEF ResourceInv, ProbeOK, TimesOK, RunOK
<1>9. PointerOK'
  <2>1. \A c \in Cpu : h[c].at \in {"add", "put"} => h[c].prev \in Task
    BY Types DEF ResourceInv, ProbeOK
  <2>. QED
    BY <1>1, <1>5, <2>1 DEF ResourceInv, PointerOK
<1>10. ElemOK' /\ MeterIsExact'
  <2>1. \A k \in InTotal' : k \in InTotal /\ k \in Task \ {n}
    BY <1>6, PrinterTypes
  <2>. QED
    BY <1>1, <1>5, <2>1 DEF ResourceInv, ElemOK, MeterIsExact
<1>11. PrinterOK'
  <2>1. \A k \in Task : shown'[k] => shown[k] /\ k # n
    BY <1>5
  <2>2. \A k \in Task : shown'[k] => k \in InTotal' /\ Slot[k] >= Slot[n] /\ k # n
    BY <1>1, <1>2, <1>6, <2>1 DEF ResourceInv, PrinterOK
  <2>3. \A k \in Task : k # n => Slot[k] # Slot[n]
    BY <1>2, ResourceAssumption
  <2>4. \A k \in Task : shown'[k] => k \in InTotal' /\ Slot[k] > Slot[n]
    BY <1>2, <2>2, <2>3, PrinterTypes
  <2>5. ~p'.fd => \A k \in Task : ~shown'[k]
    BY <1>4, <2>1 DEF ResourceInv, PrinterOK
  <2>. QED
    BY <1>4, <2>4, <2>5 DEF PrinterOK
<1>. QED
  BY <1>4, <1>7, <1>8, <1>9, <1>10, <1>11 DEF ResourceInv, PrintNeverFails
----------------------------------------------------------------------------
(* The theorems. *)

\* Every step keeps ResourceInv.
LEMMA ResourceStep == ASSUME ResourceInv, [Next]_vars PROVE ResourceInv'
<1>1. CASE SetPolicy
  <2>1. UNCHANGED <<kernel, maps, h, printer, history>> /\ watch' \subseteq Task /\ cmds' \in Nat
    BY <1>1, ResourceAssumption DEF SetPolicy, ResourceInv, TypeOK
  <2>2. TypeOK'
    BY <2>1 DEF ResourceInv, TypeOK, kernel, maps, printer, history
  <2>. QED
    BY <2>1, <2>2 DEF ResourceInv, ProbeOK, PointerOK, TimesOK, RunOK, ElemOK, PrinterOK, MeterIsExact,
                      PrintNeverFails, InTotal, kernel, maps, printer, history
<1>2. CASE UNCHANGED vars
  <2>1. TypeOK'
    BY <1>2 DEF vars, ResourceInv, TypeOK, kernel, maps, printer, history
  <2>. QED
    BY <1>2, <2>1 DEF vars, ResourceInv, ProbeOK, PointerOK, TimesOK, RunOK, ElemOK, PrinterOK, MeterIsExact,
                      PrintNeverFails, InTotal, kernel, maps, printer, history
<1>. QED
  BY <1>1, <1>2, SwitchStep, CreateStep, FindStep, AddStep, PutStep, StartNextStep, PrintStartStep,
     PrintNextStep, PrintRowStep, ClearNextStep, ClearDeleteStep DEF Next

\* ResourceInv is an invariant of the resource image.
THEOREM Inductive == Spec => []ResourceInv
  BY ResourceInit, ResourceStep, PTL DEF Spec

\* Every variable keeps its type; in particular no charge is negative.
THEOREM TypeCorrect == Spec => []TypeOK
<1>1. ResourceInv => TypeOK
  BY DEF ResourceInv
<1>. QED
  BY <1>1, Inductive, PTL

\* An entry that is not odd is its task's own, and its time is the sum of the stints charged
\* to it (resource_image.bpf.c:75-137), whatever the printer deletes under the probes.
THEOREM MetersAreExact == Spec => []MeterIsExact
<1>1. ResourceInv => MeterIsExact
  BY DEF ResourceInv
<1>. QED
  BY <1>1, Inductive, PTL

\* No walk meets an entry an earlier walk printed, nor one twice (proc_image.c:209-262).
THEOREM NothingPrintsTwice == Spec => []NothingIsPrintedTwice
<1>1. ResourceInv => NothingIsPrintedTwice
  <2>. SUFFICES ASSUME ResourceInv, p.at = "lookup", shown[p.key] PROVE FALSE
    BY DEF NothingIsPrintedTwice
  <2>1. p.key \in InTotal /\ p.key \in Task
    BY PrinterTypes DEF ResourceInv, PrinterOK
  <2>2. Slot[p.key] < Slot[p.key] /\ Slot[p.key] \in Nat
    BY <2>1, PrinterTypes DEF ResourceInv, PrinterOK
  <2>. QED
    BY <2>2
<1>. QED
  BY <1>1, Inductive, PTL

\* print_resource finds every key it was given (proc_image.c:187-189, 224, 257).
THEOREM PrintsNeverFail == Spec => []PrintNeverFails
<1>1. ResourceInv => PrintNeverFails
  BY DEF ResourceInv
<1>. QED
  BY <1>1, Inductive, PTL
============================================================================
