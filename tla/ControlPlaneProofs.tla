------------------------- MODULE ControlPlaneProofs -------------------------
(***************************************************************************)
(* The safety properties of ControlPlane hold for any number of runs of    *)
(* proc_image and of controller, whatever images they were asked for.      *)
(***************************************************************************)
EXTENDS ControlPlane, TLAPS

\* Where an image is in the two orders.
Pos  == [resource |-> 1, syscall |-> 2, lock |-> 3, keytime |-> 4, schedule |-> 5]
CPos == [resource |-> 1, keytime |-> 2, lock |-> 3, syscall |-> 4, schedule |-> 5]

SettingUp == {"open", "load", "unpin", "pin", "init", "attach"}

\* Run m has pinned its map of image i, if it was asked for it; a run that cleans up or is
\* gone is past everything.
Passed(m, i) ==
  \/ mon[m].at \in {"clean", "end"}
  \/ Pos[i] < mon[m].i
  \/ Pos[i] = mon[m].i /\ mon[m].at \in {"init", "attach"}

\* Where a run of proc_image is.
MonOK ==
  \A m \in Monitor :
    /\ mon[m].at \in SettingUp => mon[m].i \in 1..5 /\ Img(m) \in mon[m].opts
    /\ mon[m].at = "new" => mon[m].i = 1
    /\ mon[m].at = "loop" => mon[m].i = 6

\* Where a run of controller is.
CtlOK ==
  \A c \in Ctl :
    /\ ctl[c].at \in {"get", "put"} => ctl[c].i \in 1..5 /\ CtlOrder[ctl[c].i] \in ctl[c].imgs
    /\ ctl[c].at = "put" => ctl[c].fd \in Monitor
    /\ ctl[c].at \in {"new", "parsed"} => ctl[c].i = 1
    /\ ctl[c].at = "pause" => ctl[c].i = 6
    /\ ctl[c].armed => ctl[c].timed /\ ctl[c].at # "new"

\* Runs of proc_image that do not overlap find what they pinned.
PinsOK ==
  ~overlap =>
    /\ \A m, n \in Monitor : Alive(m) /\ Alive(n) => m = n
    /\ \A m \in Monitor : mon[m].at \in SettingUp \cup {"loop"} =>
         \A i \in mon[m].opts : Passed(m, i) => pin[i] = m

\* m is the only run of proc_image that was started, c the only one of controller.
Solo(m, c) ==
  (\A n \in Monitor \ {m} : mon[n].at = "new") /\ (\A d \in Ctl \ {c} : ctl[d].at = "new")

\* The images controller c has been through.
Visited(c) == {i \in ctl[c].imgs : CPos[i] < ctl[c].i}

\* What a run of each leaves in the maps when there are no others.
SoloOK(m, c) ==
  /\ ~overlap
  /\ \A i \in Image : pin[i] # None => pin[i] = m /\ i \in mon[m].opts /\ Passed(m, i)
  /\ ctl[c].at = "put" => /\ ctl[c].fd = m /\ CtlOrder[ctl[c].i] \in mon[m].opts
                          /\ Passed(m, CtlOrder[ctl[c].i])
  /\ \A i \in Visited(c) : i \in mon[m].opts /\ Passed(m, i)
  /\ on[m] \subseteq Visited(c)
  /\ mon[m].at = "init" /\ Img(m) \in on[m] => c \in early
  /\ ctl[c].mode = "activate" /\ ~ctl[c].timed => c \in early \/ Visited(c) \subseteq on[m]
  /\ /\ ctl[c].mode = "activate" /\ ctl[c].timed /\ ctl[c].at = "done" /\ ctl[c].i = 6
     /\ mon[m].at \notin {"clean", "end"}
     => on[m] \cap ctl[c].imgs = {}

ControlInv ==
  /\ TypeOK /\ MonOK /\ CtlOK /\ PinsOK /\ RestartIsNotBlocked
  /\ \A m \in Monitor, c \in Ctl : Solo(m, c) => SoloOK(m, c)
-----------------------------------------------------------------------------
(* The orders. *)

\* Each order has every image once.
LEMMA Orders ==
  /\ Pos \in [Image -> 1..5] /\ CPos \in [Image -> 1..5]
  /\ \A x \in 1..5 : SetupOrder[x] \in Image /\ Pos[SetupOrder[x]] = x
  /\ \A x \in 1..5 : CtlOrder[x] \in Image /\ CPos[CtlOrder[x]] = x
  /\ \A i \in Image : SetupOrder[Pos[i]] = i /\ CtlOrder[CPos[i]] = i
<1>1. \A x \in 1..5 : x \in {1, 2, 3, 4, 5}
  OBVIOUS
<1>. QED
  BY <1>1 DEF Pos, CPos, SetupOrder, CtlOrder, Image

\* What From looks for exists: the end of the order, if nothing before it.
LEMMA FromExists ==
  ASSUME NEW order, NEW s, NEW k \in 1..6
  PROVE  \E j \in k..6 : (j = 6 \/ order[j] \in s) /\ \A x \in k..(j - 1) : order[x] \notin s
<1>. DEFINE E(n) == \E j \in n..6 : (j = 6 \/ order[j] \in s) /\ \A x \in n..(j - 1) : order[x] \notin s
<1>1. E(6)
  OBVIOUS
<1>2. ASSUME NEW n \in 1..5, E(n + 1) PROVE E(n)
  <2>1. CASE order[n] \in s
    BY <2>1
  <2>2. CASE order[n] \notin s
    <3>1. PICK j \in (n + 1)..6 : (j = 6 \/ order[j] \in s) /\ \A x \in (n + 1)..(j - 1) : order[x] \notin s
      BY <1>2
    <3>2. \A x \in n..(j - 1) : order[x] \notin s
      BY <2>2, <3>1
    <3>. QED
      BY <3>1, <3>2
  <2>. QED
    BY <2>1, <2>2
<1>. HIDE DEF E
<1>3. E(5) /\ E(4) /\ E(3) /\ E(2) /\ E(1)
  <2>1. E(5)
    BY <1>1, <1>2
  <2>2. E(4)
    BY <2>1, <1>2
  <2>3. E(3)
    BY <2>2, <1>2
  <2>4. E(2)
    BY <2>3, <1>2
  <2>5. E(1)
    BY <2>4, <1>2
  <2>. QED
    BY <2>1, <2>2, <2>3, <2>4, <2>5
<1>4. k \in {1, 2, 3, 4, 5, 6}
  OBVIOUS
<1>5. E(k)
  BY <1>1, <1>3, <1>4
<1>. QED
  BY <1>5 DEF E

\* The next image proc_image comes to: one it was asked for, with none left out before it.
LEMMA FromSetup ==
  ASSUME NEW s \in SUBSET Image, NEW k \in 1..6
  PROVE  LET j == From(SetupOrder, s, k) IN
         /\ j \in k..6 /\ j \in 1..6 /\ (j # 6 => j \in 1..5 /\ SetupOrder[j] \in s)
         /\ \A i \in s : Pos[i] >= k => Pos[i] >= j
<1>. DEFINE j == From(SetupOrder, s, k)
<1>1. j \in k..6 /\ (j = 6 \/ SetupOrder[j] \in s) /\ \A x \in k..(j - 1) : SetupOrder[x] \notin s
  BY FromExists DEF From
<1>. HIDE DEF j
<1>2. ASSUME NEW i \in s, Pos[i] >= k, Pos[i] < j PROVE FALSE
  BY <1>1, <1>2, Orders
<1>3. \A i \in s : Pos[i] \in 1..5
  BY Orders
<1>. QED
  BY <1>1, <1>2, <1>3 DEF j

\* The next image controller comes to.
LEMMA FromCtl ==
  ASSUME NEW s \in SUBSET Image, NEW k \in 1..6
  PROVE  LET j == From(CtlOrder, s, k) IN
         /\ j \in k..6 /\ j \in 1..6 /\ (j # 6 => j \in 1..5 /\ CtlOrder[j] \in s)
         /\ \A i \in s : CPos[i] >= k => CPos[i] >= j
<1>. DEFINE j == From(CtlOrder, s, k)
<1>1. j \in k..6 /\ (j = 6 \/ CtlOrder[j] \in s) /\ \A x \in k..(j - 1) : CtlOrder[x] \notin s
  BY FromExists DEF From
<1>. HIDE DEF j
<1>2. ASSUME NEW i \in s, CPos[i] >= k, CPos[i] < j PROVE FALSE
  BY <1>1, <1>2, Orders
<1>3. \A i \in s : CPos[i] \in 1..5
  BY Orders
<1>. QED
  BY <1>1, <1>2, <1>3 DEF j

\* deactivate_mode reaches an image when it and all before it are pinned.
LEMMA ReachedIs ==
  ASSUME TypeOK, NEW c \in Ctl
  PROVE  \A i \in ctl[c].imgs :
           (\A k \in ctl[c].imgs : CPos[k] <= CPos[i] => pin[k] # None) => i \in Reached(c)
<1>. SUFFICES ASSUME NEW i \in ctl[c].imgs, \A k \in ctl[c].imgs : CPos[k] <= CPos[i] => pin[k] # None
              PROVE  i \in Reached(c)
  OBVIOUS
<1>1. i \in Image /\ CPos[i] \in 1..5 /\ CtlOrder[CPos[i]] = i
  BY Orders DEF TypeOK
<1>2. \A y \in 1..CPos[i] : CtlOrder[y] \in ctl[c].imgs => pin[CtlOrder[y]] # None
  BY <1>1, Orders
<1>. QED
  BY <1>1, <1>2 DEF Reached
-----------------------------------------------------------------------------
(* proc_image. *)

MonRec == [at : MonAt, i : 1..6, opts : SUBSET Image, found : SUBSET Image]
CtlRec == [at : CtlAt, i : 1..6, mode : {"activate", "deactivate", "finish"}, imgs : SUBSET Image,
           timed : BOOLEAN, armed : BOOLEAN, fd : Monitor \cup {None}]

\* No program has been started and nothing is pinned.
LEMMA ControlInit == Init => ControlInv
<1>. SUFFICES ASSUME Init PROVE ControlInv
  OBVIOUS
<1>1. \A m \in Monitor : mon[m].at = "new" /\ mon[m].i = 1 /\ mon[m].opts = {} /\ on[m] = {}
  BY DEF Init
<1>2. \A c \in Ctl : /\ ctl[c].at = "new" /\ ctl[c].i = 1 /\ ~ctl[c].timed /\ ~ctl[c].armed
                     /\ ctl[c].imgs = {}
  BY DEF Init
<1>3. \A i \in Image : pin[i] = None
  BY DEF Init
<1>4. TypeOK
  <2>1. [at |-> "new", i |-> 1, opts |-> {}, found |-> {}] \in MonRec
    BY DEF MonRec, MonAt
  <2>2. [at |-> "new", i |-> 1, mode |-> "activate", imgs |-> {},
         timed |-> FALSE, armed |-> FALSE, fd |-> None] \in CtlRec
    BY DEF CtlRec, CtlAt
  <2>3. mon \in [Monitor -> MonRec] /\ ctl \in [Ctl -> CtlRec]
    BY <2>1, <2>2 DEF Init
  <2>. QED
    BY <2>3 DEF Init, TypeOK, MonRec, CtlRec
<1>5. MonOK /\ CtlOK /\ PinsOK /\ RestartIsNotBlocked
  BY <1>1, <1>2 DEF MonOK, CtlOK, PinsOK, RestartIsNotBlocked, SettingUp, Alive
<1>6. \A m \in Monitor, c \in Ctl : SoloOK(m, c)
  BY <1>1, <1>2, <1>3 DEF SoloOK, Visited, Init
<1>. QED
  BY <1>4, <1>5, <1>6 DEF ControlInv

\* What is to be shown of a step of a run m that is alive: its new state r is in order, what
\* it has pinned is pinned, and a controller that is alone with it finds the maps in order.
LEMMA MonFrame ==
  ASSUME ControlInv, NEW m \in Monitor, Alive(m), NEW r \in MonRec,
         mon' = [mon EXCEPT ![m] = r], r.at # "new", UNCHANGED <<ctl, overlap, early>>,
         r.at \in SettingUp => r.i \in 1..5 /\ SetupOrder[r.i] \in r.opts,
         r.at = "loop" => r.i = 6,
         pin' \in [Image -> Monitor \cup {None}], on' \in [Monitor -> SUBSET Image],
         ~overlap /\ r.at \in SettingUp \cup {"loop"} => \A i \in r.opts : Passed(m, i)' => pin'[i] = m,
         ~overlap /\ r.at = "pin" => pin'[SetupOrder[r.i]] = None,
         \A c \in Ctl : Solo(m, c) /\ SoloOK(m, c) => SoloOK(m, c)'
  PROVE  ControlInv'
<1>1. mon \in [Monitor -> MonRec]
  BY DEF ControlInv, TypeOK, MonRec
<1>2. mon'[m] = r /\ \A n \in Monitor \ {m} : mon'[n] = mon[n]
  BY <1>1
<1>3. TypeOK'
  <2>1. mon' \in [Monitor -> MonRec]
    BY <1>1
  <2>. QED
    BY <2>1 DEF ControlInv, TypeOK, MonRec
<1>4. MonOK' /\ CtlOK'
  BY <1>2 DEF ControlInv, MonOK, CtlOK, Img
<1>5. ~overlap => \A n \in Monitor \ {m} : ~Alive(n)
  BY DEF ControlInv, PinsOK
<1>6. ~overlap' => ~overlap /\ \A n \in Monitor \ {m} : mon'[n].at \in {"new", "end"}
  BY <1>2, <1>5 DEF Alive
<1>7. PinsOK'
  <2>1. \A n, k \in Monitor : ~overlap' /\ Alive(n)' /\ Alive(k)' => n = k
    BY <1>6 DEF Alive
  <2>2. ASSUME NEW n \in Monitor, ~overlap', mon'[n].at \in SettingUp \cup {"loop"}
        PROVE  \A i \in mon'[n].opts : Passed(n, i)' => pin'[i] = n
    <3>1. n = m
      BY <1>6, <2>2 DEF SettingUp
    <3>. QED
      BY <1>2, <1>6, <2>2, <3>1
  <2>. QED
    BY <2>1, <2>2 DEF PinsOK
<1>8. RestartIsNotBlocked'
  BY <1>2, <1>6 DEF RestartIsNotBlocked, Img
<1>9. ASSUME NEW n \in Monitor, NEW c \in Ctl, Solo(n, c)' PROVE SoloOK(n, c)'
  <2>1. n = m
    BY <1>2, <1>9 DEF Solo
  <2>2. Solo(m, c)
    BY <1>2, <1>9, <2>1 DEF Solo
  <2>. QED
    BY <2>1, <2>2 DEF ControlInv
<1>. QED
  BY <1>3, <1>4, <1>7, <1>8, <1>9 DEF ControlInv

\* A step of run m that takes nothing away from what a lone controller has been through.
LEMMA SoloFrame ==
  ASSUME NEW m \in Monitor, NEW c \in Ctl, SoloOK(m, c), UNCHANGED <<ctl, overlap, early>>,
         ctl[c].imgs \subseteq Image, mon'[m].opts = mon[m].opts,
         ctl[c].at = "put" => ctl[c].i \in 1..5,
         \A i \in Image : Passed(m, i) => Passed(m, i)',
         \A i \in Image : pin'[i] # None => pin'[i] = m /\ i \in mon[m].opts /\ Passed(m, i)',
         on'[m] \subseteq on[m], on'[m] = on[m] \/ c \in early,
         mon'[m].at = "init" /\ Img(m)' \in on[m] => c \in early,
         mon'[m].at \notin {"clean", "end"} => mon[m].at \notin {"clean", "end"}
  PROVE  SoloOK(m, c)'
<1>1. Visited(c)' = Visited(c) /\ Visited(c) \subseteq Image
  BY DEF Visited
<1>2. ctl[c].at = "put" => CtlOrder[ctl[c].i] \in Image
  BY Orders
<1>. QED
  BY <1>1, <1>2 DEF SoloOK

\* What the invariant says about a run's place.
LEMMA MonTypes ==
  ASSUME ControlInv, NEW m \in Monitor
  PROVE  /\ mon[m] \in MonRec /\ mon[m].i \in 1..6 /\ mon[m].opts \in SUBSET Image
         /\ mon[m].found \in SUBSET Image /\ mon[m].at \in MonAt
         /\ pin \in [Image -> Monitor \cup {None}] /\ on \in [Monitor -> SUBSET Image]
         /\ \A c \in Ctl : ctl[c] \in CtlRec /\ ctl[c].imgs \subseteq Image /\ (ctl[c].at = "put" => ctl[c].i \in 1..5)
<1>1. mon \in [Monitor -> MonRec] /\ ctl \in [Ctl -> CtlRec]
  BY DEF ControlInv, TypeOK, MonRec, CtlRec
<1>2. mon[m] \in MonRec /\ \A c \in Ctl : ctl[c] \in CtlRec
  BY <1>1
<1>. QED
  BY <1>2 DEF ControlInv, TypeOK, CtlOK, MonRec, CtlRec

\* A run that begins to clean up, goes on with it, returns or dies.
LEMMA EndStep ==
  ASSUME ControlInv, NEW m \in Monitor, Alive(m), NEW r \in MonRec,
         mon' = [mon EXCEPT ![m] = r], r.at \in {"clean", "end"}, r.opts = mon[m].opts,
         UNCHANGED <<on, ctl, overlap, early>>,
         pin' \in [Image -> Monitor \cup {None}], \A i \in Image : pin'[i] \in {pin[i], None}
  PROVE  ControlInv'
<1>1. mon'[m] = r
  BY DEF ControlInv, TypeOK
<1>2. \A i \in Image : Passed(m, i)'
  BY <1>1 DEF Passed
<1>3. r.at \notin SettingUp \cup {"loop", "new", "pin", "init"}
  BY DEF SettingUp
<1>4. \A c \in Ctl : SoloOK(m, c) => SoloOK(m, c)'
  <2>. SUFFICES ASSUME NEW c \in Ctl, SoloOK(m, c) PROVE SoloOK(m, c)'
    OBVIOUS
  <2>1. \A i \in Image : pin'[i] # None => pin'[i] = m /\ i \in mon[m].opts /\ Passed(m, i)'
    BY <1>2 DEF SoloOK
  <2>. QED
    BY <1>1, <1>2, <1>3, <2>1, MonTypes, SoloFrame
<1>. QED
  BY <1>3, <1>4, MonTypes, MonFrame

\* goto cleanup.
LEMMA CleanupStep ==
  ASSUME ControlInv, NEW m \in Monitor, Alive(m), Cleanup(m), UNCHANGED <<pin, on, ctl, overlap, early>>
  PROVE  ControlInv'
<1>1. From(SetupOrder, mon[m].opts, 1) \in 1..6
  BY MonTypes, FromSetup
<1>2. PICK r \in MonRec : mon' = [mon EXCEPT ![m] = r] /\ r.at = "clean" /\ r.opts = mon[m].opts
  <2>. DEFINE k == From(SetupOrder, mon[m].opts, 1)
              r == [mon[m] EXCEPT !.at = "clean", !.i = k]
  <2>1. mon' = [mon EXCEPT ![m] = r]
    BY DEF Cleanup
  <2>. HIDE DEF k
  <2>2. r \in MonRec /\ r.at = "clean" /\ r.opts = mon[m].opts
    BY <1>1, MonTypes DEF MonRec, MonAt, k
  <2>. QED
    BY <2>1, <2>2
<1>. QED
  BY <1>2, MonTypes, EndStep

\* A run that returns or dies.
LEMMA GoEnd ==
  ASSUME ControlInv, NEW m \in Monitor, Alive(m), Go(m, "end"), UNCHANGED <<pin, on, ctl, overlap, early>>
  PROVE  ControlInv'
<1>1. PICK r \in MonRec : mon' = [mon EXCEPT ![m] = r] /\ r.at = "end" /\ r.opts = mon[m].opts
  <2>. DEFINE r == [mon[m] EXCEPT !.at = "end"]
  <2>1. mon' = [mon EXCEPT ![m] = r]
    BY DEF Go
  <2>2. r \in MonRec /\ r.at = "end" /\ r.opts = mon[m].opts
    BY MonTypes DEF MonRec, MonAt
  <2>. QED
    BY <2>1, <2>2
<1>. QED
  BY <1>1, MonTypes, EndStep

\* Cleaning up takes pins away and adds none.
LEMMA CleanStep == ASSUME ControlInv, NEW m \in Monitor, Clean(m) PROVE ControlInv'
<1>1. Alive(m) /\ UNCHANGED <<on, ctl, overlap, early>>
  BY DEF Clean, Alive
<1>2. CASE mon[m].i = 6
  BY <1>1, <1>2, GoEnd DEF Clean
<1>3. CASE mon[m].i # 6
  <2>1. mon[m].i \in 1..5 /\ mon[m].i + 1 \in 1..6 /\ Img(m) \in Image
    BY <1>3, MonTypes, Orders DEF Img
  <2>2. From(SetupOrder, mon[m].opts, mon[m].i + 1) \in 1..6
    BY <2>1, MonTypes, FromSetup
  <2>3. PICK r \in MonRec : mon' = [mon EXCEPT ![m] = r] /\ r.at = "clean" /\ r.opts = mon[m].opts
    <3>. DEFINE k == From(SetupOrder, mon[m].opts, mon[m].i + 1)
                r == [mon[m] EXCEPT !.i = k]
    <3>1. mon' = [mon EXCEPT ![m] = r] /\ mon[m].at = "clean"
      BY <1>3 DEF Clean
    <3>. HIDE DEF k
    <3>2. r \in MonRec /\ r.at = mon[m].at /\ r.opts = mon[m].opts
      BY <2>2, MonTypes DEF MonRec, MonAt, k
    <3>. QED
      BY <3>1, <3>2
  <2>4. pin' \in [Image -> Monitor \cup {None}] /\ \A i \in Image : pin'[i] \in {pin[i], None}
    BY <1>3, <2>1, MonTypes DEF Clean
  <2>. QED
    BY <1>1, <2>3, <2>4, EndStep
<1>. QED
  BY <1>2, <1>3

\* A run opened its image, or returns.
LEMMA OpenStep == ASSUME ControlInv, NEW m \in Monitor, Open(m) PROVE ControlInv'
<1>1. Alive(m) /\ mon[m].at = "open" /\ UNCHANGED <<pin, on, ctl, overlap, early>>
  BY DEF Open, Alive
<1>2. CASE Go(m, "end")
  BY <1>1, <1>2, GoEnd
<1>3. CASE Go(m, "load")
  <2>1. PICK r \in MonRec : /\ mon' = [mon EXCEPT ![m] = r] /\ r.at = "load"
                            /\ r.i = mon[m].i /\ r.opts = mon[m].opts
    <3>. DEFINE r == [mon[m] EXCEPT !.at = "load"]
    <3>1. mon' = [mon EXCEPT ![m] = r]
      BY <1>3 DEF Go
    <3>2. r \in MonRec /\ r.at = "load" /\ r.i = mon[m].i /\ r.opts = mon[m].opts
      BY MonTypes DEF MonRec, MonAt
    <3>. QED
      BY <3>1, <3>2
  <2>2. mon'[m] = r
    BY <2>1 DEF ControlInv, TypeOK
  <2>3. \A i \in Image : Passed(m, i)' <=> Passed(m, i)
    BY <1>1, <2>1, <2>2 DEF Passed
  <2>4. mon[m].i \in 1..5 /\ SetupOrder[mon[m].i] \in mon[m].opts /\ mon[m].at \in SettingUp
    BY <1>1 DEF ControlInv, MonOK, SettingUp, Img
  <2>5. \A c \in Ctl : SoloOK(m, c) => SoloOK(m, c)'
    <3>. SUFFICES ASSUME NEW c \in Ctl, SoloOK(m, c) PROVE SoloOK(m, c)'
      OBVIOUS
    <3>1. \A i \in Image : pin'[i] # None => pin'[i] = m /\ i \in mon[m].opts /\ Passed(m, i)'
      BY <1>1, <2>3 DEF SoloOK
    <3>. QED
      BY <1>1, <2>1, <2>2, <2>3, <3>1, MonTypes, SoloFrame
  <2>6. ~overlap => \A i \in r.opts : Passed(m, i)' => pin'[i] = m
    BY <1>1, <2>1, <2>3, <2>4, MonTypes DEF ControlInv, PinsOK
  <2>. QED
    BY <1>1, <2>1, <2>4, <2>5, <2>6, MonTypes, MonFrame
<1>. QED
  BY <1>2, <1>3 DEF Open

\* A run loaded its image and found the map, or cleans up.
LEMMA LoadStep == ASSUME ControlInv, NEW m \in Monitor, Load(m) PROVE ControlInv'
<1>1. Alive(m) /\ mon[m].at = "load" /\ UNCHANGED <<pin, on, ctl, overlap, early>>
  BY DEF Load, Alive
<1>2. mon[m].i \in 1..5 /\ Img(m) \in mon[m].opts /\ mon[m].at \in SettingUp /\ Img(m) \in Image
  BY <1>1, MonTypes DEF ControlInv, MonOK, SettingUp
<1>3. CASE Cleanup(m)
  BY <1>1, <1>3, CleanupStep
<1>4. CASE mon' = [mon EXCEPT ![m] = [@ EXCEPT !.at = "unpin", !.found = mon[m].found \cup {Img(m)}]]
  <2>1. PICK r \in MonRec : /\ mon' = [mon EXCEPT ![m] = r] /\ r.at = "unpin"
                            /\ r.i = mon[m].i /\ r.opts = mon[m].opts
    <3>. DEFINE f == mon[m].found \cup {Img(m)}
                r == [mon[m] EXCEPT !.at = "unpin", !.found = f]
    <3>1. mon' = [mon EXCEPT ![m] = r]
      BY <1>4
    <3>2. f \in SUBSET Image
      BY <1>2, MonTypes
    <3>. HIDE DEF f
    <3>3. r \in MonRec /\ r.at = "unpin" /\ r.i = mon[m].i /\ r.opts = mon[m].opts
      BY <3>2, MonTypes DEF MonRec, MonAt
    <3>. QED
      BY <3>1, <3>3
  <2>2. mon'[m] = r
    BY <2>1 DEF ControlInv, TypeOK
  <2>3. \A i \in Image : Passed(m, i)' <=> Passed(m, i)
    BY <1>1, <2>1, <2>2 DEF Passed
  <2>4. \A c \in Ctl : SoloOK(m, c) => SoloOK(m, c)'
    <3>. SUFFICES ASSUME NEW c \in Ctl, SoloOK(m, c) PROVE SoloOK(m, c)'
      OBVIOUS
    <3>1. \A i \in Image : pin'[i] # None => pin'[i] = m /\ i \in mon[m].opts /\ Passed(m, i)'
      BY <1>1, <2>3 DEF SoloOK
    <3>. QED
      BY <1>1, <2>1, <2>2, <2>3, <3>1, MonTypes, SoloFrame
  <2>5. ~overlap => \A i \in r.opts : Passed(m, i)' => pin'[i] = m
    BY <1>1, <1>2, <2>1, <2>3, MonTypes DEF ControlInv, PinsOK
  <2>. QED
    BY <1>1, <1>2, <2>1, <2>4, <2>5, MonTypes, MonFrame DEF Img
<1>. QED
  BY <1>3, <1>4 DEF Load

\* A run removes what is pinned at its path: nothing that it pinned itself.
LEMMA UnpinStep == ASSUME ControlInv, NEW m \in Monitor, Unpin(m) PROVE ControlInv'
<1>1. Alive(m) /\ mon[m].at = "unpin" /\ UNCHANGED <<on, ctl, overlap, early>>
  BY DEF Unpin, Alive
<1>2. mon[m].i \in 1..5 /\ Img(m) \in mon[m].opts /\ mon[m].at \in SettingUp /\ Img(m) \in Image
  BY <1>1, MonTypes DEF ControlInv, MonOK, SettingUp
<1>3. PICK r \in MonRec : /\ mon' = [mon EXCEPT ![m] = r] /\ r.at = "pin"
                          /\ r.i = mon[m].i /\ r.opts = mon[m].opts
  <2>. DEFINE r == [mon[m] EXCEPT !.at = "pin"]
  <2>1. mon' = [mon EXCEPT ![m] = r]
    BY DEF Unpin, Go
  <2>2. r \in MonRec /\ r.at = "pin" /\ r.i = mon[m].i /\ r.opts = mon[m].opts
    BY MonTypes DEF MonRec, MonAt
  <2>. QED
    BY <2>1, <2>2
<1>4. mon'[m] = r
  BY <1>3 DEF ControlInv, TypeOK
<1>5. \A i \in Image : Passed(m, i)' <=> Passed(m, i)
  BY <1>1, <1>3, <1>4 DEF Passed
<1>6. /\ pin' \in [Image -> Monitor \cup {None}] /\ pin'[Img(m)] = None
      /\ \A i \in Image \ {Img(m)} : pin'[i] = pin[i]
  BY <1>2, MonTypes DEF Unpin
<1>7. ~Passed(m, Img(m))
  BY <1>1, <1>2, Orders DEF Passed, Img
<1>8. \A c \in Ctl : SoloOK(m, c) => SoloOK(m, c)'
  <2>. SUFFICES ASSUME NEW c \in Ctl, SoloOK(m, c) PROVE SoloOK(m, c)'
    OBVIOUS
  <2>1. \A i \in Image : pin'[i] # None => pin'[i] = m /\ i \in mon[m].opts /\ Passed(m, i)'
    BY <1>5, <1>6 DEF SoloOK
  <2>. QED
    BY <1>1, <1>3, <1>4, <1>5, <2>1, MonTypes, SoloFrame
<1>9. ~overlap => \A i \in r.opts : Passed(m, i)' => pin'[i] = m
  BY <1>1, <1>2, <1>3, <1>5, <1>6, <1>7, MonTypes DEF ControlInv, PinsOK
<1>. QED
  BY <1>1, <1>2, <1>3, <1>6, <1>8, <1>9, MonTypes, MonFrame DEF Img

\* A run pins its map, or cleans up.
LEMMA PinStep == ASSUME ControlInv, NEW m \in Monitor, Pin(m) PROVE ControlInv'
<1>1. Alive(m) /\ mon[m].at = "pin" /\ UNCHANGED <<on, ctl, overlap, early>>
  BY DEF Pin, Alive
<1>2. mon[m].i \in 1..5 /\ Img(m) \in mon[m].opts /\ mon[m].at \in SettingUp /\ Img(m) \in Image
  BY <1>1, MonTypes DEF ControlInv, MonOK, SettingUp
<1>3. CASE Cleanup(m) /\ UNCHANGED pin
  BY <1>1, <1>3, CleanupStep
<1>4. CASE pin' = [pin EXCEPT ![Img(m)] = m] /\ Go(m, "init")
  <2>1. PICK r \in MonRec : /\ mon' = [mon EXCEPT ![m] = r] /\ r.at = "init"
                            /\ r.i = mon[m].i /\ r.opts = mon[m].opts
    <3>. DEFINE r == [mon[m] EXCEPT !.at = "init"]
    <3>1. mon' = [mon EXCEPT ![m] = r]
      BY <1>4 DEF Go
    <3>2. r \in MonRec /\ r.at = "init" /\ r.i = mon[m].i /\ r.opts = mon[m].opts
      BY MonTypes DEF MonRec, MonAt
    <3>. QED
      BY <3>1, <3>2
  <2>2. mon'[m] = r
    BY <2>1 DEF ControlInv, TypeOK
  <2>3. \A i \in Image : Passed(m, i)' <=> Passed(m, i) \/ i = Img(m)
    BY <1>1, <1>2, <2>1, <2>2, Orders DEF Passed, Img
  <2>4. /\ pin' \in [Image -> Monitor \cup {None}] /\ pin'[Img(m)] = m
        /\ \A i \in Image \ {Img(m)} : pin'[i] = pin[i]
    BY <1>2, <1>4, MonTypes
  <2>5. ~Passed(m, Img(m)) /\ Img(m)' = Img(m)
    BY <1>1, <1>2, <2>1, <2>2, Orders DEF Passed, Img
  <2>6. \A c \in Ctl : SoloOK(m, c) => SoloOK(m, c)'
    <3>. SUFFICES ASSUME NEW c \in Ctl, SoloOK(m, c) PROVE SoloOK(m, c)'
      OBVIOUS
    <3>1. \A i \in Image : pin'[i] # None => pin'[i] = m /\ i \in mon[m].opts /\ Passed(m, i)'
      BY <1>2, <2>3, <2>4 DEF SoloOK
    <3>2. Img(m) \notin on[m]
      BY <2>5 DEF SoloOK
    <3>. QED
      BY <1>1, <2>1, <2>2, <2>3, <2>5, <3>1, <3>2, MonTypes, SoloFrame
  <2>7. ~overlap => \A i \in r.opts : Passed(m, i)' => pin'[i] = m
    BY <1>1, <1>2, <2>1, <2>3, <2>4, MonTypes DEF ControlInv, PinsOK
  <2>. QED
    BY <1>1, <1>2, <2>1, <2>4, <2>6, <2>7, MonTypes, MonFrame DEF Img
<1>. QED
  BY <1>3, <1>4 DEF Pin

\* A run initialises its map, which only a command given too early can have switched on.
LEMMA InitMapStep == ASSUME ControlInv, NEW m \in Monitor, InitMap(m) PROVE ControlInv'
<1>1. Alive(m) /\ mon[m].at = "init" /\ UNCHANGED <<pin, ctl, overlap, early>>
  BY DEF InitMap, Alive
<1>2. mon[m].i \in 1..5 /\ Img(m) \in mon[m].opts /\ mon[m].at \in SettingUp /\ Img(m) \in Image
  BY <1>1, MonTypes DEF ControlInv, MonOK, SettingUp
<1>3. CASE Cleanup(m) /\ UNCHANGED on
  BY <1>1, <1>3, CleanupStep
<1>4. CASE on' = [on EXCEPT ![m] = @ \ {Img(m)}] /\ Go(m, "attach")
  <2>1. PICK r \in MonRec : /\ mon' = [mon EXCEPT ![m] = r] /\ r.at = "attach"
                            /\ r.i = mon[m].i /\ r.opts = mon[m].opts
    <3>. DEFINE r == [mon[m] EXCEPT !.at = "attach"]
    <3>1. mon' = [mon EXCEPT ![m] = r]
      BY <1>4 DEF Go
    <3>2. r \in MonRec /\ r.at = "attach" /\ r.i = mon[m].i /\ r.opts = mon[m].opts
      BY MonTypes DEF MonRec, MonAt
    <3>. QED
      BY <3>1, <3>2
  <2>2. mon'[m] = r
    BY <2>1 DEF ControlInv, TypeOK
  <2>3. \A i \in Image : Passed(m, i)' <=> Passed(m, i)
    BY <1>1, <2>1, <2>2 DEF Passed
  <2>4. on' \in [Monitor -> SUBSET Image] /\ on'[m] = on[m] \ {Img(m)}
    BY <1>4, MonTypes
  <2>5. \A c \in Ctl : SoloOK(m, c) => SoloOK(m, c)'
    <3>. SUFFICES ASSUME NEW c \in Ctl, SoloOK(m, c) PROVE SoloOK(m, c)'
      OBVIOUS
    <3>1. \A i \in Image : pin'[i] # None => pin'[i] = m /\ i \in mon[m].opts /\ Passed(m, i)'
      BY <1>1, <2>3 DEF SoloOK
    <3>2. on'[m] \subseteq on[m] /\ (on'[m] = on[m] \/ c \in early)
      BY <1>1, <2>4 DEF SoloOK
    <3>. QED
      BY <1>1, <2>1, <2>2, <2>3, <3>1, <3>2, MonTypes, SoloFrame
  <2>6. ~overlap => \A i \in r.opts : Passed(m, i)' => pin'[i] = m
    BY <1>1, <1>2, <2>1, <2>3, MonTypes DEF ControlInv, PinsOK
  <2>. QED
    BY <1>1, <1>2, <2>1, <2>4, <2>5, <2>6, MonTypes, MonFrame DEF Img
<1>. QED
  BY <1>3, <1>4 DEF InitMap

\* A run attaches its programs and goes on to the next image, or cleans up.
LEMMA AttachStep == ASSUME ControlInv, NEW m \in Monitor, Attach(m) PROVE ControlInv'
<1>1. Alive(m) /\ mon[m].at = "attach" /\ UNCHANGED <<pin, on, ctl, overlap, early>>
  BY DEF Attach, Alive
<1>2. mon[m].i \in 1..5 /\ Img(m) \in mon[m].opts /\ mon[m].at \in SettingUp /\ Img(m) \in Image
  BY <1>1, MonTypes DEF ControlInv, MonOK, SettingUp
<1>3. PICK k \in 1..6 : /\ k = From(SetupOrder, mon[m].opts, mon[m].i + 1)
                        /\ k > mon[m].i /\ (k # 6 => k \in 1..5 /\ SetupOrder[k] \in mon[m].opts)
                        /\ \A i \in mon[m].opts : Pos[i] >= mon[m].i + 1 => Pos[i] >= k
  <2>1. mon[m].i + 1 \in 1..6
    BY <1>2
  <2>. QED
    BY <1>2, <2>1, MonTypes, FromSetup
<1>4. CASE Cleanup(m)
  BY <1>1, <1>4, CleanupStep
<1>5. CASE mon' = [mon EXCEPT ![m] = [@ EXCEPT !.at = IF k = 6 THEN "loop" ELSE "open", !.i = k]]
  <2>1. PICK r \in MonRec : /\ mon' = [mon EXCEPT ![m] = r] /\ r.at = IF k = 6 THEN "loop" ELSE "open"
                            /\ r.i = k /\ r.opts = mon[m].opts
    <3>. DEFINE at == IF k = 6 THEN "loop" ELSE "open"
                r == [mon[m] EXCEPT !.at = at, !.i = k]
    <3>1. mon' = [mon EXCEPT ![m] = r]
      BY <1>5
    <3>2. at \in MonAt
      BY DEF MonAt
    <3>. HIDE DEF at
    <3>3. r \in MonRec /\ r.at = at /\ r.i = k /\ r.opts = mon[m].opts
      BY <3>2, MonTypes DEF MonRec
    <3>. QED
      BY <3>1, <3>3 DEF at
  <2>2. mon'[m] = r
    BY <2>1 DEF ControlInv, TypeOK
  <2>3. /\ \A i \in Image : Passed(m, i) => Passed(m, i)'
        /\ \A i \in mon[m].opts : Passed(m, i)' => Passed(m, i)
    <3>1. \A i \in Image : Pos[i] \in 1..5
      BY Orders
    <3>2. \A i \in Image : Passed(m, i) => Pos[i] <= mon[m].i
      BY <1>1, <1>2, <3>1 DEF Passed
    <3>3. \A i \in Image : Pos[i] < k => Passed(m, i)'
      BY <2>1, <2>2 DEF Passed
    <3>4. \A i \in mon[m].opts : Passed(m, i)' => Pos[i] < k
      BY <1>3, <2>1, <2>2 DEF Passed
    <3>5. \A i \in Image : Pos[i] <= mon[m].i => Passed(m, i)
      BY <1>1, <1>2, <3>1 DEF Passed
    <3>6. mon[m].opts \subseteq Image
      BY MonTypes
    <3>7. \A i \in mon[m].opts : Pos[i] < k => Pos[i] <= mon[m].i
      BY <1>2, <1>3, <3>1, <3>6
    <3>8. \A i \in Image : Pos[i] <= mon[m].i => Pos[i] < k
      BY <1>2, <1>3, <3>1
    <3>. QED
      BY <3>2, <3>3, <3>4, <3>5, <3>6, <3>7, <3>8
  <2>4. \A c \in Ctl : SoloOK(m, c) => SoloOK(m, c)'
    <3>. SUFFICES ASSUME NEW c \in Ctl, SoloOK(m, c) PROVE SoloOK(m, c)'
      OBVIOUS
    <3>1. \A i \in Image : pin'[i] # None => pin'[i] = m /\ i \in mon[m].opts /\ Passed(m, i)'
      BY <1>1, <2>3 DEF SoloOK
    <3>. QED
      BY <1>1, <2>1, <2>2, <2>3, <3>1, MonTypes, SoloFrame
  <2>5. ~overlap => \A i \in r.opts : Passed(m, i)' => pin'[i] = m
    BY <1>1, <1>2, <2>1, <2>3 DEF ControlInv, PinsOK
  <2>6. r.at # "pin" /\ (r.at \in SettingUp => r.i # 6) /\ (r.at = "loop" => r.i = 6) /\ r.at # "new"
    BY <2>1 DEF SettingUp
  <2>. QED
    BY <1>1, <1>3, <2>1, <2>4, <2>5, <2>6, MonTypes, MonFrame
<1>. QED
  BY <1>3, <1>4, <1>5 DEF Attach

\* A run starts: it has pinned nothing, and overlap tells whether it is alone.
LEMMA StartStep ==
  ASSUME ControlInv, NEW m \in Monitor, NEW opts \in RunOpts, Start(m, opts)
  PROVE  ControlInv'
<1>1. mon[m].at = "new" /\ mon[m].i = 1 /\ UNCHANGED <<pin, on, ctl, early>> /\ opts \in SUBSET Image
  BY ControlAssumption DEF Start, ControlInv, MonOK
<1>2. PICK k \in 1..6 : /\ k = From(SetupOrder, opts, 1)
                        /\ (k # 6 => k \in 1..5 /\ SetupOrder[k] \in opts)
                        /\ \A i \in opts : Pos[i] >= 1 => Pos[i] >= k
  <2>1. 1 \in 1..6
    OBVIOUS
  <2>. QED
    BY <1>1, <2>1, FromSetup
<1>3. PICK r \in MonRec : /\ mon' = [mon EXCEPT ![m] = r] /\ r.at = IF k = 6 THEN "loop" ELSE "open"
                          /\ r.i = k /\ r.opts = opts
  <2>. DEFINE r == [at |-> IF k = 6 THEN "loop" ELSE "open", i |-> k, opts |-> opts, found |-> {}]
  <2>1. mon' = [mon EXCEPT ![m] = r]
    BY <1>2 DEF Start
  <2>2. r \in MonRec
    BY <1>1 DEF MonRec, MonAt
  <2>. QED
    BY <2>1, <2>2
<1>4. mon \in [Monitor -> MonRec] /\ ctl \in [Ctl -> CtlRec] /\ overlap \in BOOLEAN
  BY DEF ControlInv, TypeOK, MonRec, CtlRec
<1>5. mon'[m] = r /\ \A n \in Monitor \ {m} : mon'[n] = mon[n]
  BY <1>3, <1>4
<1>6. overlap' \in BOOLEAN /\ (overlap' <=> overlap \/ \E n \in Monitor : Alive(n))
  BY <1>4 DEF Start
<1>7. TypeOK'
  <2>1. mon' \in [Monitor -> MonRec]
    BY <1>3, <1>4
  <2>. QED
    BY <1>1, <1>6, <2>1 DEF ControlInv, TypeOK, MonRec
<1>8. r.at \in {"loop", "open"} /\ (r.at = "open" => r.i # 6) /\ (r.at = "loop" => r.i = 6)
  BY <1>3
<1>9. MonOK' /\ CtlOK'
  <2>1. r.at \in SettingUp => r.i \in 1..5 /\ SetupOrder[r.i] \in r.opts
    BY <1>2, <1>3, <1>8 DEF SettingUp
  <2>. QED
    BY <1>1, <1>5, <1>8, <2>1 DEF ControlInv, MonOK, CtlOK, Img
\* Nothing it was asked for comes before the first image it was asked for.
<1>10. \A i \in opts : ~Passed(m, i)'
  <2>1. \A i \in opts : Pos[i] \in 1..5
    BY <1>1, Orders
  <2>2. \A i \in opts : Pos[i] >= k
    BY <1>2, <2>1
  <2>. QED
    BY <1>3, <1>5, <1>8, <2>1, <2>2 DEF Passed
<1>11. ~overlap' => ~overlap /\ \A n \in Monitor \ {m} : mon'[n].at \in {"new", "end"}
  BY <1>5, <1>6 DEF Alive
<1>12. PinsOK'
  <2>1. \A n, l \in Monitor : ~overlap' /\ Alive(n)' /\ Alive(l)' => n = l
    BY <1>11 DEF Alive
  <2>2. \A n \in Monitor : ~overlap' /\ mon'[n].at \in SettingUp \cup {"loop"} => n = m
    BY <1>11 DEF SettingUp
  <2>. QED
    BY <1>3, <1>5, <1>10, <2>1, <2>2 DEF PinsOK
<1>13. RestartIsNotBlocked'
  BY <1>5, <1>8, <1>11 DEF RestartIsNotBlocked
<1>14. ASSUME NEW n \in Monitor, NEW c \in Ctl, Solo(n, c)' PROVE SoloOK(n, c)'
  <2>1. n = m /\ Solo(m, c) /\ \A l \in Monitor : mon[l].at = "new"
    BY <1>1, <1>5, <1>8, <1>14 DEF Solo
  <2>2. SoloOK(m, c)
    BY <2>1 DEF ControlInv
  <2>3. \A i \in Image : ~Passed(m, i)
    BY <1>1, Orders DEF Passed
  <2>4. ctl[c].at # "put" /\ Visited(c) = {} /\ (\A i \in Image : pin[i] = None) /\ on[m] = {}
    <3>1. ctl[c].at # "put"
      BY <2>2, <2>3, MonTypes, Orders DEF SoloOK
    <3>2. Visited(c) \subseteq Image
      BY MonTypes DEF Visited
    <3>. QED
      BY <2>2, <2>3, <3>1, <3>2 DEF SoloOK
  <2>5. Visited(c)' = {}
    BY <1>1, <2>4 DEF Visited
  <2>6. ~overlap'
    BY <1>6, <2>1, <2>2 DEF SoloOK, Alive
  <2>. QED
    BY <1>1, <2>1, <2>4, <2>5, <2>6 DEF SoloOK
<1>. QED
  BY <1>7, <1>9, <1>12, <1>13, <1>14 DEF ControlInv

\* Every step of a run of proc_image keeps ControlInv.
LEMMA MonitorSteps == ASSUME ControlInv, NEW m \in Monitor, MonitorStep(m) PROVE ControlInv'
<1>1. CASE LoopEnd(m)
  BY <1>1, CleanupStep DEF LoopEnd, Alive
<1>2. CASE Die(m)
  BY <1>2, GoEnd DEF Die
<1>. QED
  BY <1>1, <1>2, StartStep, OpenStep, LoadStep, UnpinStep, PinStep, InitMapStep, AttachStep, CleanStep
     DEF MonitorStep
-----------------------------------------------------------------------------
(* controller. *)

\* What is to be shown of a step of controller c: its new state r is in order, and what it
\* leaves in the maps of a run of proc_image that it is alone with.
LEMMA CtlFrame ==
  ASSUME ControlInv, NEW c \in Ctl, NEW r \in CtlRec, ctl' = [ctl EXCEPT ![c] = r], r.at # "new",
         UNCHANGED <<mon, pin, overlap>>,
         r.at \in {"get", "put"} => r.i \in 1..5 /\ CtlOrder[r.i] \in r.imgs,
         r.at = "put" => r.fd \in Monitor,
         r.at = "parsed" => r.i = 1, r.at = "pause" => r.i = 6, r.armed => r.timed,
         on' \in [Monitor -> SUBSET Image], early' \subseteq Ctl,
         \A m \in Monitor : SoloOK(m, c) => SoloOK(m, c)'
  PROVE  ControlInv'
<1>1. ctl \in [Ctl -> CtlRec]
  BY DEF ControlInv, TypeOK, CtlRec
<1>2. ctl'[c] = r /\ \A d \in Ctl \ {c} : ctl'[d] = ctl[d]
  BY <1>1
<1>3. TypeOK'
  <2>1. ctl' \in [Ctl -> CtlRec]
    BY <1>1
  <2>. QED
    BY <2>1 DEF ControlInv, TypeOK, CtlRec
<1>4. MonOK' /\ PinsOK' /\ RestartIsNotBlocked'
  BY DEF ControlInv, MonOK, PinsOK, RestartIsNotBlocked, Img, Alive, Passed
<1>5. CtlOK'
  BY <1>2 DEF ControlInv, CtlOK
<1>6. ASSUME NEW m \in Monitor, NEW d \in Ctl, Solo(m, d)' PROVE SoloOK(m, d)'
  <2>1. d = c
    BY <1>2, <1>6 DEF Solo
  <2>2. Solo(m, c)
    BY <1>2, <1>6, <2>1 DEF Solo
  <2>. QED
    BY <2>1, <2>2 DEF ControlInv
<1>. QED
  BY <1>3, <1>4, <1>5, <1>6 DEF ControlInv

\* What the invariant says about a controller.
LEMMA CtlTypes ==
  ASSUME ControlInv, NEW c \in Ctl
  PROVE  /\ ctl[c] \in CtlRec /\ ctl[c].at \in CtlAt /\ ctl[c].i \in 1..6 /\ ctl[c].imgs \in SUBSET Image
         /\ ctl[c].mode \in {"activate", "deactivate", "finish"}
         /\ ctl[c].timed \in BOOLEAN /\ ctl[c].armed \in BOOLEAN /\ ctl[c].fd \in Monitor \cup {None}
         /\ mon \in [Monitor -> MonRec] /\ ctl \in [Ctl -> CtlRec]
         /\ pin \in [Image -> Monitor \cup {None}] /\ on \in [Monitor -> SUBSET Image] /\ early \subseteq Ctl
         /\ \A i \in ctl[c].imgs : CPos[i] \in 1..5
<1>1. mon \in [Monitor -> MonRec] /\ ctl \in [Ctl -> CtlRec]
  BY DEF ControlInv, TypeOK, MonRec, CtlRec
<1>2. ctl[c] \in CtlRec
  BY <1>1
<1>3. ctl[c].imgs \in SUBSET Image
  BY <1>2 DEF CtlRec
<1>4. \A i \in ctl[c].imgs : CPos[i] \in 1..5
  BY <1>3, Orders
<1>. QED
  BY <1>1, <1>2, <1>3, <1>4 DEF ControlInv, TypeOK, CtlRec

\* A controller starts: it has been through no image.
LEMMA CtlStartStep ==
  ASSUME ControlInv, NEW c \in Ctl, NEW mode \in {"activate", "deactivate", "finish"}, NEW asked \in Asks,
         NEW timed \in BOOLEAN, CtlStart(c, mode, asked, timed)
  PROVE  ControlInv'
<1>1. ctl[c].at = "new" /\ ctl[c].i = 1 /\ UNCHANGED <<mon, pin, on, overlap, early>>
  BY DEF CtlStart, ControlInv, CtlOK
<1>2. ImagesOf(asked) \in SUBSET Image
  BY ControlAssumption DEF ImagesOf, Image
<1>3. PICK r \in CtlRec : /\ ctl' = [ctl EXCEPT ![c] = r] /\ r.at = "parsed" /\ r.i = 1
                          /\ (r.armed => r.timed) /\ r.imgs = ImagesOf(asked)
  <2>. DEFINE r == [at |-> "parsed", i |-> 1, mode |-> mode, imgs |-> ImagesOf(asked), timed |-> timed,
                    armed |-> timed, fd |-> None]
  <2>1. ctl' = [ctl EXCEPT ![c] = r]
    BY DEF CtlStart
  <2>2. r \in CtlRec
    BY <1>2 DEF CtlRec, CtlAt
  <2>. QED
    BY <2>1, <2>2
<1>4. ctl'[c] = r
  BY <1>3, CtlTypes
<1>5. Visited(c) = {} /\ Visited(c)' = {}
  <2>1. \A i \in r.imgs : CPos[i] \in 1..5
    BY <1>2, <1>3, Orders
  <2>. QED
    BY <1>1, <1>3, <1>4, <2>1, CtlTypes DEF Visited
<1>6. \A m \in Monitor : SoloOK(m, c) => SoloOK(m, c)'
  BY <1>1, <1>3, <1>4, <1>5 DEF SoloOK, Passed, Img
<1>. QED
  BY <1>1, <1>3, <1>6, CtlTypes, CtlFrame

\* What Proceed makes of a controller.
LEMMA ProceedFacts ==
  ASSUME ControlInv, NEW c \in Ctl, NEW k \in 1..6, ctl' = Proceed(c, k)
  PROVE  \E r \in CtlRec :
           /\ ctl' = [ctl EXCEPT ![c] = r] /\ r.i = k /\ r.imgs = ctl[c].imgs /\ r.mode = ctl[c].mode
           /\ (r.timed <=> ctl[c].timed) /\ (r.armed <=> ctl[c].armed)
           /\ r.at \in {"get", "pause", "done"}
           /\ (k # 6 => r.at = "get") /\ (r.at = "get" => k # 6)
           /\ r.mode = "activate" /\ r.timed => r.at # "done"
<1>. DEFINE at == IF k # 6 THEN "get"
                  ELSE IF ctl[c].mode = "activate" /\ ctl[c].timed THEN "pause" ELSE "done"
            r == [ctl[c] EXCEPT !.i = k, !.fd = None, !.at = at]
<1>1. ctl' = [ctl EXCEPT ![c] = r]
  BY DEF Proceed
<1>2. /\ at \in CtlAt /\ at \in {"get", "pause", "done"} /\ (k # 6 => at = "get") /\ (at = "get" => k # 6)
      /\ ctl[c].mode = "activate" /\ ctl[c].timed => at # "done"
  BY DEF CtlAt
<1>. HIDE DEF at
<1>3. /\ r \in CtlRec /\ r.i = k /\ r.imgs = ctl[c].imgs /\ r.mode = ctl[c].mode /\ r.at = at
      /\ (r.timed <=> ctl[c].timed) /\ (r.armed <=> ctl[c].armed)
  BY <1>2, CtlTypes DEF CtlRec
<1>. HIDE DEF r
<1>. QED
  BY <1>1, <1>2, <1>3

\* A controller begins with its first image, or, with -f, kills every run of proc_image.
LEMMA CtlBeginStep == ASSUME ControlInv, NEW c \in Ctl, CtlBegin(c) PROVE ControlInv'
<1>1. ctl[c].at = "parsed" /\ ctl[c].i = 1 /\ UNCHANGED <<pin, on, overlap, early>>
  BY DEF CtlBegin, ControlInv, CtlOK
<1>2. Visited(c) = {}
  BY <1>1, CtlTypes DEF Visited
<1>3. CASE ctl[c].mode # "finish"
  <2>1. PICK k \in 1..6 : /\ k = From(CtlOrder, ctl[c].imgs, 1)
                          /\ (k # 6 => k \in 1..5 /\ CtlOrder[k] \in ctl[c].imgs)
                          /\ \A i \in ctl[c].imgs : CPos[i] >= 1 => CPos[i] >= k
    <3>1. 1 \in 1..6
      OBVIOUS
    <3>. QED
      BY <3>1, CtlTypes, FromCtl
  <2>2. ctl' = Proceed(c, k) /\ UNCHANGED mon
    BY <1>3, <2>1 DEF CtlBegin
  <2>3. PICK r \in CtlRec :
           /\ ctl' = [ctl EXCEPT ![c] = r] /\ r.i = k /\ r.imgs = ctl[c].imgs /\ r.mode = ctl[c].mode
           /\ (r.timed <=> ctl[c].timed) /\ (r.armed <=> ctl[c].armed)
           /\ r.at \in {"get", "pause", "done"}
           /\ (k # 6 => r.at = "get") /\ (r.at = "get" => k # 6)
           /\ (r.mode = "activate" /\ r.timed => r.at # "done")
    BY <2>2, ProceedFacts
  <2>4. ctl'[c] = r
    BY <2>3, CtlTypes
  <2>5. Visited(c)' = {}
    BY <2>1, <2>3, <2>4, CtlTypes DEF Visited
  <2>6. \A m \in Monitor : SoloOK(m, c) => SoloOK(m, c)'
    BY <1>1, <1>2, <2>2, <2>3, <2>4, <2>5 DEF SoloOK, Passed, Img
  <2>7. r.armed => r.timed
    BY <2>3 DEF ControlInv, CtlOK
  <2>8. /\ (r.at \in {"get", "put"} => r.i \in 1..5 /\ CtlOrder[r.i] \in r.imgs)
        /\ (r.at = "pause" => r.i = 6) /\ r.at # "put" /\ r.at # "parsed" /\ r.at # "new"
    BY <2>1, <2>3
  <2>. QED
    BY <1>1, <2>2, <2>3, <2>6, <2>7, <2>8, CtlTypes, CtlFrame
<1>4. CASE ctl[c].mode = "finish"
  <2>1. PICK r \in CtlRec : /\ ctl' = [ctl EXCEPT ![c] = r] /\ r.at = "done" /\ r.i = 1
                            /\ r.imgs = ctl[c].imgs /\ r.mode = "finish" /\ (r.armed => r.timed)
    <3>. DEFINE r == [ctl[c] EXCEPT !.at = "done"]
    <3>1. ctl' = [ctl EXCEPT ![c] = r]
      BY <1>4 DEF CtlBegin
    <3>2. /\ r \in CtlRec /\ r.at = "done" /\ r.i = ctl[c].i /\ r.imgs = ctl[c].imgs /\ r.mode = ctl[c].mode
          /\ (r.timed <=> ctl[c].timed) /\ (r.armed <=> ctl[c].armed)
      BY CtlTypes DEF CtlRec, CtlAt
    <3>. HIDE DEF r
    <3>3. r.armed => r.timed
      BY <3>2 DEF ControlInv, CtlOK
    <3>. QED
      BY <1>1, <1>4, <3>1, <3>2, <3>3
  <2>2. ctl'[c] = r /\ \A d \in Ctl \ {c} : ctl'[d] = ctl[d]
    BY <2>1, CtlTypes
  <2>3. mon' = [m \in Monitor |-> IF Alive(m) THEN [mon[m] EXCEPT !.at = "end"] ELSE mon[m]]
    BY <1>4 DEF CtlBegin
  <2>4. ASSUME NEW m \in Monitor
        PROVE  /\ mon'[m] \in MonRec /\ mon'[m].i = mon[m].i /\ mon'[m].opts = mon[m].opts
               /\ mon'[m].at \in {"new", "end"} /\ (mon'[m].at = "new" => mon[m].at = "new" /\ mon'[m] = mon[m])
    <3>1. CASE Alive(m)
      <4>. DEFINE q == [mon[m] EXCEPT !.at = "end"]
      <4>1. mon'[m] = q
        BY <2>3, <3>1
      <4>2. q \in MonRec /\ q.at = "end" /\ q.i = mon[m].i /\ q.opts = mon[m].opts
        BY MonTypes DEF MonRec, MonAt
      <4>. HIDE DEF q
      <4>. QED
        BY <4>1, <4>2
    <3>2. CASE ~Alive(m)
      <4>1. mon'[m] = mon[m]
        BY <2>3, <3>2
      <4>. QED
        BY <3>2, <4>1, MonTypes DEF Alive
    <3>. QED
      BY <3>1, <3>2
  <2>5. TypeOK'
    <3>1. mon' \in [Monitor -> MonRec]
      BY <2>3, <2>4
    <3>2. ctl' \in [Ctl -> CtlRec]
      BY <2>1, CtlTypes
    <3>. QED
      BY <1>1, <3>1, <3>2 DEF ControlInv, TypeOK, MonRec, CtlRec
  <2>6. MonOK'
    BY <2>4 DEF ControlInv, MonOK, SettingUp
  <2>7. CtlOK'
    BY <1>1, <2>1, <2>2 DEF ControlInv, CtlOK
  <2>8. PinsOK' /\ RestartIsNotBlocked'
    BY <2>4 DEF PinsOK, RestartIsNotBlocked, SettingUp, Alive
  <2>9. ASSUME NEW m \in Monitor, NEW d \in Ctl, Solo(m, d)' PROVE SoloOK(m, d)'
    <3>1. d = c
      BY <2>1, <2>2, <2>9 DEF Solo
    <3>2. Visited(c)' = {}
      BY <1>1, <2>1, <2>2, CtlTypes DEF Visited
    <3>3. \A n \in Monitor \ {m} : mon[n].at = "new"
      BY <2>4, <2>9, <3>1 DEF Solo, Alive
    <3>4. Solo(m, c)
      BY <2>2, <2>9, <3>1, <3>3 DEF Solo
    <3>5. SoloOK(m, c)
      BY <3>4 DEF ControlInv
    <3>6. \A i \in Image : Passed(m, i) => Passed(m, i)'
      BY <2>4 DEF Passed
    <3>7. \A i \in Image : pin'[i] # None => pin'[i] = m /\ i \in mon'[m].opts /\ Passed(m, i)'
      BY <1>1, <2>4, <3>5, <3>6 DEF SoloOK
    <3>8. ~overlap' /\ on'[m] = {}
      BY <1>1, <1>2, <3>5 DEF SoloOK
    <3>. QED
      BY <2>1, <2>2, <3>1, <3>2, <3>7, <3>8 DEF SoloOK
  <2>. QED
    BY <2>5, <2>6, <2>7, <2>8, <2>9 DEF ControlInv
<1>. QED
  BY <1>3, <1>4

\* A controller opens the map it finds at the path of its image, or ends.
LEMMA CtlGetStep == ASSUME ControlInv, NEW c \in Ctl, CtlGet(c) PROVE ControlInv'
<1>1. /\ ctl[c].at = "get" /\ ctl[c].i \in 1..5 /\ CtlOrder[ctl[c].i] \in ctl[c].imgs
      /\ UNCHANGED <<mon, pin, on, overlap, early>> /\ CtlOrder[ctl[c].i] \in Image
  BY Orders DEF CtlGet, ControlInv, CtlOK
<1>2. PICK p : p = pin[CtlOrder[ctl[c].i]]
  OBVIOUS
<1>3. p \in Monitor \cup {None}
  BY <1>1, <1>2, CtlTypes
<1>4. PICK r \in CtlRec : /\ ctl' = [ctl EXCEPT ![c] = r] /\ r.at = IF p = None THEN "done" ELSE "put"
                          /\ r.fd = p /\ r.i = ctl[c].i /\ r.imgs = ctl[c].imgs /\ r.mode = ctl[c].mode
                          /\ (r.timed <=> ctl[c].timed) /\ (r.armed <=> ctl[c].armed)
  <2>. DEFINE at == IF p = None THEN "done" ELSE "put"
              r == [ctl[c] EXCEPT !.at = at, !.fd = p]
  <2>1. ctl' = [ctl EXCEPT ![c] = r]
    BY <1>2 DEF CtlGet
  <2>2. at \in CtlAt
    BY DEF CtlAt
  <2>. HIDE DEF at
  <2>3. /\ r \in CtlRec /\ r.at = at /\ r.fd = p /\ r.i = ctl[c].i /\ r.imgs = ctl[c].imgs
        /\ r.mode = ctl[c].mode /\ (r.timed <=> ctl[c].timed) /\ (r.armed <=> ctl[c].armed)
    BY <1>3, <2>2, CtlTypes DEF CtlRec
  <2>. HIDE DEF r
  <2>. QED
    BY <2>1, <2>3 DEF at
<1>5. ctl'[c] = r
  BY <1>4, CtlTypes
<1>6. Visited(c)' = Visited(c)
  BY <1>4, <1>5 DEF Visited
<1>7. /\ r.at \in {"done", "put"} /\ (r.at = "put" => r.fd \in Monitor /\ r.fd # None) /\ r.i # 6
      /\ (r.armed => r.timed)
  BY <1>1, <1>3, <1>4 DEF ControlInv, CtlOK
<1>8. ASSUME NEW m \in Monitor, SoloOK(m, c) PROVE SoloOK(m, c)'
  <2>1. \A i \in Image : Passed(m, i)' <=> Passed(m, i)
    BY <1>1 DEF Passed
  <2>2. Visited(c) \subseteq Image
    BY CtlTypes DEF Visited
  <2>3. r.at = "put" => r.fd = m /\ CtlOrder[r.i] \in mon[m].opts /\ Passed(m, CtlOrder[r.i])
    BY <1>1, <1>2, <1>4, <1>7, <1>8 DEF SoloOK
  <2>4. r.at = "put" => CtlOrder[r.i] \in Image
    BY <1>1, <1>4
  <2>. QED
    BY <1>1, <1>4, <1>5, <1>6, <1>7, <1>8, <2>1, <2>2, <2>3, <2>4 DEF SoloOK, Img
<1>. QED
  BY <1>1, <1>4, <1>7, <1>8, CtlTypes, CtlFrame

\* A controller writes the map it opened, and has been through one image more.
LEMMA CtlPutStep == ASSUME ControlInv, NEW c \in Ctl, CtlPut(c) PROVE ControlInv'
<1>1. /\ ctl[c].at = "put" /\ ctl[c].i \in 1..5 /\ CtlOrder[ctl[c].i] \in ctl[c].imgs
      /\ ctl[c].fd \in Monitor /\ UNCHANGED <<mon, pin, overlap>> /\ CtlOrder[ctl[c].i] \in Image
  BY Orders DEF CtlPut, ControlInv, CtlOK
<1>2. PICK i \in Image : i = CtlOrder[ctl[c].i] /\ CPos[i] = ctl[c].i
  BY <1>1, Orders
<1>3. PICK k \in 1..6 : /\ k = From(CtlOrder, ctl[c].imgs, ctl[c].i + 1) /\ k > ctl[c].i
                        /\ (k # 6 => k \in 1..5 /\ CtlOrder[k] \in ctl[c].imgs)
                        /\ \A x \in ctl[c].imgs : CPos[x] >= ctl[c].i + 1 => CPos[x] >= k
  <2>. DEFINE k == From(CtlOrder, ctl[c].imgs, ctl[c].i + 1)
  <2>1. ctl[c].i + 1 \in 1..6 /\ ctl[c].imgs \in SUBSET Image
    BY <1>1, CtlTypes
  <2>2. /\ k \in (ctl[c].i + 1)..6 /\ k \in 1..6
        /\ (k # 6 => k \in 1..5 /\ CtlOrder[k] \in ctl[c].imgs)
        /\ \A x \in ctl[c].imgs : CPos[x] >= ctl[c].i + 1 => CPos[x] >= k
    BY <2>1, FromCtl
  <2>. HIDE DEF k
  <2>3. k > ctl[c].i
    BY <1>1, <2>2
  <2>. QED
    BY <2>2, <2>3 DEF k
<1>4. PICK r \in CtlRec :
         /\ ctl' = [ctl EXCEPT ![c] = r] /\ r.i = k /\ r.imgs = ctl[c].imgs /\ r.mode = ctl[c].mode
         /\ (r.timed <=> ctl[c].timed) /\ (r.armed <=> ctl[c].armed)
         /\ r.at \in {"get", "pause", "done"}
         /\ (k # 6 => r.at = "get") /\ (r.at = "get" => k # 6)
         /\ (r.mode = "activate" /\ r.timed => r.at # "done")
  <2>1. ctl' = Proceed(c, k)
    BY <1>3 DEF CtlPut
  <2>. QED
    BY <2>1, ProceedFacts
<1>5. ctl'[c] = r
  BY <1>4, CtlTypes
<1>6. /\ (r.at \in {"get", "put"} => r.i \in 1..5 /\ CtlOrder[r.i] \in r.imgs) /\ (r.armed => r.timed)
      /\ (r.at = "pause" => r.i = 6) /\ r.at # "put" /\ r.at # "parsed" /\ r.at # "new"
  BY <1>3, <1>4 DEF ControlInv, CtlOK
<1>7. Visited(c)' = Visited(c) \cup {i}
  <2>1. \A x \in ctl[c].imgs : CPos[x] \in 1..5 /\ (CPos[x] = ctl[c].i <=> x = i)
    BY <1>2, CtlTypes, Orders
  <2>2. \A x \in ctl[c].imgs : CPos[x] < k <=> CPos[x] < ctl[c].i \/ x = i
    BY <1>1, <1>3, <2>1
  <2>. QED
    BY <1>1, <1>2, <1>4, <1>5, <2>2 DEF Visited
<1>8. /\ on' = [on EXCEPT ![ctl[c].fd] = IF ctl[c].mode = "activate" THEN @ \cup {i} ELSE @ \ {i}]
      /\ early' = IF mon[ctl[c].fd].at = "init" /\ Img(ctl[c].fd) = i THEN early \cup {c} ELSE early
  BY <1>2 DEF CtlPut
<1>9. on' \in [Monitor -> SUBSET Image] /\ early' \subseteq Ctl
  BY <1>1, <1>8, CtlTypes
<1>10. ASSUME NEW m \in Monitor, SoloOK(m, c) PROVE SoloOK(m, c)'
  <2>1. ctl[c].fd = m /\ i \in mon[m].opts /\ Passed(m, i)
    BY <1>1, <1>2, <1>10 DEF SoloOK
  <2>2. on'[m] = IF ctl[c].mode = "activate" THEN on[m] \cup {i} ELSE on[m] \ {i}
    BY <1>8, <2>1, CtlTypes
  <2>3. on'[m] \subseteq Visited(c)'
    BY <1>7, <1>10, <2>2 DEF SoloOK
  <2>4. early \subseteq early' /\ (mon[m].at = "init" /\ Img(m) = i => c \in early')
    BY <1>8, <2>1
  <2>5. mon[m].at = "init" /\ Img(m) \in on'[m] => c \in early'
    BY <1>10, <2>2, <2>4 DEF SoloOK
  <2>6. ctl[c].mode = "activate" /\ ~ctl[c].timed => c \in early' \/ Visited(c)' \subseteq on'[m]
    BY <1>7, <1>10, <2>2, <2>4 DEF SoloOK
  <2>7. \A x \in Visited(c)' : x \in mon'[m].opts /\ Passed(m, x)'
    BY <1>1, <1>7, <1>10, <2>1 DEF SoloOK, Passed
  <2>8. \A x \in Image : pin'[x] # None => pin'[x] = m /\ x \in mon'[m].opts /\ Passed(m, x)'
    BY <1>1, <1>10 DEF SoloOK, Passed
  <2>9. ~overlap' /\ Img(m)' = Img(m) /\ mon' = mon
    BY <1>1, <1>10 DEF SoloOK, Img
  <2>10. ~(r.mode = "activate" /\ r.timed /\ r.at = "done")
    BY <1>4
  <2>11. r.mode = "activate" /\ ~r.timed => c \in early' \/ Visited(c)' \subseteq on'[m]
    BY <1>4, <2>6
  <2>. QED
    BY <1>5, <1>6, <2>3, <2>5, <2>7, <2>8, <2>9, <2>10, <2>11 DEF SoloOK
<1>. QED
  BY <1>1, <1>4, <1>6, <1>9, <1>10, CtlFrame

\* The alarm.  A controller that waits has been through all its images; with one run of
\* proc_image alone, which is still up, all are pinned, and the handler reaches all.
LEMMA AlarmStep == ASSUME ControlInv, NEW c \in Ctl, Alarm(c) PROVE ControlInv'
<1>1. /\ ctl[c].armed /\ ctl[c].timed /\ ctl[c].at \notin {"new", "done"}
      /\ UNCHANGED <<mon, pin, overlap, early>>
  BY DEF Alarm, ControlInv, CtlOK
<1>2. PICK r \in CtlRec :
         /\ ctl' = [ctl EXCEPT ![c] = r] /\ ~r.armed
         /\ r.at = IF ctl[c].at \in {"parsed", "pause"} THEN "done" ELSE ctl[c].at
         /\ r.fd = ctl[c].fd /\ r.i = ctl[c].i /\ r.imgs = ctl[c].imgs /\ r.mode = ctl[c].mode
         /\ (r.timed <=> ctl[c].timed)
  <2>. DEFINE at == IF ctl[c].at \in {"parsed", "pause"} THEN "done" ELSE ctl[c].at
              r == [ctl[c] EXCEPT !.armed = FALSE, !.at = at]
  <2>1. ctl' = [ctl EXCEPT ![c] = r]
    BY DEF Alarm
  <2>2. at \in CtlAt
    BY CtlTypes DEF CtlAt
  <2>. HIDE DEF at
  <2>3. /\ r \in CtlRec /\ r.at = at /\ r.fd = ctl[c].fd /\ r.i = ctl[c].i /\ r.imgs = ctl[c].imgs
        /\ r.mode = ctl[c].mode /\ (r.timed <=> ctl[c].timed) /\ (r.armed <=> FALSE)
    BY <2>2, CtlTypes DEF CtlRec
  <2>. HIDE DEF r
  <2>. QED
    BY <2>1, <2>3 DEF at
<1>3. ctl'[c] = r
  BY <1>2, CtlTypes
<1>4. Visited(c)' = Visited(c)
  BY <1>2, <1>3 DEF Visited
<1>5. /\ (r.at \in {"get", "put"} => r.i \in 1..5 /\ CtlOrder[r.i] \in r.imgs)
      /\ (r.at = "put" => r.fd \in Monitor /\ ctl[c].at = "put") /\ r.at # "parsed" /\ r.at # "pause"
      /\ r.at # "new" /\ (r.at = "done" /\ r.i = 6 => ctl[c].at = "pause")
  BY <1>1, <1>2 DEF ControlInv, CtlOK
<1>6. on' \in [Monitor -> SUBSET Image] /\ \A m \in Monitor : on'[m] \subseteq on[m]
  <2>1. CASE ctl[c].at = "parsed"
    BY <2>1, CtlTypes DEF Alarm
  <2>2. CASE ctl[c].at # "parsed"
    BY <2>2, CtlTypes DEF Alarm, Handler
  <2>. QED
    BY <2>1, <2>2
<1>7. ASSUME NEW m \in Monitor, SoloOK(m, c) PROVE SoloOK(m, c)'
  <2>1. Visited(c) \subseteq Image
    BY CtlTypes DEF Visited
  <2>2. \A i \in Image : Passed(m, i)' <=> Passed(m, i)
    BY <1>1 DEF Passed
  <2>3. ASSUME ctl[c].at = "pause", mon[m].at \notin {"clean", "end"} PROVE on'[m] \cap ctl[c].imgs = {}
    <3>1. ctl[c].i = 6 /\ Visited(c) = ctl[c].imgs
      BY <2>3, CtlTypes DEF Visited, ControlInv, CtlOK
    <3>2. \A i \in ctl[c].imgs : i \in mon[m].opts /\ Passed(m, i)
      BY <1>7, <3>1 DEF SoloOK
    <3>3. mon[m].at = "new" => ctl[c].imgs = {}
      <4>1. \A i \in ctl[c].imgs : i \in Image /\ Pos[i] \in 1..5
        BY CtlTypes, Orders
      <4>2. mon[m].at = "new" => \A i \in ctl[c].imgs : ~Passed(m, i)
        BY <4>1 DEF Passed, ControlInv, MonOK
      <4>. QED
        BY <3>2, <4>2
    <3>4. mon[m].at # "new" => mon[m].at \in SettingUp \cup {"loop"}
      BY <2>3, MonTypes DEF MonAt, SettingUp
    <3>5. \A i \in ctl[c].imgs : pin[i] = m
      BY <1>7, <3>2, <3>3, <3>4 DEF SoloOK, ControlInv, PinsOK
    <3>6. \A i \in ctl[c].imgs : i \in Reached(c)
      BY <3>5, ReachedIs, ControlAssumption DEF ControlInv
    <3>7. on'[m] = on[m] \ {i \in Reached(c) : pin[i] = m}
      BY <2>3 DEF Alarm, Handler
    <3>. QED
      BY <3>5, <3>6, <3>7
  <2>4. ctl[c].at = "put" => CtlOrder[ctl[c].i] \in Image
    BY Orders DEF ControlInv, CtlOK
  <2>5. on'[m] \subseteq on[m]
    BY <1>6
  <2>. QED
    BY <1>1, <1>2, <1>3, <1>4, <1>5, <1>7, <2>1, <2>2, <2>3, <2>4, <2>5 DEF SoloOK, Img
<1>8. ~r.armed
  BY <1>2
<1>. QED
  BY <1>1, <1>2, <1>5, <1>6, <1>7, <1>8, CtlTypes, CtlFrame
-----------------------------------------------------------------------------
(* The theorems. *)

\* Every step of a run of controller keeps ControlInv, and so does every step of any program.
LEMMA ControlStep == ASSUME ControlInv, [Next]_vars PROVE ControlInv'
<1>1. CASE UNCHANGED vars
  <2>1. TypeOK' /\ MonOK' /\ CtlOK' /\ PinsOK' /\ RestartIsNotBlocked'
    BY <1>1 DEF ControlInv, vars, TypeOK, MonOK, CtlOK, PinsOK, RestartIsNotBlocked, Img, Alive, Passed
  <2>2. \A m \in Monitor, c \in Ctl : Solo(m, c)' => Solo(m, c)
    BY <1>1 DEF vars, Solo
  <2>3. \A m \in Monitor, c \in Ctl : SoloOK(m, c) => SoloOK(m, c)'
    BY <1>1 DEF vars, SoloOK, Visited, Passed, Img
  <2>. QED
    BY <2>1, <2>2, <2>3 DEF ControlInv
<1>. QED
  BY <1>1, MonitorSteps, CtlStartStep, CtlBeginStep, CtlGetStep, CtlPutStep, AlarmStep DEF Next, CtlRun

\* ControlInv is an invariant of proc_image and controller together.
THEOREM Inductive == Spec => []ControlInv
  BY ControlInit, ControlStep, PTL DEF Spec

\* Every variable keeps its type.
THEOREM TypeCorrect == Spec => []TypeOK
<1>1. ControlInv => TypeOK
  BY DEF ControlInv
<1>. QED
  BY <1>1, Inductive, PTL

\* A run of proc_image finds the path free when it pins (helpers.h:158-160), however the
\* runs before it ended, as long as runs do not overlap.
THEOREM RestartsAreNotBlocked == Spec => []RestartIsNotBlocked
<1>1. ControlInv => RestartIsNotBlocked
  BY DEF ControlInv
<1>. QED
  BY <1>1, Inductive, PTL

\* The controller reaches the run in its event loop, as long as runs do not overlap.
THEOREM LoopsAreReachable == Spec => []LoopIsReachable
<1>1. ControlInv => LoopIsReachable
  <2>. SUFFICES ASSUME ControlInv, NEW m \in Monitor, ~overlap, mon[m].at = "loop", NEW i \in mon[m].opts
                PROVE  pin[i] = m
    BY DEF LoopIsReachable
  <2>1. mon[m].i = 6 /\ Pos[i] \in 1..5
    BY MonTypes, Orders DEF ControlInv, MonOK
  <2>2. Passed(m, i)
    BY <2>1 DEF Passed
  <2>. QED
    BY <2>2 DEF ControlInv, PinsOK
<1>. QED
  BY <1>1, Inductive, PTL

\* A command that went through all its images holds: what was asked for is on, or, when its
\* time limit has passed, off (controller.c:224, 277); a command written before the
\* initialisation of a map (proc_image.c:832) is the one exception.
THEOREM CommandsHold == Spec => []CommandHolds
<1>1. ControlInv => CommandHolds
  <2>. SUFFICES ASSUME ControlInv, NEW m \in Monitor, NEW c \in Ctl, Alone(m, c), ctl[c].i = 6,
                       ctl[c].mode = "activate"
                PROVE  IF ctl[c].timed THEN on[m] \cap ctl[c].imgs = {}
                       ELSE c \in early \/ ctl[c].imgs \subseteq on[m]
    BY DEF CommandHolds
  <2>1. Solo(m, c)
    BY DEF Alone, Solo
  <2>2. SoloOK(m, c)
    BY <2>1 DEF ControlInv
  <2>3. Visited(c) = ctl[c].imgs
    BY CtlTypes DEF Visited
  <2>4. mon[m].at = "loop" /\ ctl[c].at = "done"
    BY DEF Alone
  <2>. QED
    BY <2>2, <2>3, <2>4 DEF SoloOK
<1>. QED
  BY <1>1, Inductive, PTL

\* What a command that stopped half way left on is within the reach of another with -d
\* (controller.c:250): it is switched off before that one stops.
THEOREM PartialCommandsAreUndone == Spec => []PartialCommandIsUndone
<1>1. ControlInv => PartialCommandIsUndone
  <2>. SUFFICES ASSUME ControlInv, NEW m \in Monitor, NEW c \in Ctl, Alone(m, c),
                       NEW i \in on[m] \cap ctl[c].imgs
                PROVE  i \in Reached(c)
    BY DEF PartialCommandIsUndone
  <2>1. Solo(m, c)
    BY DEF Alone, Solo
  <2>2. SoloOK(m, c)
    BY <2>1 DEF ControlInv
  <2>3. i \in Visited(c) /\ mon[m].at = "loop" /\ ~overlap
    BY <2>2 DEF SoloOK, Alone
  <2>4. ASSUME NEW k \in ctl[c].imgs, CPos[k] <= CPos[i] PROVE pin[k] # None
    <3>1. k \in Visited(c)
      BY <2>3, <2>4, CtlTypes DEF Visited
    <3>2. k \in mon[m].opts /\ Passed(m, k)
      BY <2>2, <3>1 DEF SoloOK
    <3>3. pin[k] = m
      BY <2>3, <3>2 DEF ControlInv, PinsOK
    <3>. QED
      BY <3>3, ControlAssumption
  <2>. QED
    BY <2>4, ReachedIs DEF ControlInv
<1>. QED
  BY <1>1, Inductive, PTL
=============================================================================
