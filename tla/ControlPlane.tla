---------------------------- MODULE ControlPlane ----------------------------
(***************************************************************************)
(* How proc_image and controller meet.  Every run of proc_image creates    *)
(* one control map for each of its images, pins it in bpffs under a fixed  *)
(* path, writes the deactivated value, attaches the programs, and unpins   *)
(* at its end.  A run of controller opens the path of each image it was    *)
(* asked for and writes the map it finds there, then may wait for an       *)
(* alarm that deactivates again.  Runs of both may overlap, fail half way  *)
(* or be killed; a pinned map outlives the process that made it.           *)
(***************************************************************************)
EXTENDS Naturals, Sequences

CONSTANTS
  Monitor,    \* runs of proc_image
  Ctl,        \* runs of controller
  RunOpts,    \* the sets of images a proc_image may be started with
  Asks,       \* the sets of images a controller may be asked for
  None        \* nothing is pinned at a path

\* The order main of proc_image.c sets images up and cleans them up in, and the
\* order controller.c goes through them.
SetupOrder == <<"resource", "syscall", "lock", "keytime", "schedule">>
CtlOrder   == <<"resource", "keytime", "lock", "syscall", "schedule">>
Image      == {"resource", "syscall", "lock", "keytime", "schedule"}

ASSUME ControlAssumption ==
  /\ RunOpts \subseteq SUBSET Image /\ Asks \subseteq SUBSET Image
  /\ None \notin Monitor

VARIABLES
  mon,      \* a run of proc_image: see Init
  pin,      \* [Image -> Monitor or None]: whose map is pinned at the path
  on,       \* [Monitor -> the images whose control map says func = true]
  ctl,      \* a run of controller: see Init
  overlap,  \* history: two runs of proc_image were alive at the same time
  early     \* history: controllers that wrote a map before its run initialised it

vars == <<mon, pin, on, ctl, overlap, early>>

\* The first position from k on, in this order, of an image in the set s, or 6.
From(order, s, k) ==
  CHOOSE j \in k..6 :
    /\ j = 6 \/ order[j] \in s
    /\ \A x \in k..(j - 1) : order[x] \notin s

\* mon[m].at is the next thing proc_image does for the image at mon[m].i;
\* found holds the images whose struct bpf_map pointer is set.
MonAt == {"new", "open", "load", "unpin", "pin", "init", "attach", "loop", "clean", "end"}
CtlAt == {"new", "parsed", "get", "put", "pause", "done"}
Alive(m) == mon[m].at \notin {"new", "end"}

Init ==
  /\ mon = [m \in Monitor |-> [at |-> "new", i |-> 1, opts |-> {}, found |-> {}]]
  /\ pin = [i \in Image |-> None]
  /\ on = [m \in Monitor |-> {}]
  /\ ctl = [c \in Ctl |-> [at |-> "new", i |-> 1, mode |-> "activate", imgs |-> {},
                           timed |-> FALSE, armed |-> FALSE, fd |-> None]]
  /\ overlap = FALSE /\ early = {}
-----------------------------------------------------------------------------
(* proc_image. *)

Img(m) == SetupOrder[mon[m].i]
Go(m, at) == mon' = [mon EXCEPT ![m] = [@ EXCEPT !.at = at]]

\* goto cleanup, with the images in order.
Cleanup(m) ==
  mon' = [mon EXCEPT ![m] = [@ EXCEPT !.at = "clean", !.i = From(SetupOrder, mon[m].opts, 1)]]

\* argp_parse; then the first image asked for is opened.
Start(m, opts) ==
  LET k == From(SetupOrder, opts, 1) IN
  /\ mon[m].at = "new"
  /\ mon' = [mon EXCEPT ![m] = [at |-> IF k = 6 THEN "loop" ELSE "open", i |-> k,
                                opts |-> opts, found |-> {}]]
  /\ overlap' = (overlap \/ \E n \in Monitor : Alive(n))
  /\ UNCHANGED <<pin, on, ctl, early>>

\* X_image_bpf__open; a failure returns 1 at once.
Open(m) ==
  /\ mon[m].at = "open"
  /\ Go(m, "load") \/ Go(m, "end")
  /\ UNCHANGED <<pin, on, ctl, overlap, early>>

\* X_image_bpf__load, bpf_object__find_map_by_name.
Load(m) ==
  /\ mon[m].at = "load"
  /\ \/ mon' = [mon EXCEPT ![m] = [@ EXCEPT !.at = "unpin", !.found = mon[m].found \cup {Img(m)}]]
     \/ Cleanup(m)
  /\ UNCHANGED <<pin, on, ctl, overlap, early>>

\* Variant: what is pinned at the path is left there.
UnpinSkipped(m) ==
  /\ mon[m].at = "unpin"
  /\ Go(m, "pin")
  /\ UNCHANGED <<pin, on, ctl, overlap, early>>

\* bpf_map__unpin in common_pin_map: whatever map the path names.
Unpin(m) ==
  /\ mon[m].at = "unpin"
  /\ pin' = [pin EXCEPT ![Img(m)] = None]
  /\ Go(m, "pin")
  /\ UNCHANGED <<on, ctl, overlap, early>>

\* Variant: the result of bpf_map__pin is not looked at.
PinUnchecked(m) ==
  /\ mon[m].at = "pin"
  /\ pin' \in {pin, [pin EXCEPT ![Img(m)] = IF @ = None THEN m ELSE @]}
  /\ Go(m, "init")
  /\ UNCHANGED <<on, ctl, overlap, early>>

\* bpf_map__pin: it fails when the path exists, or for reasons of bpffs.
Pin(m) ==
  /\ mon[m].at = "pin"
  /\ \/ /\ pin[Img(m)] = None
        /\ pin' = [pin EXCEPT ![Img(m)] = m]
        /\ Go(m, "init")
     \/ Cleanup(m) /\ UNCHANGED pin
  /\ UNCHANGED <<on, ctl, overlap, early>>

\* bpf_map_update_elem of init_value.
InitMap(m) ==
  /\ mon[m].at = "init"
  /\ \/ on' = [on EXCEPT ![m] = @ \ {Img(m)}] /\ Go(m, "attach")
     \/ Cleanup(m) /\ UNCHANGED on
  /\ UNCHANGED <<pin, ctl, overlap, early>>

\* Variant: the map is initialised again once the programs are attached.
AttachInits(m) ==
  LET k == From(SetupOrder, mon[m].opts, mon[m].i + 1) IN
  /\ mon[m].at = "attach"
  /\ \/ /\ mon' = [mon EXCEPT ![m] = [@ EXCEPT !.at = IF k = 6 THEN "loop" ELSE "open", !.i = k]]
        /\ on' = [on EXCEPT ![m] = @ \ {Img(m)}]
     \/ Cleanup(m) /\ UNCHANGED on
  /\ UNCHANGED <<pin, ctl, overlap, early>>

\* X_image_bpf__attach and ring_buffer__new; then the next image, or the loop.
Attach(m) ==
  LET k == From(SetupOrder, mon[m].opts, mon[m].i + 1) IN
  /\ mon[m].at = "attach"
  /\ \/ mon' = [mon EXCEPT ![m] = [@ EXCEPT !.at = IF k = 6 THEN "loop" ELSE "open", !.i = k]]
     \/ Cleanup(m)
  /\ UNCHANGED <<pin, on, ctl, overlap, early>>

\* The event loop ends: SIGINT, or an error in a print or a poll.
LoopEnd(m) ==
  /\ mon[m].at = "loop"
  /\ Cleanup(m)
  /\ UNCHANGED <<pin, on, ctl, overlap, early>>

\* cleanup of one image: bpf_map__unpin removes the path, whatever map it names by
\* now; with a null map pointer it does nothing.
Clean(m) ==
  /\ mon[m].at = "clean"
  /\ IF mon[m].i = 6
     THEN Go(m, "end") /\ UNCHANGED pin
     ELSE /\ mon' = [mon EXCEPT ![m] = [@ EXCEPT !.i = From(SetupOrder, mon[m].opts, mon[m].i + 1)]]
          /\ pin' = IF Img(m) \in mon[m].found THEN [pin EXCEPT ![Img(m)] = None] ELSE pin
  /\ UNCHANGED <<on, ctl, overlap, early>>

\* proc_image dies without cleanup: the exit(EXIT_FAILURE) of its loop, a signal.
Die(m) ==
  /\ Alive(m)
  /\ Go(m, "end")
  /\ UNCHANGED <<pin, on, ctl, overlap, early>>
-----------------------------------------------------------------------------
(* controller. *)

\* parse_arg.  case 's' falls through into case 'S'.
ImagesOf(asked) == asked \cup (IF "syscall" \in asked THEN {"schedule"} ELSE {})

\* argp_parse; -t arms the alarm.
CtlStart(c, mode, asked, timed) ==
  /\ ctl[c].at = "new"
  /\ ctl' = [ctl EXCEPT ![c] = [at |-> "parsed", i |-> 1, mode |-> mode,
                                imgs |-> ImagesOf(asked), timed |-> timed, armed |-> timed,
                                fd |-> None]]
  /\ UNCHANGED <<mon, pin, on, overlap, early>>

\* Goes on at position k; after the last image, pause() or the end.
Proceed(c, k) ==
  [ctl EXCEPT ![c] = [@ EXCEPT
     !.i = k, !.fd = None,
     !.at = IF k # 6 THEN "get"
            ELSE IF ctl[c].mode = "activate" /\ ctl[c].timed THEN "pause" ELSE "done"]]

\* The handlers are installed and the mode is looked at; -f kills every proc_image.
CtlBegin(c) ==
  /\ ctl[c].at = "parsed"
  /\ IF ctl[c].mode = "finish"
     THEN /\ ctl' = [ctl EXCEPT ![c] = [@ EXCEPT !.at = "done"]]
          /\ mon' = [m \in Monitor |-> IF Alive(m) THEN [mon[m] EXCEPT !.at = "end"] ELSE mon[m]]
     ELSE /\ ctl' = Proceed(c, From(CtlOrder, ctl[c].imgs, 1))
          /\ UNCHANGED mon
  /\ UNCHANGED <<pin, on, overlap, early>>

\* bpf_obj_get; without a pinned map the controller returns the error.
CtlGet(c) ==
  LET p == pin[CtlOrder[ctl[c].i]] IN
  /\ ctl[c].at = "get"
  /\ ctl' = [ctl EXCEPT ![c] = [@ EXCEPT !.at = IF p = None THEN "done" ELSE "put", !.fd = p]]
  /\ UNCHANGED <<mon, pin, on, overlap, early>>

\* bpf_map_update_elem, on the map opened before.
CtlPut(c) ==
  LET i == CtlOrder[ctl[c].i] IN
  /\ ctl[c].at = "put"
  /\ on' = [on EXCEPT ![ctl[c].fd] =
              IF ctl[c].mode = "activate" THEN @ \cup {i} ELSE @ \ {i}]
  /\ ctl' = Proceed(c, From(CtlOrder, ctl[c].imgs, ctl[c].i + 1))
  /\ early' = IF mon[ctl[c].fd].at = "init" /\ Img(ctl[c].fd) = i
              THEN early \cup {c} ELSE early
  /\ UNCHANGED <<mon, pin, overlap>>

\* Variant: deactivate_mode goes through the images in the order proc_image does.
ReachedOtherOrder(c) ==
  {SetupOrder[j] : j \in {x \in 1..5 : /\ SetupOrder[x] \in ctl[c].imgs
                                       /\ \A y \in 1..x : SetupOrder[y] \in ctl[c].imgs =>
                                                            pin[SetupOrder[y]] # None}}

\* deactivate_mode, also in the signal handler: it stops at the first missing path.
Reached(c) ==
  {CtlOrder[j] : j \in {x \in 1..5 : /\ CtlOrder[x] \in ctl[c].imgs
                                     /\ \A y \in 1..x : CtlOrder[y] \in ctl[c].imgs =>
                                                          pin[CtlOrder[y]] # None}}

Handler(c) ==
  on' = [m \in Monitor |-> on[m] \ {i \in Reached(c) : pin[i] = m}]

\* SIGALRM.  Before signal() was called it kills the controller; in pause() it
\* ends the wait; anywhere else the interrupted code goes on after the handler.
Alarm(c) ==
  /\ ctl[c].armed /\ ctl[c].at # "done"
  /\ ctl' = [ctl EXCEPT ![c] = [@ EXCEPT
                !.armed = FALSE, !.at = IF ctl[c].at \in {"parsed", "pause"} THEN "done" ELSE ctl[c].at]]
  /\ IF ctl[c].at = "parsed" THEN UNCHANGED on ELSE Handler(c)
  /\ UNCHANGED <<mon, pin, overlap, early>>
-----------------------------------------------------------------------------
MonitorStep(m) ==
  \/ \E opts \in RunOpts : Start(m, opts)
  \/ Open(m) \/ Load(m) \/ Unpin(m) \/ Pin(m) \/ InitMap(m) \/ Attach(m)
  \/ LoopEnd(m) \/ Clean(m) \/ Die(m)

CtlRun(c) == CtlBegin(c) \/ CtlGet(c) \/ CtlPut(c)

Next ==
  \/ \E m \in Monitor : MonitorStep(m)
  \/ \E c \in Ctl :
       \/ \E mode \in {"activate", "deactivate", "finish"}, asked \in Asks, timed \in BOOLEAN :
            CtlStart(c, mode, asked, timed)
       \/ CtlRun(c)
       \/ Alarm(c)

\* A controller that runs is scheduled, and an armed alarm goes off.
Spec == Init /\ [][Next]_vars /\ \A c \in Ctl : WF_vars(CtlRun(c)) /\ WF_vars(Alarm(c))
-----------------------------------------------------------------------------
(* Properties. *)

TypeOK ==
  /\ mon \in [Monitor -> [at : MonAt, i : 1..6, opts : SUBSET Image, found : SUBSET Image]]
  /\ pin \in [Image -> Monitor \cup {None}]
  /\ on \in [Monitor -> SUBSET Image]
  /\ ctl \in [Ctl -> [at : CtlAt, i : 1..6, mode : {"activate", "deactivate", "finish"},
                      imgs : SUBSET Image, timed : BOOLEAN,
                      armed : BOOLEAN, fd : Monitor \cup {None}]]
  /\ overlap \in BOOLEAN /\ early \subseteq Ctl

\* A run of proc_image that was killed, or that returned early, leaves its pins.
\* The next run is not stopped by them: when it pins, the path is free
\* (helpers.h:158-160).
RestartIsNotBlocked ==
  \A m \in Monitor : ~overlap /\ mon[m].at = "pin" => pin[Img(m)] = None

\* As long as runs of proc_image do not overlap, the one in its event loop is the
\* one the controller reaches, for every image it was started with.
LoopIsReachable ==
  \A m \in Monitor : ~overlap /\ mon[m].at = "loop" =>
    \A i \in mon[m].opts : pin[i] = m

\* m is the only run of proc_image so far and in its event loop, c the only controller.
Alone(m, c) ==
  /\ mon[m].at = "loop" /\ \A n \in Monitor \ {m} : mon[n].at = "new"
  /\ ctl[c].at = "done" /\ \A d \in Ctl \ {c} : ctl[d].at = "new"

\* A controller that went through all its images leaves each of them switched on, or,
\* with a time limit that has passed (controller.c:224, 277), each of them switched off.
\* Nothing proc_image does takes that back, unless the controller wrote a map between
\* its pinning and its initialisation (proc_image.c:832): that command alone is lost.
CommandHolds ==
  \A m \in Monitor, c \in Ctl :
    Alone(m, c) /\ ctl[c].i = 6 /\ ctl[c].mode = "activate" =>
      IF ctl[c].timed THEN on[m] \cap ctl[c].imgs = {}
      ELSE c \in early \/ ctl[c].imgs \subseteq on[m]

\* A controller that stopped at a missing map leaves images on (controller.c:250).
\* Another with the same images and -d stops there as well, but not before it has
\* switched those off.
PartialCommandIsUndone ==
  \A m \in Monitor, c \in Ctl : Alone(m, c) => on[m] \cap ctl[c].imgs \subseteq Reached(c)

\* README.md:52: -t sets the longest time the collection runs.  A controller with
\* a time limit that has come to its pause() ends.
TimeLimitEnds == \A c \in Ctl : ctl[c].at = "pause" ~> ctl[c].at = "done"
=============================================================================
