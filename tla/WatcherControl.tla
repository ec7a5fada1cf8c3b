--------------------------- MODULE WatcherControl ---------------------------
(***************************************************************************)
(* The control map of one watcher of cpu_watcher: set up and pinned by     *)
(* main, read (and, to note that the table's head was printed, written     *)
(* back) by the printers of sar and schedule_delay, written by the         *)
(* controller through its path.  The instances of the tool run with the    *)
(* same option, at the same time or after each other.  SIGALRM, which -t   *)
(* asks for, has no handler and kills.                                     *)
(***************************************************************************)
EXTENDS Naturals

CONSTANTS
  Tool,      \* instances of cpu_watcher
  MaxCmds,   \* bound: commands in a behaviour
  None

VARIABLES
  opt,       \* "cs"; "rb" for sc, preempt and mq; "table" for sar and schedule_delay
  tool,      \* [Tool -> where it is]
  map,       \* [Tool -> [func, head]]: its control map
  path,      \* the tool whose map is pinned, or None
  ctl,       \* the controller: None, or a command on its way to a map it has opened
  cmds,      \* commands so far
  last,      \* history: [Tool -> the last command its map got]
  overtaken, \* history: tools that wrote their map with what was there before last
  between    \* history: tools that lost the path between their unpin and their pin

vars == <<opt, tool, map, path, ctl, cmds, last, overtaken, between>>

At == {"new", "loaded", "unpinned", "pinned", "ready", "loop", "head", "refused", "gone"}

\* A bare map holds zeros.
Init ==
  /\ opt \in {"cs", "rb", "table"}
  /\ tool = [t \in Tool |-> "new"]
  /\ map = [t \in Tool |-> [func |-> FALSE, head |-> FALSE]]
  /\ path = None /\ ctl = None /\ cmds = 0
  /\ last = [t \in Tool |-> None] /\ overtaken = {} /\ between = {}

To(t, at) == tool' = [tool EXCEPT ![t] = at]
-----------------------------------------------------------------------------
(* main. *)

\* The skeleton is opened and loaded, or the tool ends with nothing pinned.
Load(t) ==
  /\ tool[t] = "new"
  /\ To(t, "loaded") \/ To(t, "gone")
  /\ UNCHANGED <<opt, map, path, ctl, cmds, last, overtaken, between>>

\* Variant: an old path is left to the pin.
UnpinSkipped(t) ==
  /\ tool[t] = "loaded" /\ To(t, "unpinned")
  /\ UNCHANGED <<opt, map, path, ctl, cmds, last, overtaken, between>>

\* common_pin_map unlinks the path, whoever pinned it.
Unpin(t) ==
  /\ tool[t] = "loaded" /\ To(t, "unpinned")
  /\ path' = None
  /\ UNCHANGED <<opt, map, ctl, cmds, last, overtaken, between>>

\* Its pin fails if the path is there; then the clean-up of main unlinks that.
Pin(t) ==
  /\ tool[t] = "unpinned"
  /\ IF path = None
     THEN /\ path' = t /\ To(t, "pinned")
          /\ between' = between \cup {u \in Tool : tool[u] = "unpinned" /\ u # t}
     ELSE path' = None /\ To(t, "refused") /\ UNCHANGED between
  /\ UNCHANGED <<opt, map, ctl, cmds, last, overtaken>>

\* init_value: off, the head to be printed.  A command that was there is gone.
InitMap(t) ==
  /\ tool[t] = "pinned" /\ To(t, "ready")
  /\ map' = [map EXCEPT ![t] = [func |-> FALSE, head |-> TRUE]]
  /\ overtaken' = IF last[t] # None THEN overtaken \cup {t} ELSE overtaken
  /\ UNCHANGED <<opt, path, ctl, cmds, last, between>>

\* The programs are attached, the ring buffer made, or the clean-up of the option unpins.
Attach(t) ==
  /\ tool[t] = "ready"
  /\ \/ To(t, "loop") /\ UNCHANGED path
     \/ To(t, "gone") /\ path' = None
  /\ UNCHANGED <<opt, map, ctl, cmds, last, overtaken, between>>

\* print_all or schedule_print finds a table that has no head yet.
ReadMap(t) ==
  /\ opt = "table" /\ tool[t] = "loop"
  /\ map[t].func /\ map[t].head
  /\ To(t, "head")
  /\ UNCHANGED <<opt, map, path, ctl, cmds, last, overtaken, between>>

\* Variant: the head is noted in a fresh value.
NotedOff(t) == [func |-> FALSE, head |-> FALSE]

\* The value read before, with prev_watcher changed.
Noted(t) == [func |-> TRUE, head |-> FALSE]

WriteBack(t) ==
  /\ tool[t] = "head" /\ To(t, "loop")
  /\ map' = [map EXCEPT ![t] = Noted(t)]
  /\ UNCHANGED <<opt, path, ctl, cmds, last, overtaken, between>>

\* Behind the loop every option runs into cs_delay_cleanup: the path of cs is unlinked,
\* those of the others stay.
AfterLoop == IF opt = "cs" THEN None ELSE path

\* SIGINT or SIGTERM, also from controller -f, or an error in the loop.
End(t) ==
  /\ tool[t] = "loop" /\ To(t, "gone")
  /\ path' = AfterLoop
  /\ UNCHANGED <<opt, map, ctl, cmds, last, overtaken, between>>

Kill(t) ==
  /\ tool[t] \notin {"new", "gone", "refused"} /\ To(t, "gone")
  /\ UNCHANGED <<opt, map, path, ctl, cmds, last, overtaken, between>>
-----------------------------------------------------------------------------
(* controller -a and -u. *)

\* bpf_obj_get; without a path the controller fails and nothing changes.
Open(on) ==
  /\ ctl = None /\ cmds < MaxCmds /\ path # None
  /\ ctl' = [fd |-> path, on |-> on]
  /\ cmds' = cmds + 1
  /\ UNCHANGED <<opt, tool, map, path, last, overtaken, between>>

\* bpf_map_update_elem, also when the tool is gone meanwhile.
Write ==
  /\ ctl # None /\ ctl' = None
  /\ map' = [map EXCEPT ![ctl.fd] = [func |-> ctl.on, head |-> ctl.on]]
  /\ last' = [last EXCEPT ![ctl.fd] = ctl.on]
  /\ overtaken' = IF tool[ctl.fd] = "head" THEN overtaken \cup {ctl.fd} ELSE overtaken \ {ctl.fd}
  /\ UNCHANGED <<opt, tool, path, cmds, between>>

Next ==
  \/ Write
  \/ \E on \in BOOLEAN : Open(on)
  \/ \E t \in Tool : Load(t) \/ Unpin(t) \/ Pin(t) \/ InitMap(t) \/ Attach(t)
                     \/ ReadMap(t) \/ WriteBack(t) \/ End(t) \/ Kill(t)
-----------------------------------------------------------------------------
(* Properties. *)

TypeOK ==
  /\ opt \in {"cs", "rb", "table"} /\ tool \in [Tool -> At]
  /\ map \in [Tool -> [func : BOOLEAN, head : BOOLEAN]]
  /\ path \in Tool \cup {None} /\ cmds \in 0..MaxCmds
  /\ ctl \in [fd : Tool, on : BOOLEAN] \cup {None}
  /\ last \in [Tool -> BOOLEAN \cup {None}]
  /\ overtaken \subseteq Tool /\ between \subseteq Tool

\* A watcher is on or off as the last command said, and off if there was none, unless the
\* command came between the pin and the initialisation of the map or between the read and
\* the write-back of the printer (cpu_watcher.c:278, 589, 749).
CommandIsKept ==
  \A t \in Tool : tool[t] \in {"ready", "loop"} /\ t \notin overtaken =>
    (map[t].func <=> last[t] = TRUE)

\* What an earlier instance left behind never keeps the tool from starting, only one that
\* pins between its unpin and its pin (cpu_watcher_helper.h:88).
PinIsFree == \A t \in Tool : tool[t] = "refused" => t \in between
=============================================================================
