--------------------------- MODULE PeriodicOutput ---------------------------
(***************************************************************************)
(* The periodic images of proc_image as their user knows them (README.md,  *)
(* -r and -S): time and again a table is asked for and, if the image is    *)
(* switched on, printed; one table at a time; until the program ends.      *)
(* Nothing here says how the requests are timed or by whom they are made.  *)
(***************************************************************************)
CONSTANT Image

VARIABLES
  asked,     \* the images a table is asked of
  printing,  \* the image whose table is being printed, if any
  on,        \* the images that are switched on
  running    \* the program has not ended

vars == <<asked, printing, on, running>>

Init == asked = {} /\ printing = {} /\ on = {} /\ running = TRUE

\* A second is over.  To ask for a table that is still due, or just being printed,
\* changes nothing.
Ask(i) ==
  /\ running
  /\ asked' = asked \cup {i}
  /\ UNCHANGED <<printing, on, running>>

Begin(i) ==
  /\ running /\ printing = {} /\ i \in asked \cap on
  /\ printing' = {i}
  /\ UNCHANGED <<asked, on, running>>

\* The table is complete, and the request with it.
End(i) ==
  /\ running /\ printing = {i}
  /\ printing' = {}
  /\ asked' = asked \ {i}
  /\ UNCHANGED <<on, running>>

\* The controller; a table that is being printed is not cut short.
Switch(i) ==
  /\ running
  /\ on' \in {on \cup {i}, on \ {i}}
  /\ UNCHANGED <<asked, printing, running>>

\* The program ends, in the middle of a table perhaps.
Stop ==
  /\ running
  /\ running' = FALSE /\ printing' = {}
  /\ UNCHANGED <<asked, on>>

Next == Stop \/ \E i \in Image : Ask(i) \/ Begin(i) \/ End(i) \/ Switch(i)

Safety == Init /\ [][Next]_vars

\* An image that stays switched on is printed again and again until the program ends.
OutputKeepsComing ==
  \A i \in Image : <>[](i \in on) => ([]<>(i \in printing) \/ <>~running)

Spec == Safety /\ OutputKeepsComing
=============================================================================
