--------------------------- MODULE MCTimerThread ---------------------------
(* TimerThread with a handful of threads and both periodic images. *)
EXTENDS TimerThread

MCImage == {"resource", "schedule"}
=============================================================================
