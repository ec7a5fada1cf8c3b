--------------------------- MODULE MCTopSyscalls ----------------------------
(* TopSyscalls with five system call numbers. *)
EXTENDS TopSyscalls

MCSys == 0..4
=============================================================================
