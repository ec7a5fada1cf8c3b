--------------------------- MODULE MCControlPlane ---------------------------
(* ControlPlane with a few runs of each program and a few sets of options. *)
EXTENDS ControlPlane

\* proc_image with two images, one of them in common.
TwoRunOpts == {{"resource", "schedule"}, {"keytime", "schedule"}}
\* proc_image -a, and with the system calls only.
AllOrSyscall == {Image, {"syscall"}}
\* controller for two images, and for two that it goes through in another order than
\* proc_image; the system calls bring the schedule image with them.
MCAsks == {{"resource", "schedule"}, {"keytime", "syscall"}}
=============================================================================
