--------------------------- MODULE MCKeytimeImage ---------------------------
(* KeytimeImage over three pids. *)
EXTENDS KeytimeImage, TLC

\* Off, and on for everyone.
OffAndOn == {Off, [kt_func |-> TRUE, watch |-> Pid]}

\* All pids but that of Root are alike.
PidSymmetry == Permutations(Pid \ {Root})
=============================================================================
