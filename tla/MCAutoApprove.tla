--------------------------- MODULE MCAutoApprove ---------------------------
(* Small instances of AutoApprove for TLC.                                 *)
EXTENDS AutoApprove, TLC

CONSTANTS s1, s2, o1, o2

MCSessions1 == {s1}
MCOps == {o1, o2}
MCLengths == {1, 2}

=============================================================================
