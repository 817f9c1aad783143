---------------------------- MODULE MCApprovals ----------------------------
(* Small instances of Approvals for TLC.                                   *)
EXTENDS Approvals, TLC

CONSTANTS ka, kb, q1, q2

MCCalls == {1, 2}
MCKeys1 == {ka}
MCEqual == [c \in MCCalls |-> ka]              \* two equal calls
MCKeyMapsEqual == {MCEqual}
MCSubA == {ka}                                 \* those of ka are a subagent's
MCReq2 == {q1, q2}

MCSymmetry == Permutations(Requests)

\* The call of a request that never came is not seen.
MCOf == [r \in Requests |-> IF req[r] = "idle" THEN 0 ELSE of[r]]

\* What is told to phones bears on no other action, and the property does not
\* speak of it.
MCView == <<claudeVars, entry, MCOf, req, old, quiet, promoted, tm, cont, sweepVars, label, seen>>

=============================================================================
