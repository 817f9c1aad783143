----------------------------- MODULE MCLedgers -----------------------------
(* The free tier and the ledger behind it, side by side: a behaviour is    *)
(* one of the free tier (two machines, one phone, two wires) or one of a   *)
(* phone's ledger (three rooms, limits 1 and 3).                           *)
EXTENDS FreeTier, TLC

CONSTANTS
  p1, r1, r2, w1, w2,
  LedgerRooms, Limits, RoomsMax, IdleTime, MaxTime   \* PhoneLedger's

VARIABLES part, clock, max, stored, passed, used

MCPhones == {p1}
MCRooms2 == {r1, r2}
MCWires2 == {w1, w2}

PhoneLedger == INSTANCE PhoneLedger WITH
  Rooms <- LedgerRooms, Limits <- Limits, RoomsMax <- RoomsMax, IdleTime <- IdleTime

ASSUME LedgerAssumption == PhoneLedger!PhoneLedgerAssumption

ledgerVars == <<clock, max, stored, passed, used>>

MCInit ==
  /\ part \in {"free tier", "ledger"}
  /\ Init /\ PhoneLedger!Init
  /\ part = "free tier" => max = 1
  /\ part = "ledger" => of = [w \in Wires |-> p1] /\ at = [w \in Wires |-> r1]

MCNext ==
  \/ part = "free tier" /\ Next /\ UNCHANGED <<part, ledgerVars>>
  \/ part = "ledger" /\ PhoneLedger!Next /\ UNCHANGED <<part, vars>>

\* No claim is under way beside a ledger's behaviour: Fairness asks nothing of it.
MCSpec == MCInit /\ [][MCNext]_<<part, vars, ledgerVars>> /\ Fairness

(* What a wire can still do, and nothing else: the fields of a wire that   *)
(* is out and waits for nothing are dead, the takeover flag is read once,  *)
(* and a stale mark matters to a free claim only.                          *)
MCWireView(w) ==
  CASE st[w] = "out" /\ rpc[w] = "none" -> <<"unused">>
    [] st[w] = "out" /\ rpc[w] # "none" -> <<of[w], at[w], asked[w], rpc[w],
         take[w] /\ rpc[w] = "queued">>
    [] st[w] = "asking" -> <<of[w], at[w], asked[w], rpc[w], tries[w],
         take[w] /\ rpc[w] = "queued", stale[w] /\ ~asked[w]>>
    [] OTHER -> <<of[w], at[w], st[w], free[w]>>

MCView == <<[w \in Wires |-> MCWireView(w)], paid, ledger, job, part, ledgerVars>>

-----------------------------------------------------------------------------
\* No more rooms than the limit are used for free at a time; a room that was
\* let through lately and not told otherwise keeps its place, and ages from
\* the last time it was let through.  With a limit of one the ledger answers,
\* tells and keeps what the free tier's specification takes it to
\* (phoneLedger.ts claimRoom).
InUseKept ==
  /\ PhoneLedger!WithinLimit /\ PhoneLedger!InUseKept /\ PhoneLedger!AgesFromUse
  /\ PhoneLedger!SlotOfFreeTier
=============================================================================
