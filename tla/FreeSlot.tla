------------------------------ MODULE FreeSlot ------------------------------
(***************************************************************************)
(* What a claim does to the rooms of a phone's ledger when the phone may   *)
(* use one machine for free: the abstraction of claimRoom                  *)
(* (relay/src/phoneLedger.ts) that module FreeTier runs on and that module *)
(* PhoneLedger compares with the ledger as it is stored.                   *)
(***************************************************************************)

\* A fault: a takeover adds this room and tells, but forgets to drop the others.
ClaimRoomFault(rooms, r, licensed, takeover) ==
  IF licensed
  THEN [res |-> "ok", next |-> rooms \ {r}, todo |-> rooms \cap {r}]
  ELSE IF takeover
  THEN [res |-> "ok", next |-> rooms \cup {r}, todo |-> rooms \ {r}]
  ELSE IF r \in rooms \/ rooms = {}
  THEN [res |-> "ok", next |-> rooms \cup {r}, todo |-> {}]
  ELSE [res |-> "limit", next |-> rooms, todo |-> {}]

\* claimRoom: what the ledger answers, becomes, and whom it must tell first.
ClaimRoom(rooms, r, licensed, takeover) ==
  IF licensed
  THEN [res |-> "ok", next |-> rooms \ {r}, todo |-> rooms \cap {r}]
  ELSE IF takeover
  THEN [res |-> "ok", next |-> {r}, todo |-> rooms \ {r}]
  ELSE IF r \in rooms \/ rooms = {}
  THEN [res |-> "ok", next |-> rooms \cup {r}, todo |-> {}]
  ELSE [res |-> "limit", next |-> rooms, todo |-> {}]

=============================================================================
