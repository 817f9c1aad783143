---------------------------- MODULE PhoneLedger ----------------------------
(***************************************************************************)
(* The ledger of one phone as it is stored (relay/src/phoneLedger.ts and   *)
(* the class Phones of relay/src/worker.ts): for each room used on the     *)
(* free tier, when it was first claimed and when it was last let through.  *)
(*                                                                         *)
(* Module FreeTier follows claims across rooms under a limit of one        *)
(* machine, on sets of rooms (FreeSlot).  Here one claim is one step, and  *)
(* what FreeTier leaves out is kept: times, pruning, the order among       *)
(* several rooms, and a limit that a new version of the relay changes.     *)
(*                                                                         *)
(* Simplification: what is stored was written by claimRoom, so the values  *)
(* readPhoneLedger drops as broken do not occur.                           *)
(***************************************************************************)
EXTENDS Naturals, FiniteSets, Functions, FreeSlot

CONSTANTS
  Rooms,      \* room keys, as numbers: keys are ordered
  Limits,     \* FREE_MACHINES_PER_PHONE, in the versions of the relay
  RoomsMax,   \* PHONE_ROOMS_MAX
  IdleTime,   \* PHONE_IDLE_MS
  MaxTime,    \* bound: the clock stops here
  None

PhoneLedgerAssumption ==
  /\ Rooms \subseteq Nat /\ Limits \subseteq Nat \ {0}
  /\ RoomsMax \in Nat \ {0} /\ IdleTime \in Nat /\ MaxTime \in Nat
  /\ None \notin Nat

VARIABLES
  clock,
  max,      \* the limit of the version deployed
  stored,   \* the ledger: a function on the rooms in it
  passed,   \* history: rooms let through for free by this version, not refused since
  used      \* history: when a room was last let through for free, or None

vars == <<clock, max, stored, passed, used>>

Times == 0..MaxTime
PhoneRoom == [first : Times, last : Times]
NoRoom == [r \in {} |-> 0]

TypeOK ==
  /\ clock \in Times
  /\ max \in Limits
  /\ stored \in UNION {[S -> PhoneRoom] : S \in SUBSET Rooms}
  /\ Cardinality(DOMAIN stored) <= RoomsMax
  /\ \A r \in DOMAIN stored : stored[r].first <= stored[r].last
  /\ passed \subseteq Rooms
  /\ used \in [Rooms -> Times \cup {None}]

Init ==
  /\ clock = 0
  /\ max \in Limits
  /\ stored = NoRoom
  /\ passed = {}
  /\ used = [r \in Rooms |-> None]

-----------------------------------------------------------------------------
(* Claims.                                                                 *)

Keep(led, rooms) == Restrict(led, rooms)
With(led, r, e) == [k \in DOMAIN led \cup {r} |-> IF k = r THEN e ELSE led[k]]

\* A fault: rooms age from their first claim.
PruneFault(led, now) == Keep(led, {r \in DOMAIN led : now - led[r].first <= IdleTime})

\* prunePhoneLedger
Prune(led, now) == Keep(led, {r \in DOMAIN led : now - led[r].last <= IdleTime})

\* The place of room r, by age and then by key.
Rank(led, r) ==
  Cardinality({k \in DOMAIN led : \/ led[k].first < led[r].first
                                  \/ led[k].first = led[r].first /\ k < r})

\* A fault: a room that is in the ledger always passes.
PlainFault(led, r, now, limit) ==
  IF r \in DOMAIN led \/ (Cardinality(DOMAIN led) < limit /\ Cardinality(DOMAIN led) < RoomsMax)
  THEN [ok |-> TRUE, told |-> {},
        led |-> With(led, r, [first |-> IF r \in DOMAIN led THEN led[r].first ELSE now,
                              last |-> now])]
  ELSE [ok |-> FALSE, told |-> {}, led |-> led]

\* A fault: being refused counts as use.
TouchedFault(led, r, now, limit) ==
  LET n == Cardinality(DOMAIN led)
      may == IF r \in DOMAIN led THEN Rank(led, r) < limit ELSE n < limit /\ n < RoomsMax
      first == IF r \in DOMAIN led THEN led[r].first ELSE now
  IN [ok |-> may, told |-> {},
      led |-> IF may \/ r \in DOMAIN led THEN With(led, r, [first |-> first, last |-> now])
              ELSE led]

\* A fault: only the plan limits the ledger.
UncappedFault(led, r, now, limit) ==
  LET n == Cardinality(DOMAIN led)
      may == IF r \in DOMAIN led THEN Rank(led, r) < limit ELSE n < limit
      first == IF r \in DOMAIN led THEN led[r].first ELSE now
  IN [ok |-> may, told |-> {},
      led |-> IF may THEN With(led, r, [first |-> first, last |-> now]) ELSE led]

\* A free claim without a takeover: the oldest rooms pass, a new one if there is space.
Plain(led, r, now, limit) ==
  LET n == Cardinality(DOMAIN led)
      may == IF r \in DOMAIN led THEN Rank(led, r) < limit ELSE n < limit /\ n < RoomsMax
      first == IF r \in DOMAIN led THEN led[r].first ELSE now
  IN [ok |-> may, told |-> {},
      led |-> IF may THEN With(led, r, [first |-> first, last |-> now]) ELSE led]

\* A fault: a takeover leaves the other rooms in the ledger.
claimRoomFault(prev, r, licensed, takeover, now, limit) ==
  LET led == Prune(prev, now)
      first == IF r \in DOMAIN led THEN led[r].first ELSE now
  IN
  IF licensed THEN [ok |-> TRUE, told |-> DOMAIN led \cap {r}, led |-> Keep(led, DOMAIN led \ {r})]
  ELSE IF takeover THEN [ok |-> TRUE, told |-> DOMAIN led \ {r},
                         led |-> With(led, r, [first |-> first, last |-> now])]
  ELSE Plain(led, r, now, limit)

\* claimRoom: the answer, the rooms told before the ledger is written, and the ledger.
claimRoom(prev, r, licensed, takeover, now, limit) ==
  LET led == Prune(prev, now)
      first == IF r \in DOMAIN led THEN led[r].first ELSE now
  IN
  IF licensed THEN [ok |-> TRUE, told |-> DOMAIN led \cap {r}, led |-> Keep(led, DOMAIN led \ {r})]
  ELSE IF takeover THEN [ok |-> TRUE, told |-> DOMAIN led \ {r},
                         led |-> With(NoRoom, r, [first |-> first, last |-> now])]
  ELSE Plain(led, r, now, limit)

-----------------------------------------------------------------------------
(* Phones.claim, in one step: told rooms no longer rely on the ledger.     *)
Claim(r, licensed, takeover) ==
  LET c == claimRoom(stored, r, licensed, takeover, clock, max)
      free == c.ok /\ ~licensed
  IN
  /\ stored' = c.led
  /\ passed' = IF free THEN (passed \ c.told) \cup {r}
               ELSE IF licensed THEN passed \ c.told ELSE passed \ {r}
  /\ used' = [k \in Rooms |-> IF k \in c.told THEN None
                              ELSE IF k = r /\ free THEN clock ELSE used[k]]
  /\ UNCHANGED <<clock, max>>

\* A new version of the relay has another limit; wires do not outlive the deployment.
Deploy(limit) ==
  /\ limit # max
  /\ max' = limit
  /\ passed' = {}
  /\ UNCHANGED <<clock, stored, used>>

Tick ==
  /\ clock < MaxTime
  /\ clock' = clock + 1
  /\ UNCHANGED <<max, stored, passed, used>>

Next ==
  \/ \E r \in Rooms, licensed, takeover \in BOOLEAN : Claim(r, licensed, takeover)
  \/ \E limit \in Limits : Deploy(limit)
  \/ Tick

Spec == Init /\ [][Next]_vars

-----------------------------------------------------------------------------
(* Properties.                                                             *)

(* No more rooms than the limit are used for free at a time, whatever      *)
(* larger limit there was before (phoneLedger.ts claimRoom: "pass if       *)
(* within the max oldest claims").                                         *)
WithinLimit == Cardinality(passed \cap DOMAIN Prune(stored, clock)) <= max

(* A room that was let through less than PHONE_IDLE_MS ago, and has not    *)
(* been told otherwise, still holds its place, however many claims of      *)
(* other rooms were made and refused.                                      *)
InUseKept ==
  \A r \in Rooms : used[r] # None /\ clock - used[r] <= IdleTime => r \in DOMAIN stored

(* Being refused does not keep a place: what is in the ledger ages from    *)
(* the last time it was let through (claimRoom: "refuse (time unchanged)"). *)
AgesFromUse == \A r \in DOMAIN stored : stored[r].last = used[r]

(* With a limit of one, a claim answers, tells and leaves in the ledger    *)
(* what module FreeTier takes it to.                                       *)
SlotOfFreeTier ==
  \A r \in Rooms, licensed, takeover \in BOOLEAN :
    LET rooms == DOMAIN Prune(stored, clock)
        c == claimRoom(stored, r, licensed, takeover, clock, 1)
        f == ClaimRoom(rooms, r, licensed, takeover)
    IN Cardinality(rooms) <= 1 =>
         c.ok = (f.res = "ok") /\ DOMAIN c.led = f.next /\ c.told = f.todo

=============================================================================
