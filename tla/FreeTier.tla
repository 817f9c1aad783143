------------------------------ MODULE FreeTier ------------------------------
(***************************************************************************)
(* The free tier of the hosted relay: one machine per phone, without an    *)
(* account.  Two kinds of Durable Object share the decision:               *)
(*                                                                         *)
(*   - a room (relay/src/room.ts), one per machine, which asks whether a   *)
(*     phone that has proved its key may stay, and which caches the answer *)
(*     as the mark "free" on the phone's wire;                             *)
(*   - the phone's ledger (relay/src/phoneLedger.ts and the class Phones   *)
(*     of relay/src/worker.ts), one per phone key, which knows the one     *)
(*     room that is the phone's free machine.                              *)
(*                                                                         *)
(* They talk by remote calls that interleave with everything else a room   *)
(* does: while a room waits for the ledger its ticket may arrive or go,    *)
(* the ledger may call that same room back, the wire may close, and the    *)
(* call may fail before or after the ledger was written.                   *)
(*                                                                         *)
(* Simplifications, and why they are sound:                                *)
(*   - A wire appears here once its key proof has passed; before that the  *)
(*     ledger and the marks do not know it (module Room models it).   *)
(*   - The phone limit, the admission deadline, the check that the         *)
(*     handshake names the proven key, and the agent's "drop" only ever    *)
(*     evict a wire: WireCloses may take any live wire at any time.        *)
(*   - A wire identifier is taken again once nothing refers to its last    *)
(*     connection: no call in flight, no claim being served for it.        *)
(*   - A call a room has seen fail is never begun by the ledger later; one *)
(*     that the ledger has begun may still finish (LoseCall).            *)
(*   - The ledger of a phone holds at most FREE_MACHINES_PER_PHONE = 1     *)
(*     room, so the rank among older rooms is not kept here (module        *)
(*     PhoneLedger has it).                                                *)
(***************************************************************************)
EXTENDS Naturals, FiniteSets, FreeSlot

CONSTANTS
  Phones,         \* phone keys
  Rooms,          \* machines, one room each
  Wires,          \* connections of phones to rooms
  None,           \* no wire
  MaxCalls,       \* bound: checks in flight at a time
  LongLivedWires  \* may a wire stay up longer than PHONE_IDLE_MS?

ASSUME NoneAssumption == None \notin Wires
ASSUME LongLivedAssumption == LongLivedWires \in BOOLEAN

VARIABLES
  \* what a connection is, for its life
  of,       \* of[w]: the phone that proved its key on wire w
  at,       \* at[w]: the room it connected to
  \* the tags of the rooms' wires
  st,       \* asking: waiting for the ledger; open: announced to the agent;
            \* admitted: the agent has replied; out: evicted, closed or unused
  free,     \* tag.free: admitted on the free tier
  stale,    \* tag.dstale: the answer in flight is out of date
  \* the continuation of checkDeviceProof on each wire
  asked,    \* was the room licensed when the ledger was asked
  tries,    \* the attempt in progress, 0 or 1
  take,     \* the phone asked to move its free slot here (f=1)
  rpc,      \* where the call to the ledger is
  \* the rooms
  paid,     \* #paid(): a valid Plus ticket is on the live agent's tag
  \* the Phones objects
  ledger,   \* ledger[p]: the rooms of phone p's ledger
  job       \* job[p]: the claim in progress under blockConcurrencyWhile

tagVars  == <<st, free, stale>>
callVars == <<asked, tries, take, rpc>>
vars == <<of, at, tagVars, callVars, paid, ledger, job>>

Live == {"asking", "open", "admitted"}

Jobs == [w    : Wires \cup {None},  \* the caller, None when the object is idle
         lic  : BOOLEAN,            \* the claim was licensed
         todo : SUBSET Rooms,       \* rooms still to be told before writing
         next : SUBSET Rooms,       \* the ledger to be written
         res  : {"ok", "limit"}]

Idle == [w |-> None, lic |-> FALSE, todo |-> {}, next |-> {}, res |-> "ok"]

(* The state of every variable.                                            *)
TypeOK ==
  /\ of \in [Wires -> Phones]
  /\ at \in [Wires -> Rooms]
  /\ st \in [Wires -> Live \cup {"out"}]
  /\ free \in [Wires -> BOOLEAN]
  /\ stale \in [Wires -> BOOLEAN]
  /\ asked \in [Wires -> BOOLEAN]
  /\ tries \in [Wires -> {0, 1}]
  /\ take \in [Wires -> BOOLEAN]
  /\ rpc \in [Wires -> {"none", "queued", "serving", "ok", "limit", "unavailable"}]
  /\ paid \in [Rooms -> BOOLEAN]
  /\ ledger \in [Phones -> SUBSET Rooms]
  /\ job \in [Phones -> Jobs]

Init ==
  /\ of \in [Wires -> Phones]
  /\ at \in [Wires -> Rooms]
  /\ st = [w \in Wires |-> "out"]
  /\ free = [w \in Wires |-> FALSE]
  /\ stale = [w \in Wires |-> FALSE]
  /\ asked = [w \in Wires |-> FALSE]
  /\ tries = [w \in Wires |-> 0]
  /\ take = [w \in Wires |-> FALSE]
  /\ rpc = [w \in Wires |-> "none"]
  /\ paid = [r \in Rooms |-> FALSE]
  /\ ledger = [p \in Phones |-> {}]
  /\ job = [p \in Phones |-> Idle]

-----------------------------------------------------------------------------
(* Sets of wires a room's handlers act on.                                 *)

\* The wires of phone p in room r that #devices() returns.
WiresOf(p, r) == {w \in Wires : st[w] \in Live /\ of[w] = p /\ at[w] = r}

\* The wires #enforce evicts because the room is not paid for and they do not
\* hold it as their free slot.
Unentitled(r) == {w \in Wires : /\ at[w] = r /\ ~paid[r]
                                /\ st[w] = "admitted" /\ ~free[w]}

\* The rooms of p's ledger that pruning may find unused for PHONE_IDLE_MS.  A
\* claim refreshes its room, so a room answered ok, or held by a wire that does
\* not outlive that time, is in use.
MayBeIdle(p) ==
  {r \in ledger[p] : LongLivedWires \/ ~\E w \in Wires :
     /\ of[w] = p /\ at[w] = r
     /\ \/ rpc[w] = "ok" /\ ~asked[w]
        \/ st[w] \in {"open", "admitted"} /\ free[w]}

-----------------------------------------------------------------------------
(* The phone's ledger.                                                     *)

\* Phones.claim begins: it reads and prunes the ledger and decides, and no other
\* claim of the same phone runs until it ends.
StartClaim(w) ==
  LET p == of[w] IN
  /\ rpc[w] = "queued"
  /\ job[p].w = None
  /\ \E gone \in SUBSET MayBeIdle(p) :
       LET c == ClaimRoom(ledger[p] \ gone, at[w], asked[w], take[w])
       IN job' = [job EXCEPT ![p] = [w |-> w, lic |-> asked[w], todo |-> c.todo,
                                     next |-> c.next, res |-> c.res]]
  /\ rpc' = [rpc EXCEPT ![w] = "serving"]
  /\ UNCHANGED <<of, at, tagVars, asked, tries, take, paid, ledger>>

\* What losing the room's place in the ledger does to the wires vs: a check in
\* flight goes stale, a wire past it loses its mark.
MarkStale(vs) == [v \in Wires |-> stale[v] \/ (v \in vs /\ st[v] = "asking")]
Unmark(vs) == [v \in Wires |-> free[v] /\ ~(v \in vs /\ st[v] # "asking")]

\* phoneFreeReleased in room r: the other wires of the phone stop holding it.
TellReleased(p, r) ==
  LET others == WiresOf(p, r) \ {job[p].w} IN
  /\ stale' = MarkStale(others)
  /\ free' = Unmark(others)
  /\ UNCHANGED st

\* phoneFreeMoved in room r: a paid room keeps the wire without its mark, any
\* other room evicts it.
TellMoved(p, r) ==
  LET held == {w \in WiresOf(p, r) : st[w] # "asking" /\ free[w]} IN
  /\ stale' = MarkStale(WiresOf(p, r))
  /\ free' = IF paid[r] THEN Unmark(held) ELSE free
  /\ st' = [w \in Wires |-> IF w \in held /\ ~paid[r] THEN "out" ELSE st[w]]

\* A fault: a room that waits for the ledger does not serve the ledger's call.
TellFault(p, r) ==
  /\ r \in job[p].todo
  /\ ~\E w \in Wires : at[w] = r /\ rpc[w] = "serving"
  /\ IF job[p].lic THEN TellReleased(p, r) ELSE TellMoved(p, r)
  /\ job' = [job EXCEPT ![p].todo = @ \ {r}]
  /\ UNCHANGED <<of, at, callVars, paid, ledger>>

\* Before it writes, the ledger calls each room that loses its place.
Tell(p, r) ==
  /\ r \in job[p].todo
  /\ IF job[p].lic THEN TellReleased(p, r) ELSE TellMoved(p, r)
  /\ job' = [job EXCEPT ![p].todo = @ \ {r}]
  /\ UNCHANGED <<of, at, callVars, paid, ledger>>

\* The ledger is written and the caller, if it still waits, is answered.
Commit(p) ==
  LET w == job[p].w IN
  /\ w # None
  /\ job[p].todo = {}
  /\ ledger' = [ledger EXCEPT ![p] = job[p].next]
  /\ rpc' = [rpc EXCEPT ![w] = IF @ = "serving" THEN job[p].res ELSE @]
  /\ job' = [job EXCEPT ![p] = Idle]
  /\ UNCHANGED <<of, at, tagVars, asked, tries, take, paid>>

\* A room could not be told or the storage failed: the claim throws and the
\* ledger stays as it was.
FailClaim(p) ==
  LET w == job[p].w IN
  /\ w # None
  /\ rpc' = [rpc EXCEPT ![w] = IF @ = "serving" THEN "unavailable" ELSE @]
  /\ job' = [job EXCEPT ![p] = Idle]
  /\ UNCHANGED <<of, at, tagVars, asked, tries, take, paid, ledger>>

\* The call is lost on its way to the ledger, or its answer on the way back (the
\* ledger may be past the write, or still at work).
LoseCall(w) ==
  /\ rpc[w] \in {"queued", "serving", "ok", "limit"}
  /\ rpc' = [rpc EXCEPT ![w] = "unavailable"]
  /\ UNCHANGED <<of, at, tagVars, asked, tries, take, paid, ledger, job>>

-----------------------------------------------------------------------------
(* The room: the continuation of the key proof.                            *)

\* The proof has passed: the key goes on the tag and the ledger is asked under
\* the plan the room has now.
Prove(w, p, r, f) ==
  /\ st[w] = "out" /\ rpc[w] = "none"
  /\ \A q \in Phones : job[q].w # w
  /\ Cardinality({v \in Wires : rpc[v] # "none"}) < MaxCalls
  /\ of' = [of EXCEPT ![w] = p]
  /\ at' = [at EXCEPT ![w] = r]
  /\ st' = [st EXCEPT ![w] = "asking"]
  /\ free' = [free EXCEPT ![w] = FALSE]
  /\ stale' = [stale EXCEPT ![w] = FALSE]
  /\ take' = [take EXCEPT ![w] = f]
  /\ tries' = [tries EXCEPT ![w] = 0]
  /\ asked' = [asked EXCEPT ![w] = paid[r]]
  /\ rpc' = [rpc EXCEPT ![w] = "queued"]
  /\ UNCHANGED <<paid, ledger, job>>

\* #releasedHere: a licensed request was a release, whatever became of it.
ReleasedHere(w) ==
  IF asked[w] THEN WiresOf(of[w], at[w]) \ {w} ELSE {}

\* A fault: an answer is used although the slot moved while it travelled.
ChangedFault(w) == paid[at[w]] # asked[w]

\* The plan differs from the one asked under, or a free answer went stale.
Changed(w) == paid[at[w]] # asked[w] \/ (stale[w] /\ ~asked[w])

\* The continuation returns, and its local variables are no more.
Ends(w) ==
  /\ rpc' = [rpc EXCEPT ![w] = "none"]
  /\ asked' = [asked EXCEPT ![w] = FALSE]
  /\ tries' = [tries EXCEPT ![w] = 0]
  /\ take' = [take EXCEPT ![w] = FALSE]

\* The wire is gone: only the release counts.
AnswerGone(w) ==
  /\ st[w] = "out"
  /\ stale' = MarkStale(ReleasedHere(w))
  /\ free' = Unmark(ReleasedHere(w))
  /\ Ends(w)
  /\ UNCHANGED st

\* A fault: the retry is not counted.
AnswerRetryFault(w) ==
  /\ st[w] = "asking"
  /\ Changed(w)
  /\ rpc' = [rpc EXCEPT ![w] = "queued"]
  /\ tries' = [tries EXCEPT ![w] = @ + 1]
  /\ asked' = [asked EXCEPT ![w] = paid[at[w]]]
  /\ take' = [take EXCEPT ![w] = FALSE]
  /\ stale' = [MarkStale(ReleasedHere(w)) EXCEPT ![w] = FALSE]
  /\ free' = Unmark(ReleasedHere(w))
  /\ UNCHANGED st

\* The world changed while the answer travelled: ask once more, as a plain claim.
AnswerRetry(w) ==
  /\ st[w] = "asking"
  /\ Changed(w)
  /\ tries[w] = 0
  /\ rpc' = [rpc EXCEPT ![w] = "queued"]
  /\ tries' = [tries EXCEPT ![w] = 1]
  /\ asked' = [asked EXCEPT ![w] = paid[at[w]]]
  /\ take' = [take EXCEPT ![w] = FALSE]
  /\ stale' = [MarkStale(ReleasedHere(w)) EXCEPT ![w] = FALSE]
  /\ free' = Unmark(ReleasedHere(w))
  /\ UNCHANGED st

\* Refused: changed twice, the slot is elsewhere, or no answer for a free claim.
AnswerRefused(w) ==
  /\ st[w] = "asking"
  /\ IF Changed(w) THEN tries[w] = 1
     ELSE rpc[w] = "limit" \/ (rpc[w] = "unavailable" /\ ~asked[w])
  /\ st' = [st EXCEPT ![w] = "out"]
  /\ stale' = MarkStale(ReleasedHere(w))
  /\ free' = Unmark(ReleasedHere(w))
  /\ Ends(w)

\* Accepted: the agent hears "opened"; without a plan the wire is marked free.
AnswerAccepted(w) ==
  /\ st[w] = "asking"
  /\ ~Changed(w)
  /\ rpc[w] = "ok" \/ (rpc[w] = "unavailable" /\ asked[w])
  /\ st' = [st EXCEPT ![w] = "open"]
  /\ stale' = [MarkStale(ReleasedHere(w)) EXCEPT ![w] = FALSE]
  /\ free' = [Unmark(ReleasedHere(w)) EXCEPT ![w] = ~asked[w]]
  /\ Ends(w)

\* The await of claimPhone returns and the continuation runs to its end.
Answer(w) ==
  /\ rpc[w] \in {"ok", "limit", "unavailable"}
  /\ AnswerGone(w) \/ AnswerRetry(w) \/ AnswerRefused(w) \/ AnswerAccepted(w)
  /\ UNCHANGED <<of, at, paid, ledger, job>>

-----------------------------------------------------------------------------
(* The room: traffic, tickets and closing wires.                           *)

\* A message from the agent to wire w.  Every message enforces the plan first;
\* the first one that reaches the wire promotes it, which is checked once more.
AgentSends(w) ==
  LET evicted == Unentitled(at[w])
      refused == st[w] = "open" /\ ~paid[at[w]] /\ ~free[w]
  IN
  /\ st[w] \in {"open", "admitted"}
  /\ st' = [v \in Wires |-> IF v \in evicted \/ (v = w /\ refused) THEN "out"
                            ELSE IF v = w THEN "admitted" ELSE st[v]]
  /\ UNCHANGED <<of, at, free, stale, callVars, paid, ledger, job>>

\* Any other message in room r: a phone's, or an agent frame to a number unknown.
PhoneSends(r) ==
  /\ st' = [v \in Wires |-> IF v \in Unentitled(r) THEN "out" ELSE st[v]]
  /\ UNCHANGED <<of, at, free, stale, callVars, paid, ledger, job>>

\* A Plus ticket is accepted.
TicketArrives(r) ==
  /\ paid' = [paid EXCEPT ![r] = TRUE]
  /\ UNCHANGED <<of, at, tagVars, callVars, ledger, job>>

\* The ticket's time runs out: nothing runs in the room at that moment.
TicketExpires(r) ==
  /\ paid[r]
  /\ paid' = [paid EXCEPT ![r] = FALSE]
  /\ UNCHANGED <<of, at, tagVars, callVars, ledger, job>>

\* The ticket is revoked, refused or lowered to Free: enforced at once.
TicketRevoked(r) ==
  /\ paid[r]
  /\ paid' = [paid EXCEPT ![r] = FALSE]
  /\ st' = [w \in Wires |-> IF at[w] = r /\ st[w] = "admitted" /\ ~free[w]
                            THEN "out" ELSE st[w]]
  /\ UNCHANGED <<of, at, free, stale, callVars, ledger, job>>

\* The agent disconnects or is replaced: its phones are cut and the ticket,
\* which lived on its tag, is gone.
AgentGone(r) ==
  /\ paid' = [paid EXCEPT ![r] = FALSE]
  /\ st' = [w \in Wires |-> IF at[w] = r /\ st[w] \in Live THEN "out" ELSE st[w]]
  /\ UNCHANGED <<of, at, free, stale, callVars, ledger, job>>

\* The phone leaves, or the room evicts it for any other reason.
WireCloses(w) ==
  /\ st[w] \in Live
  /\ st' = [st EXCEPT ![w] = "out"]
  /\ UNCHANGED <<of, at, free, stale, callVars, paid, ledger, job>>

-----------------------------------------------------------------------------
Next ==
  \/ \E w \in Wires, p \in Phones, r \in Rooms, f \in BOOLEAN : Prove(w, p, r, f)
  \/ \E w \in Wires : \/ StartClaim(w) \/ LoseCall(w) \/ Answer(w)
                      \/ AgentSends(w) \/ WireCloses(w)
  \/ \E p \in Phones : Commit(p) \/ FailClaim(p)
  \/ \E p \in Phones, r \in Rooms : Tell(p, r)
  \/ \E r \in Rooms : PhoneSends(r) \/ TicketArrives(r) \/ TicketExpires(r)
                      \/ TicketRevoked(r) \/ AgentGone(r)

\* A remote call is begun (an object serves its calls in turn, so a queued one is
\* not passed over for ever), finishes or fails, and its continuation runs.
Fairness ==
  /\ \A w \in Wires : SF_vars(StartClaim(w)) /\ WF_vars(Answer(w))
  /\ \A p \in Phones : WF_vars(Commit(p))
  /\ \A p \in Phones, r \in Rooms : WF_vars(Tell(p, r))

Spec == Init /\ [][Next]_vars
FairSpec == Spec /\ Fairness

-----------------------------------------------------------------------------
(* Properties.                                                             *)

(* README, Hosting: "each phone can use one machine through our relay      *)
(* without signing in".  Two wires of one phone that hold a room as their  *)
(* free slot hold the same room, whatever calls, tickets and takeovers     *)
(* cross in flight.                                                        *)
OneFreeMachine ==
  \A v, w \in Wires :
    /\ st[v] \in Live /\ free[v]
    /\ st[w] \in Live /\ free[w]
    /\ of[v] = of[w]
    => at[v] = at[w]

(* The mark on a wire is a cache of the ledger (room.ts #releasedHere): a  *)
(* live wire marked free is in a room its phone's ledger still holds.      *)
MarkIsBacked ==
  \A w \in Wires : st[w] \in Live /\ free[w] => at[w] \in ledger[of[w]]

(* Why the two hold: the inductive invariant.  A ledger, and the ledger a  *)
(* claim is about to write, name at most one room; and whatever relies on  *)
(* a free answer, a marked wire or a wire whose answer is on its way and   *)
(* not stale, is in a room which the ledger names and which the claim in   *)
(* progress either keeps or will tell before it writes.                    *)
AtMostOne(S) == \A r, s \in S : r = s

Relies(w) == \/ st[w] \in Live /\ free[w]
             \/ st[w] = "asking" /\ rpc[w] = "ok" /\ ~asked[w] /\ ~stale[w]

BackedNow(w) == at[w] \in ledger[of[w]]

BackedByJob(w) ==
  job[of[w]].w # None => at[w] \in job[of[w]].next \cup job[of[w]].todo

OneRoomEach == \A p \in Phones : AtMostOne(ledger[p]) /\ AtMostOne(job[p].next)

RelianceBacked == \A w \in Wires : Relies(w) => BackedNow(w) /\ BackedByJob(w)

\* A wire that waits for the ledger holds no mark, and waits as long as it asks.
WaitingUnmarked ==
  \A w \in Wires : /\ st[w] = "asking" => rpc[w] # "none"
                   /\ rpc[w] # "none" => ~free[w] /\ st[w] \in {"asking", "out"}

\* A call being served is the one in the job, as it was asked.
ServedByJob ==
  \A w \in Wires : rpc[w] = "serving" =>
    /\ job[of[w]].w = w
    /\ job[of[w]].lic = asked[w]
    /\ job[of[w]].res = "ok" /\ ~asked[w] => at[w] \in job[of[w]].next

\* Until its job ends, a caller has no answer and no mark, even if it gave up.
CallerUnmarked ==
  \A p \in Phones : job[p].w # None =>
    /\ of[job[p].w] = p
    /\ ~free[job[p].w]
    /\ rpc[job[p].w] \notin {"ok", "limit"}

FreeInv ==
  /\ TypeOK
  /\ OneRoomEach
  /\ RelianceBacked
  /\ WaitingUnmarked
  /\ ServedByJob
  /\ CallerUnmarked

(* A claim of a phone always settles: the room and the ledger call each    *)
(* other, and neither waits for ever (worker.ts Phones.claim, the call     *)
(* back into the calling room).                                            *)
ClaimSettles == \A w \in Wires : (st[w] = "asking") ~> (st[w] # "asking")

=============================================================================
