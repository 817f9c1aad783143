-------------------------------- MODULE Room --------------------------------
(***************************************************************************)
(* One room of the relay (relay/src/room.ts, class Room) and the agent at  *)
(* the other end of its wire (agent/src/relayLink.ts, openRelayLink).      *)
(*                                                                         *)
(* The room keeps its state on the tags of its sockets only.  An agent     *)
(* wire becomes "the agent" when it has proved the room's key; a phone's   *)
(* wire gets a number, proves its own key, is allowed by the ledger, is    *)
(* announced to the agent ("opened") and is admitted by the agent's first  *)
(* message.  The agent knows a phone by its number only: what is in flight *)
(* while wires are replaced, evicted and closed must not reach a stranger. *)
(*                                                                         *)
(* Every await of the code is a step boundary: the making of a challenge,  *)
(* the verification of a proof, the question to the ledger.  A close the   *)
(* relay starts marks the tag first; the close event comes later.          *)
(*                                                                         *)
(* Simplifications:                                                        *)
(*   - A phone's wire connects once; an agent's wire is taken again after  *)
(*     its close event.  Numbers do not wrap (MAX_CONN_ID is 2^32 - 1).    *)
(*   - The loop that asks the ledger is module FreeTier; here it answers   *)
(*     yes or no.  It says yes under the plan of that moment, so the mark  *)
(*     free is the absence of the plan.  The ticket is module              *)
(*     AccountSlots; here its outcome is the flag plus.                    *)
(*   - The agent's frames in flight are a set: a superset of the orders a  *)
(*     socket delivers, and two equal frames count as one.                 *)
(*   - The relay said "ready" to every agent wire (agents that announce    *)
(*     c=1), so a drop may always be sent.                                 *)
(***************************************************************************)
EXTENDS Integers, FiniteSets, FiniteSetsExt, Sequences

CONSTANTS
  AgentWires, PhoneWires,
  MaxPendingAgents,  \* MAX_PENDING_AGENTS
  MaxPendingPhones,  \* MAX_PENDING_DEVICES
  FreeLimit,         \* phones of a room without a Plus ticket
  PlusLimit,         \* phones of a room with one
  MaxDevices,        \* MAX_DEVICES
  MaxQueue           \* bound: a phone waits while the agent's queue is this long

ASSUME LimitsAssumption ==
  /\ {FreeLimit, PlusLimit, MaxDevices, MaxPendingAgents, MaxPendingPhones, MaxQueue}
       \subseteq Nat \ {0}
  /\ FreeLimit <= PlusLimit /\ PlusLimit <= MaxDevices

ASSUME WiresAssumption == IsFiniteSet(AgentWires) /\ IsFiniteSet(PhoneWires)

VARIABLES
  selfHosted, \* SELF_HOSTED=1: no proofs, no plans; never changes
  ag,       \* ag[a]: the tag of agent wire a; "none" when there is no socket
  agLate,   \* its deadline has passed
  last,     \* tag.lastConnId of an agent wire
  plus,     \* the live agent's tag holds a valid Plus ticket
  dev,      \* dev[d]: the tag of phone wire d
  late,     \* its deadline has passed
  num,      \* tag.connId, 0 before it connects
  free,     \* tag.free
  held,     \* tag.held: the message that crossed the challenge
  bound,    \* tag.dbound
  toAgent,  \* toAgent[a]: relay frames on their way to the agent, in order
  toRoom,   \* frames on their way from the agents' ends
  slot      \* slot[a][n]: what the agent's end of wire a keeps for number n

agVars == <<ag, agLate, last, plus>>
devVars == <<dev, late, num, free, held, bound>>
vars == <<selfHosted, agVars, devVars, toAgent, toRoom, slot>>

Numbers == 1..Cardinality(PhoneWires)

Proving == {"reserving", "pending", "verifying"}              \* unproven agent wires
Checked == {"challenged", "verifying", "asking"}              \* tag.dpending is set
Waiting == {"making", "open"} \cup Checked                    \* not yet admitted
Present == Waiting \cup {"admitted"}                          \* #devices()

Frames == [k : {"opened", "data", "closed"}, n : Numbers, d : PhoneWires, good : BOOLEAN]
Replies == [a : AgentWires, k : {"data", "drop"}, n : Numbers, to : PhoneWires]
NoSlot == [s |-> "none"]
Slots == {NoSlot} \cup [s : {"fresh", "up", "dead"}, d : PhoneWires]

TypeOK ==
  /\ selfHosted \in BOOLEAN
  /\ ag \in [AgentWires -> Proving \cup {"none", "live", "retired", "refused"}]
  /\ agLate \in [AgentWires -> BOOLEAN]
  /\ last \in [AgentWires -> Numbers \cup {0}]
  /\ plus \in BOOLEAN
  /\ dev \in [PhoneWires -> Present \cup {"idle", "evicted", "gone"}]
  /\ late \in [PhoneWires -> BOOLEAN]
  /\ num \in [PhoneWires -> Numbers \cup {0}]
  /\ free \in [PhoneWires -> BOOLEAN]
  /\ held \in [PhoneWires -> {"no", "good", "bad"}]
  /\ bound \in [PhoneWires -> BOOLEAN]
  /\ toAgent \in [AgentWires -> Seq(Frames)]
  /\ toRoom \subseteq Replies
  /\ slot \in [AgentWires -> [Numbers -> Slots]]

Init ==
  /\ selfHosted \in BOOLEAN
  /\ ag = [a \in AgentWires |-> "none"]
  /\ agLate = [a \in AgentWires |-> FALSE]
  /\ last = [a \in AgentWires |-> 0]
  /\ plus = FALSE
  /\ dev = [d \in PhoneWires |-> "idle"]
  /\ late = [d \in PhoneWires |-> FALSE]
  /\ num = [d \in PhoneWires |-> 0]
  /\ free = [d \in PhoneWires |-> FALSE]
  /\ held = [d \in PhoneWires |-> "no"]
  /\ bound = [d \in PhoneWires |-> FALSE]
  /\ toAgent = [a \in AgentWires |-> <<>>]
  /\ toRoom = {}
  /\ slot = [a \in AgentWires |-> [n \in Numbers |-> NoSlot]]

-----------------------------------------------------------------------------
(* What the handlers share.                                                *)

\* A fault: a wire counts as pending only once its challenge is sent.
PendingFault == {a \in AgentWires : ag[a] \in {"pending", "verifying"}}

Live == {a \in AgentWires : ag[a] = "live"}
Pending == {a \in AgentWires : ag[a] \in Proving}
Admitted == {d \in PhoneWires : dev[d] = "admitted"}

\* #deviceLimit, under the plan p.
Limit(p) == IF selfHosted THEN MaxDevices ELSE IF p THEN PlusLimit ELSE FreeLimit

\* May a phone be admitted under plan p, its mark being free.
Entitled(d, p) == selfHosted \/ p \/ free[d]

\* #evict: the mark comes before the close.
Evict(dv, ds) == [d \in PhoneWires |-> IF d \in ds THEN "evicted" ELSE dv[d]]
CutAll == Evict(dev, {d \in PhoneWires : dev[d] \in Present})

\* #enforce under plan p: the admitted wires that stay.
Kept(p) ==
  LET entitled == {d \in Admitted : Entitled(d, p)}
  IN {d \in entitled : Cardinality({e \in entitled : num[e] < num[d]}) < Limit(p)}
Enforced(p) == Evict(dev, Admitted \ Kept(p))

\* #toAgent: the frames fs go to the live agent, or nowhere.
Tell(fs) ==
  toAgent' = [a \in AgentWires |-> IF a \in Live THEN toAgent[a] \o fs ELSE toAgent[a]]

Frame(k, d, g) == [k |-> k, n |-> num[d], d |-> d, good |-> g]

\* The phone wire #devices() finds under a number, as a set.
WireOf(dv, n) == {d \in PhoneWires : dv[d] \in Present /\ num[d] = n}

-----------------------------------------------------------------------------
(* Agent wires.                                                            *)

\* admitAgent and startAgent up to its await: expired wires are swept, and the
\* wire is reserved if fewer than MAX_PENDING_AGENTS are left.
AgentConnects(a) ==
  LET swept == {b \in Pending : agLate[b]}
      room  == Cardinality(Pending \ swept) < MaxPendingAgents
  IN
  /\ ag[a] = "none"
  /\ ag' = [b \in AgentWires |-> IF b \in swept THEN "refused"
                                 ELSE IF b = a /\ room THEN "reserving" ELSE ag[b]]
  /\ agLate' = [agLate EXCEPT ![a] = FALSE]
  /\ UNCHANGED <<last, plus, devVars, toAgent, toRoom, slot>>

\* The challenge is made and sent: the deadline starts anew.
AgentChallenged(a) ==
  /\ ag[a] = "reserving"
  /\ ag' = [ag EXCEPT ![a] = "pending"]
  /\ agLate' = [agLate EXCEPT ![a] = FALSE]
  /\ UNCHANGED <<last, plus, devVars, toAgent, toRoom, slot>>

\* #checkProof up to its await: one proof per wire, latched, and not after the
\* deadline.
AgentProves(a) ==
  /\ ag[a] = "pending"
  /\ ag' = [ag EXCEPT ![a] = IF agLate[a] THEN "refused" ELSE "verifying"]
  /\ UNCHANGED <<agLate, last, plus, devVars, toAgent, toRoom, slot>>

\* A fault: numbers go on above the live predecessor's only.
CarriedFault == Max({last[b] : b \in Live} \cup {0})

\* Numbers go on above every number still present in the room.
Carried ==
  Max({last[b] : b \in AgentWires} \cup
      {num[d] : d \in {e \in PhoneWires : dev[e] \in Present \cup {"evicted"}}} \cup {0})

\* The proof is verified: the wire becomes the agent, its predecessor is retired
\* and the predecessor's phones are cut.
AgentVerified(a, ok) ==
  /\ ag[a] = "verifying"
  /\ IF ok
     THEN /\ ag' = [b \in AgentWires |-> IF b = a THEN "live"
                                         ELSE IF b \in Live THEN "retired" ELSE ag[b]]
          /\ dev' = IF Live # {} THEN CutAll ELSE dev
          /\ last' = [last EXCEPT ![a] = Carried]
          /\ plus' = FALSE
     ELSE /\ ag' = [ag EXCEPT ![a] = "refused"]
          /\ UNCHANGED <<dev, last, plus>>
  /\ UNCHANGED <<agLate, late, num, free, held, bound, toAgent, toRoom, slot>>

\* #drop on an agent wire: text, a second proof, a frame it must not send.
AgentMisbehaves(a) ==
  /\ ag[a] \in Proving \cup {"live"}
  /\ ag' = [ag EXCEPT ![a] = IF @ = "live" THEN "retired" ELSE "refused"]
  /\ dev' = IF a \in Live THEN CutAll ELSE dev
  /\ plus' = (plus /\ a \notin Live)
  /\ UNCHANGED <<agLate, last, late, num, free, held, bound, toAgent, toRoom, slot>>

\* A fault: the phones of a closed agent are left to themselves.
AgentClosesFault(a) ==
  /\ ag[a] # "none"
  /\ ag' = [ag EXCEPT ![a] = "none"]
  /\ plus' = (plus /\ a \notin Live)
  /\ last' = [last EXCEPT ![a] = 0]
  /\ toAgent' = [toAgent EXCEPT ![a] = <<>>]
  /\ toRoom' = {f \in toRoom : f.a # a}
  /\ slot' = [slot EXCEPT ![a] = [n \in Numbers |-> NoSlot]]
  /\ UNCHANGED <<agLate, devVars>>

\* onClose of an agent wire; the agent's end drops its slots (down).
AgentCloses(a) ==
  /\ ag[a] # "none"
  /\ ag' = [ag EXCEPT ![a] = "none"]
  /\ dev' = IF a \in Live THEN CutAll ELSE dev
  /\ plus' = (plus /\ a \notin Live)
  /\ last' = [last EXCEPT ![a] = 0]
  /\ toAgent' = [toAgent EXCEPT ![a] = <<>>]
  /\ toRoom' = {f \in toRoom : f.a # a}
  /\ slot' = [slot EXCEPT ![a] = [n \in Numbers |-> NoSlot]]
  /\ UNCHANGED <<agLate, late, num, free, held, bound>>

\* The outcome of a ticket: the plan is set or taken away, and enforced.
TicketSet(p) ==
  /\ ~selfHosted
  /\ Live # {}
  /\ plus' = p
  /\ dev' = Enforced(p)
  /\ UNCHANGED <<ag, agLate, last, late, num, free, held, bound, toAgent, toRoom, slot>>

\* A ticket's time runs out while nothing happens in the room.
TicketExpires ==
  /\ plus
  /\ plus' = FALSE
  /\ UNCHANGED <<ag, agLate, last, devVars, toAgent, toRoom, slot>>

-----------------------------------------------------------------------------
(* Phone wires.                                                            *)

\* admitDevice and startDevice up to its await.  Expired wires are evicted; over
\* the limit the phone is refused; a full waiting room loses its oldest wire.
PhoneConnects(d, proving) ==
  LET waiting == {e \in PhoneWires : dev[e] \in Waiting}
      swept   == {e \in waiting : late[e]}
      left    == waiting \ swept
      oldest  == IF Cardinality(left) < MaxPendingPhones THEN {}
                 ELSE {e \in left : \A f \in left : num[e] <= num[f]}
      refused == Cardinality(Admitted) >= Limit(plus)
      n       == Max({last[a] : a \in Live}) + 1
  IN
  /\ dev[d] = "idle"
  /\ Live # {}
  /\ IF refused
     THEN /\ dev' = Evict(dev, swept)
          /\ UNCHANGED <<last, num, toAgent>>
     ELSE /\ dev' = [Evict(dev, swept \cup oldest) EXCEPT ![d] =
                       IF selfHosted THEN "open" ELSE IF proving THEN "making" ELSE "evicted"]
          /\ num' = [num EXCEPT ![d] = n]
          /\ last' = [a \in AgentWires |-> IF a \in Live THEN n ELSE last[a]]
          /\ Tell(IF selfHosted
                  THEN <<[k |-> "opened", n |-> n, d |-> d, good |-> TRUE]>> ELSE <<>>)
  /\ UNCHANGED <<ag, agLate, plus, late, free, held, bound, toRoom, slot>>

\* The challenge is made and sent.
PhoneChallenged(d) ==
  /\ dev[d] = "making"
  /\ dev' = [dev EXCEPT ![d] = "challenged"]
  /\ UNCHANGED <<agVars, late, num, free, held, bound, toAgent, toRoom, slot>>

\* A message before the challenge: the wire has no proven key and carries nothing.
PhoneTooSoon(d) ==
  /\ dev[d] = "making"
  /\ dev' = Evict(Enforced(plus), {d})
  /\ UNCHANGED <<agVars, late, num, free, held, bound, toAgent, toRoom, slot>>

\* A message that is no proof, before the ledger's answer: one is held.
PhoneHeld(d, names) ==
  /\ dev[d] \in Checked
  /\ IF held[d] = "no"
     THEN held' = [held EXCEPT ![d] = IF names THEN "good" ELSE "bad"] /\ UNCHANGED dev
     ELSE dev' = Evict(dev, {d}) /\ UNCHANGED held
  /\ UNCHANGED <<agVars, late, num, free, bound, toAgent, toRoom, slot>>

\* #checkDeviceProof up to its first await: one proof per wire, in time.
PhoneProves(d) ==
  /\ dev[d] \in Checked
  /\ dev' = [dev EXCEPT ![d] = IF @ = "challenged" /\ ~late[d] THEN "verifying" ELSE "evicted"]
  /\ UNCHANGED <<agVars, late, num, free, held, bound, toAgent, toRoom, slot>>

\* The proof is verified and the ledger is asked.
PhoneVerified(d, ok) ==
  /\ dev[d] = "verifying"
  /\ dev' = [dev EXCEPT ![d] = IF ok /\ Live # {} THEN "asking" ELSE "evicted"]
  /\ UNCHANGED <<agVars, late, num, free, held, bound, toAgent, toRoom, slot>>

\* A fault: the held message is forwarded whatever key it names.
LedgerAnswersFault(d, yes) ==
  /\ dev[d] = "asking"
  /\ IF yes /\ Live # {}
     THEN /\ dev' = [dev EXCEPT ![d] = "open"]
          /\ free' = [free EXCEPT ![d] = ~plus]
          /\ bound' = [bound EXCEPT ![d] = held[d] # "no"]
          /\ held' = [held EXCEPT ![d] = "no"]
          /\ Tell(<<Frame("opened", d, TRUE)>> \o
                  IF held[d] # "no" THEN <<Frame("data", d, held[d] = "good")>> ELSE <<>>)
     ELSE /\ dev' = Evict(dev, {d})
          /\ UNCHANGED <<free, bound, held, toAgent>>
  /\ UNCHANGED <<agVars, late, num, toRoom, slot>>

\* The ledger has answered (FreeTier): the agent hears of the phone, and gets the
\* held message if that names the proven key.
LedgerAnswers(d, yes) ==
  /\ dev[d] = "asking"
  /\ IF yes /\ Live # {} /\ held[d] # "bad"
     THEN /\ dev' = [dev EXCEPT ![d] = "open"]
          /\ free' = [free EXCEPT ![d] = ~plus]
          /\ bound' = [bound EXCEPT ![d] = held[d] = "good"]
          /\ held' = [held EXCEPT ![d] = "no"]
          /\ Tell(<<Frame("opened", d, TRUE)>> \o
                  IF held[d] = "good" THEN <<Frame("data", d, TRUE)>> ELSE <<>>)
     ELSE /\ dev' = Evict(dev, {d})
          /\ UNCHANGED <<free, bound, held, toAgent>>
  /\ UNCHANGED <<agVars, late, num, toRoom, slot>>

\* phoneFreeReleased and phoneFreeMoved for a wire past its check.
FreeSlotLeaves(d, moved) ==
  /\ dev[d] \in {"open", "admitted"} /\ free[d]
  /\ IF moved /\ ~plus
     THEN dev' = Evict(dev, {d}) /\ UNCHANGED free
     ELSE free' = [free EXCEPT ![d] = FALSE] /\ UNCHANGED dev
  /\ UNCHANGED <<agVars, late, num, held, bound, toAgent, toRoom, slot>>

\* A message of a phone past its check; names: it is a handshake naming the key.
PhoneSends(d, names) ==
  LET dv    == Enforced(plus)
      binds == selfHosted \/ bound[d] \/ names
  IN
  /\ dev[d] \in {"open", "admitted"}
  /\ \A a \in Live : Len(toAgent[a]) < MaxQueue
  /\ IF dv[d] = "evicted"
     THEN dev' = dv /\ UNCHANGED <<bound, toAgent>>
     ELSE IF binds
     THEN /\ dev' = dv
          /\ bound' = [bound EXCEPT ![d] = TRUE]
          /\ Tell(<<Frame("data", d, names \/ bound[d])>>)
     ELSE dev' = Evict(dv, {d}) /\ UNCHANGED <<bound, toAgent>>
  /\ UNCHANGED <<agVars, late, num, free, held, toRoom, slot>>

\* #drop on a phone wire: text, or a message too large.
PhoneMisbehaves(d) ==
  /\ dev[d] \in Present
  /\ dev' = Evict(dev, {d})
  /\ UNCHANGED <<agVars, late, num, free, held, bound, toAgent, toRoom, slot>>

\* A fault: the agent is not told of a wire the relay has evicted itself.
PhoneClosesFault(d) ==
  /\ dev[d] \in Present \cup {"evicted"}
  /\ dev' = [dev EXCEPT ![d] = "gone"]
  /\ Tell(IF dev[d] = "evicted" THEN <<>> ELSE <<Frame("closed", d, TRUE)>>)
  /\ UNCHANGED <<agVars, late, num, free, held, bound, toRoom, slot>>

\* onClose of a phone wire, whoever closed it: the agent is told its number.
PhoneCloses(d) ==
  /\ dev[d] \in Present \cup {"evicted"}
  /\ dev' = [dev EXCEPT ![d] = "gone"]
  /\ Tell(<<Frame("closed", d, TRUE)>>)
  /\ UNCHANGED <<agVars, late, num, free, held, bound, toRoom, slot>>

\* A deadline passes.
TimePasses ==
  /\ \/ \E a \in Pending : ~agLate[a] /\ agLate' = [agLate EXCEPT ![a] = TRUE] /\ UNCHANGED late
     \/ \E d \in PhoneWires : /\ dev[d] \in Waiting /\ ~late[d]
                              /\ late' = [late EXCEPT ![d] = TRUE] /\ UNCHANGED agLate
  /\ UNCHANGED <<ag, last, plus, dev, num, free, held, bound, toAgent, toRoom, slot>>

-----------------------------------------------------------------------------
(* Frames of the agent, as the room handles them.  The wire of a retired   *)
(* agent is still read until it closes.                                    *)

\* A fault: the limit is looked at only when a phone connects.
PromotesFault(dv, t) == Entitled(t, plus)

\* May the agent's first message admit the waiting phone t.
Promotes(dv, t) ==
  /\ Cardinality({e \in PhoneWires : dv[e] = "admitted"}) < Limit(plus)
  /\ Entitled(t, plus)

\* What a frame does to the phones, after #enforce.
Handled(dv, f) ==
  [d \in PhoneWires |->
     IF d \notin WireOf(dv, f.n) THEN dv[d]
     ELSE IF f.k = "drop" THEN "evicted"
     ELSE IF dv[d] \in {"making", "open"}
     THEN IF Promotes(dv, d) THEN "admitted" ELSE "evicted"
     ELSE dv[d]]

FromAgent(f) ==
  /\ f \in toRoom
  /\ ag[f.a] \in {"live", "retired"}
  /\ dev' = Handled(Enforced(plus), f)
  /\ toRoom' = toRoom \ {f}
  /\ UNCHANGED <<agVars, late, num, free, held, bound, toAgent, slot>>

-----------------------------------------------------------------------------
(* The agent's end of a wire: openRelayLink's table of slots.              *)

SetSlot(a, n, v) == slot' = [slot EXCEPT ![a][n] = v]

\* A number opens or closes; what an older slot of the number was is forgotten.
HearOpened(a, f) ==
  f.k = "opened" /\ SetSlot(a, f.n, [s |-> "fresh", d |-> f.d]) /\ UNCHANGED toRoom
HearClosed(a, f) ==
  f.k = "closed" /\ SetSlot(a, f.n, NoSlot) /\ UNCHANGED toRoom

\* Data: the first message is the handshake, accepted or refused; later ones are
\* delivered, or are fatal to the tunnel, whose reason is sent before the drop.
HearData(a, f, ok) ==
  LET v      == slot[a][f.n]
      heard  == v.s \in {"fresh", "up"}
      kinds  == (IF ok \/ v.s = "up" THEN {"data"} ELSE {}) \cup (IF ok THEN {} ELSE {"drop"})
  IN
  /\ f.k = "data"
  /\ IF heard
     THEN /\ SetSlot(a, f.n, [v EXCEPT !.s = IF ok THEN "up" ELSE "dead"])
          /\ toRoom' = toRoom \cup {[a |-> a, k |-> k, n |-> f.n, to |-> v.d] : k \in kinds}
     ELSE UNCHANGED <<slot, toRoom>>

Hear(a, ok) ==
  /\ toAgent[a] # <<>>
  /\ LET f == Head(toAgent[a]) IN
       HearOpened(a, f) \/ HearClosed(a, f) \/ HearData(a, f, ok)
  /\ toAgent' = [toAgent EXCEPT ![a] = Tail(@)]
  /\ UNCHANGED <<agVars, devVars>>

\* The agent sends to a phone on its own: an answer or an event.
Speak(a, n) ==
  /\ slot[a][n].s = "up"
  /\ toRoom' = toRoom \cup {[a |-> a, k |-> "data", n |-> n, to |-> slot[a][n].d]}
  /\ UNCHANGED <<agVars, devVars, toAgent, slot>>

\* The agent gives a phone up: a pairing-only connection at its deadline.
GiveUp(a, n) ==
  /\ slot[a][n].s = "up"
  /\ SetSlot(a, n, [slot[a][n] EXCEPT !.s = "dead"])
  /\ toRoom' = toRoom \cup {[a |-> a, k |-> "drop", n |-> n, to |-> slot[a][n].d]}
  /\ UNCHANGED <<agVars, devVars, toAgent>>

-----------------------------------------------------------------------------
\* What happens in the room, and at the agent's end.
Steps ==
  \/ \E a \in AgentWires : \/ AgentConnects(a) \/ AgentChallenged(a) \/ AgentProves(a)
                           \/ AgentMisbehaves(a) \/ AgentCloses(a)
  \/ \E a \in AgentWires, ok \in BOOLEAN : AgentVerified(a, ok) \/ Hear(a, ok)
  \/ \E a \in AgentWires, n \in Numbers : Speak(a, n) \/ GiveUp(a, n)
  \/ \E p \in BOOLEAN : TicketSet(p)
  \/ TicketExpires \/ TimePasses
  \/ \E d \in PhoneWires : \/ PhoneChallenged(d) \/ PhoneTooSoon(d)
                           \/ PhoneProves(d) \/ PhoneMisbehaves(d) \/ PhoneCloses(d)
  \/ \E d \in PhoneWires, b \in BOOLEAN :
       \/ PhoneConnects(d, b) \/ PhoneHeld(d, b) \/ PhoneVerified(d, b)
       \/ LedgerAnswers(d, b) \/ FreeSlotLeaves(d, b) \/ PhoneSends(d, b)
  \/ \E f \in toRoom : FromAgent(f)

Next == Steps /\ UNCHANGED selfHosted

Spec == Init /\ [][Next]_vars

-----------------------------------------------------------------------------
(* Properties.                                                             *)

(* A frame an agent sent, however late it is handled and whichever wire    *)
(* has become the agent since, finds under its number the phone it was     *)
(* meant for or nobody (room.ts: numbers are increased monotonically and   *)
(* carried over).                                                          *)
RoutedAsMeant ==
  \A f \in toRoom : WireOf(dev, f.n) \subseteq {f.to}

(* What the agent hears about a number concerns the phone its slot was     *)
(* opened for: a late "closed" never discards the tunnel of a new phone.   *)
HeardAsMeant ==
  \A a \in AgentWires : toAgent[a] # <<>> =>
    LET f == Head(toAgent[a]) IN
      f.k # "opened" /\ slot[a][f.n] # NoSlot => slot[a][f.n].d = f.d

\* A number stands for the same phone at the agent and in the room, however
\* late a frame or a "closed" is handled (room.ts).
CarriedAsMeant == RoutedAsMeant /\ HeardAsMeant

(* Every slot the live agent keeps is of a wire that still exists or whose *)
(* "closed" is on its way: no phone leaves an orphan slot behind.          *)
NoOrphanSlot ==
  \A a \in Live, n \in Numbers : slot[a][n] # NoSlot =>
    \/ dev[slot[a][n].d] # "gone"
    \/ \E i \in 1..Len(toAgent[a]) : toAgent[a][i].k = "closed" /\ toAgent[a][i].n = n

(* At most one wire is the agent, and no more than MAX_PENDING_AGENTS wires *)
(* and MAX_PENDING_DEVICES wires wait, however the awaits interleave.       *)
WaitingRooms ==
  /\ Cardinality(Live) <= 1
  /\ Cardinality({a \in AgentWires : ag[a] \in Proving}) <= MaxPendingAgents
  /\ Cardinality({d \in PhoneWires : dev[d] \in Waiting}) <= MaxPendingPhones

(* No more phones are admitted than the plan's limit ever allows, and none *)
(* is present without an agent.                                            *)
AdmittedBounded ==
  /\ Cardinality(Admitted) <= Limit(TRUE)
  /\ Live = {} => \A d \in PhoneWires : dev[d] \notin Present

\* A message of phone d is passed on to the agent.
PassedOn(d) ==
  \E a \in Live : /\ Len(toAgent'[a]) > Len(toAgent[a])
                  /\ LET f == toAgent'[a][Len(toAgent'[a])] IN f.k = "data" /\ f.d = d

(* After a frame of an agent, or a message of a phone past its check, was   *)
(* handled, every admitted phone is entitled under the plan of that moment  *)
(* and no more are admitted than it allows, even if the ticket ran out      *)
(* unnoticed (room.ts #enforce).  One message is passed on without that,    *)
(* against "every time before carrying anything": the one that was held     *)
(* while the phone was checked.  Others may stay in meanwhile; the phone    *)
(* whose message it is has just been found entitled under that plan.        *)
CarriesEnforced ==
  ag' = ag =>
    /\ \/ \E f \in toRoom : f \notin toRoom'
       \/ \E d \in PhoneWires : PassedOn(d) /\ dev[d] # "asking"
       => LET now == {d \in PhoneWires : dev'[d] = "admitted"} IN
            /\ Cardinality(now) <= Limit(plus')
            /\ \A d \in now : selfHosted \/ plus' \/ free'[d]
    /\ \A d \in PhoneWires : PassedOn(d) /\ dev[d] = "asking" =>
         dev'[d] = "open" /\ (plus' \/ free'[d])
EnforcedWhenCarrying == [][CarriesEnforced]_vars

\* No more wires wait for their proof, and no more phones are let in, than the
\* limits in force allow; and whoever is carried is entitled under the plan of
\* that moment, even if the ticket ran out unnoticed (room.ts, limits.ts).
WithinLimits == [](WaitingRooms /\ AdmittedBounded) /\ EnforcedWhenCarrying

(* The first message that reaches the agent under a number is a handshake  *)
(* that names the key the wire has proved (room.ts #binds).                *)
NamesProvenKey ==
  selfHosted \/ \A a \in AgentWires : \A i \in 1..Len(toAgent[a]) : toAgent[a][i].good

=============================================================================
