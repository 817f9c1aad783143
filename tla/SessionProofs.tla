---------------------------- MODULE SessionProofs ----------------------------
(* A session on the phone, for any numbers of phones, agents, handshakes,   *)
(* calls, requests and records.  Whatever calls are under way together and  *)
(* whatever the network passes on: a counter is used once under a key,      *)
(* frames are taken in order, and an end opens what its peer sealed.        *)
(* Whatever is typed at the same time: a message goes one way only and a    *)
(* line of it is its own.  However requests and signals overtake each       *)
(* other: a thread shows a stretch of one transcript.                       *)
EXTENDS MCSession, SequenceTheorems, TLAPS

-----------------------------------------------------------------------------
(* The handshakes.                                                         *)

MessageInv == \A h \in Shakes : message[h] # None => message[h].eph = h

\* A handshake has one call that goes on with it.
FinishInv ==
  /\ \A c \in Finishes : fin[c].ph \in {"deriving", "pending", "open"} =>
       fin[c].of \in Shakes /\ fin[c].eph \in Accepts
  /\ \A c \in Finishes : fin[c].of \in Shakes => fin[c].of \in used /\ message[fin[c].of] # None
  /\ \A c, d \in Finishes : fin[c].of \in Shakes /\ fin[c].of = fin[d].of => c = d

AcceptInv ==
  \A a \in Accepts : acc[a].ph \notin {"none", "refused"} =>
    acc[a].first \in First /\ acc[a].at \in Agents /\ acc[a].at = acc[a].first.to

\* The confirm frame is sealed alone, and the counter taken is the last one.
SealingAt(e) ==
  /\ sealing[e] # <<>> => HasKeys(e)
  /\ taken[e] # None => sealing[e] # <<>> /\ out[e] = taken[e] + 1
  /\ \A i \in 1..Len(sealing[e]) :
       sealing[e][i].type = "confirm" => e \in Accepts /\ acc[e].ph = "confirming"
  /\ e \in Accepts /\ acc[e].ph = "confirming" => Len(sealing[e]) <= 1

SealingInv == \A e \in Ends : SealingAt(e)

Ours(f) ==
  /\ HasKeys(f.by) /\ f.key = KeyOf(f.by) /\ f.dir = Dir(f.by)
  /\ f.n < out[f.by] /\ f.n # taken[f.by]
  /\ f.type = "confirm" => f.by \in Accepts /\ acc[f.by].ph = "open"

SealedInv ==
  /\ \A f \in sealed : Ours(f)
  /\ \A f, g \in sealed : f.by = g.by /\ f.n = g.n => f = g

OpeningAt(e) ==
  /\ opening[e] # <<>> => HasKeys(e)
  /\ \A i \in 1..Len(opening[e]) :
       opening[e][i].frame \in sealed /\ (opening[e][i].as = "accept" => e \in Finishes)
  /\ checked[e] => opening[e] # <<>> /\ Head(opening[e]).frame.n > lastIn[e]

OpeningInv == \A e \in Ends : OpeningAt(e)

TakenAt(e) ==
  /\ got[e] # <<>> => HasKeys(e)
  /\ \A i \in 1..Len(got[e]) : got[e][i] \in sealed /\ Fits(e, got[e][i]) /\ got[e][i].n <= lastIn[e]
  /\ \A i, j \in 1..Len(got[e]) : i < j => got[e][i].n < got[e][j].n

TakenInv == \A e \in Ends : TakenAt(e)

OpenInv ==
  \A c \in Finishes : fin[c].ph = "open" => \E a \in Accepts : Peers(c, a) /\ acc[a].ph = "open"

HandshakeInv ==
  /\ TypeOK /\ MessageInv /\ FinishInv /\ AcceptInv /\ SealingInv /\ SealedInv
  /\ OpeningInv /\ TakenInv /\ OpenInv

-----------------------------------------------------------------------------
(* Types.                                                                  *)

\* The key of an end that has one is a key.
LEMMA KeyType ==
  ASSUME TypeOK, FinishInv, AcceptInv, NEW e \in Ends, HasKeys(e)
  PROVE  KeyOf(e) \in Keys
<1>1. CASE e \in Finishes
  <2> DEFINE m == message[fin[e].of]
  <2>1. fin[e].of \in Shakes /\ fin[e].eph \in Accepts /\ m \in First
    BY <1>1 DEF TypeOK, FinishInv, HasKeys
  <2>2. m.dev \in Devices /\ m.to \in Agents
    BY <2>1 DEF First
  <2>3. PhoneKey(e).over \in First \X Accepts
    BY <2>1 DEF PhoneKey, Derived
  <2>4. PhoneKey(e).z \in Seq(SUBSET (Devices \cup Agents \cup Shakes \cup Accepts))
    BY <2>1, <2>2 DEF PhoneKey, Derived
  <2> QED BY <1>1, <2>3, <2>4 DEF KeyOf, Keys, PhoneKey, Derived
<1>2. CASE e \notin Finishes
  <2> DEFINE m == acc[e].first
  <2>1. e \in Accepts /\ m \in First /\ acc[e].at \in Agents
    BY <1>2 DEF TypeOK, AcceptInv, HasKeys, Ends
  <2>2. m.dev \in Devices /\ m.eph \in Shakes
    BY <2>1 DEF First
  <2>3. AgentKey(e).over \in First \X Accepts
    BY <2>1 DEF AgentKey, Derived
  <2>4. AgentKey(e).z \in Seq(SUBSET (Devices \cup Agents \cup Shakes \cup Accepts))
    BY <2>1, <2>2 DEF AgentKey, Derived
  <2> QED BY <1>2, <2>3, <2>4 DEF KeyOf, Keys, AgentKey, Derived
<1> QED BY <1>1, <1>2

LEMMA InitHandshake == Init => HandshakeInv
<1> SUFFICES ASSUME Init PROVE HandshakeInv
  OBVIOUS
<1> USE DEF Init
<1>1. TypeOK
  BY DEF TypeOK, FinishCalls, AcceptCalls
<1>2. MessageInv /\ FinishInv /\ AcceptInv
  BY HandshakeAssumption DEF HandshakeAssumption, MessageInv, FinishInv, AcceptInv
<1>3. SealingInv /\ SealedInv /\ OpeningInv /\ TakenInv
  BY HandshakeAssumption DEF SealingInv, SealingAt, SealedInv, OpeningInv, OpeningAt, TakenInv, TakenAt, Ends
<1>4. OpenInv
  BY DEF OpenInv
<1> QED BY <1>1, <1>2, <1>3, <1>4 DEF HandshakeInv
-----------------------------------------------------------------------------
(* What lasts.                                                             *)

\* Types are kept.
LEMMA TypeStep == TypeOK /\ FinishInv /\ AcceptInv /\ SealingInv /\ OpeningInv /\ [Next]_vars => TypeOK'
<1> SUFFICES ASSUME TypeOK, FinishInv, AcceptInv, SealingInv, OpeningInv, [Next]_vars PROVE TypeOK'
  OBVIOUS
<1> USE DEF TypeOK
<1>a. ASSUME NEW c \in Finishes, NEW p \in {"none", "deriving", "pending", "open", "failed"}
      PROVE  [fin EXCEPT ![c].ph = p] \in [Finishes -> FinishCalls]
  <2>1. [fin[c] EXCEPT !.ph = p] \in FinishCalls
    BY DEF FinishCalls
  <2> QED BY <2>1
<1>b. ASSUME NEW a \in Accepts, NEW p \in {"none", "asking", "deriving", "confirming", "open", "refused"}
      PROVE  [acc EXCEPT ![a].ph = p] \in [Accepts -> AcceptCalls]
  <2>1. [acc[a] EXCEPT !.ph = p] \in AcceptCalls
    BY DEF AcceptCalls
  <2> QED BY <2>1
<1>1. ASSUME NEW h \in Shakes, NEW d \in Devices, NEW g \in Agents, StartHandshake(h, d, g) PROVE TypeOK'
  <2>1. [dev |-> d, eph |-> h, to |-> g] \in First
    BY DEF First
  <2> QED BY <1>1, <2>1 DEF StartHandshake, sendVars, recvVars
<1>2. ASSUME NEW c \in Finishes, NEW h \in Shakes, NEW x \in Accepts, FinishHandshake(c, h, x) PROVE TypeOK'
  <2>1. [ph |-> "deriving", of |-> h, eph |-> x] \in FinishCalls
    BY DEF FinishCalls
  <2>2. fin' \in [Finishes -> FinishCalls]
    BY <1>2, <1>a, <2>1 DEF FinishHandshake
  <2> QED BY <1>2, <2>2 DEF FinishHandshake, sendVars, recvVars
<1>3. ASSUME NEW c \in Finishes, NEW ok \in BOOLEAN, FinishDerives(c, ok) PROVE TypeOK'
  BY <1>3, <1>a DEF FinishDerives, sendVars, recvVars
<1>4. ASSUME NEW c \in Finishes, NEW f \in sealed, Accept(c, f) PROVE TypeOK'
  <2>1. [frame |-> f, as |-> "accept"] \in Waits
    BY DEF Waits
  <2> QED BY <1>4, <2>1 DEF Accept, sendVars, Ends
<1>5. ASSUME NEW a \in Accepts, NEW g \in Agents, NEW m \in First, AcceptHandshake(a, g, m) PROVE TypeOK'
  <2>1. \A p \in {"asking", "refused"} : [ph |-> p, at |-> g, first |-> m] \in AcceptCalls
    BY DEF AcceptCalls
  <2> QED BY <1>5, <2>1 DEF AcceptHandshake, sendVars, recvVars
<1>6. ASSUME NEW a \in Accepts, NEW ok \in BOOLEAN, Authorized(a, ok) PROVE TypeOK'
  BY <1>6, <1>b DEF Authorized, sendVars, recvVars
<1>7. ASSUME NEW a \in Accepts, NEW ok \in BOOLEAN, AcceptDerives(a, ok) PROVE TypeOK'
  <2>1. AgentKey(a).over \in First \X Accepts
    BY <1>7 DEF AcceptDerives, AcceptInv, AgentKey, Derived
  <2>2. [type |-> "confirm", body |-> AgentKey(a).over] \in Items
    BY <2>1 DEF Items
  <2>3. sealing' \in [Ends -> Seq(Items)]
    BY <1>7, <2>2 DEF AcceptDerives, Ends
  <2> QED BY <1>7, <1>b, <2>3 DEF AcceptDerives, recvVars
<1>8. ASSUME NEW e \in Ends, NEW b \in Bodies, Seal(e, b) PROVE TypeOK'
  <2>1. [type |-> "data", body |-> b] \in Items
    BY DEF Items
  <2> QED BY <1>8, <2>1 DEF Seal, recvVars
<1>9. ASSUME NEW e \in Ends, NEW f \in sealed, Open(e, f) PROVE TypeOK'
  <2>1. [frame |-> f, as |-> "open"] \in Waits
    BY DEF Waits
  <2> QED BY <1>9, <2>1 DEF Open, sendVars
<1>10. ASSUME NEW e \in Ends, SealBegins(e) PROVE TypeOK'
  <2>1. sealing[e] \in Seq(Items) /\ Tail(sealing[e]) \in Seq(Items)
    BY <1>10 DEF SealBegins
  <2>2. sealing' \in [Ends -> Seq(Items)]
    <3>1. CASE out[e] >= MaxCounter
      BY <1>10, <2>1, <3>1 DEF SealBegins
    <3>2. CASE ~(out[e] >= MaxCounter)
      BY <1>10, <3>2 DEF SealBegins
    <3> QED BY <3>1, <3>2
  <2>3. out' \in [Ends -> Nat] /\ taken' \in [Ends -> Nat \cup {None}]
    <3>1. out[e] \in Nat /\ out[e] + 1 \in Nat
      BY <1>10
    <3>2. CASE out[e] >= MaxCounter
      BY <1>10, <3>2 DEF SealBegins
    <3>3. CASE ~(out[e] >= MaxCounter)
      <4>1. taken' = [taken EXCEPT ![e] = out[e]] /\ out' = [out EXCEPT ![e] = out[e] + 1]
        BY <1>10, <3>3 DEF SealBegins
      <4> QED BY <3>1, <4>1
    <3> QED BY <3>2, <3>3
  <2> QED BY <1>10, <2>2, <2>3 DEF SealBegins, recvVars
<1>11. ASSUME NEW e \in Ends, SealEnds(e) PROVE TypeOK'
  <2>1. sealing[e] # <<>> /\ HasKeys(e) /\ taken[e] \in Nat
    BY <1>11 DEF SealEnds, SealingInv, SealingAt
  <2>2. Head(sealing[e]) \in Items /\ Tail(sealing[e]) \in Seq(Items)
    BY <2>1
  <2>3. KeyOf(e) \in Keys
    BY <2>1, KeyType
  <2>4. Sealed(e) \in Frames
    BY <2>1, <2>2, <2>3 DEF Sealed, Frames, Items, Dir
  <2>5. acc' \in [Accepts -> AcceptCalls]
    <3>1. CASE Sealed(e).type = "confirm"
      <4>1. e \in Accepts
        BY <2>1, <3>1 DEF SealingInv, SealingAt, Sealed
      <4> QED BY <1>11, <1>b, <3>1, <4>1 DEF SealEnds
    <3>2. CASE Sealed(e).type # "confirm"
      BY <1>11, <3>2 DEF SealEnds
    <3> QED BY <3>1, <3>2
  <2> QED BY <1>11, <2>2, <2>4, <2>5 DEF SealEnds, recvVars
<1>12. ASSUME NEW e \in Ends, OpenBegins(e) PROVE TypeOK'
  <2>1. opening[e] \in Seq(Waits) /\ Tail(opening[e]) \in Seq(Waits)
    BY <1>12 DEF OpenBegins
  <2>2. opening' \in [Ends -> Seq(Waits)] /\ checked' \in [Ends -> BOOLEAN]
    BY <1>12, <2>1 DEF OpenBegins
  <2> QED BY <1>12, <2>2 DEF OpenBegins, sendVars
<1>13. ASSUME NEW e \in Ends, OpenEnds(e) PROVE TypeOK'
  <2> DEFINE r == Head(opening[e])
  <2>1. opening[e] # <<>>
    BY <1>13 DEF OpenEnds, OpeningInv, OpeningAt
  <2>2. r.frame \in Frames /\ Tail(opening[e]) \in Seq(Waits)
    <3>1. opening[e] \in Seq(Waits)
      OBVIOUS
    <3>2. r \in Waits /\ Tail(opening[e]) \in Seq(Waits)
      BY <2>1, <3>1
    <3> QED BY <3>2 DEF Waits
  <2>3. r.frame.n \in Nat
    BY <2>2 DEF Frames
  <2>4. lastIn' \in [Ends -> Nat \cup {-1}] /\ got' \in [Ends -> Seq(Frames)]
    <3>1. Append(got[e], r.frame) \in Seq(Frames)
      BY <2>2
    <3>2. CASE Fits(e, r.frame)
      <4>1. lastIn' = [lastIn EXCEPT ![e] = r.frame.n] /\ got' = [got EXCEPT ![e] = Append(@, r.frame)]
        BY <1>13, <3>2 DEF OpenEnds
      <4> HIDE DEF r
      <4> QED BY <2>3, <3>1, <4>1
    <3>3. CASE ~Fits(e, r.frame)
      BY <1>13, <3>3 DEF OpenEnds
    <3> QED BY <3>2, <3>3
  <2>5. fin' \in [Finishes -> FinishCalls]
    <3>1. CASE Confirms(e, r)
      <4>1. opening[e] \in Seq(Waits)
        OBVIOUS
      <4>2. 1 \in 1..Len(opening[e]) /\ r = opening[e][1]
        BY <2>1, <4>1
      <4>3. r.as = "accept" => e \in Finishes
        BY <4>2 DEF OpeningInv, OpeningAt
      <4>4. e \in Finishes
        BY <3>1, <4>3 DEF Confirms
      <4> QED BY <1>13, <1>a, <3>1, <4>4 DEF OpenEnds
    <3>2. CASE ~Confirms(e, r)
      BY <1>13, <3>2 DEF OpenEnds
    <3> QED BY <3>1, <3>2
  <2> QED BY <1>13, <2>2, <2>4, <2>5 DEF OpenEnds, sendVars
<1>14. CASE UNCHANGED vars
  BY <1>14 DEF vars, sendVars, recvVars
<1> QED
  BY <1>1, <1>2, <1>3, <1>4, <1>5, <1>6, <1>7, <1>8, <1>9, <1>10, <1>11, <1>12, <1>13, <1>14 DEF Next
-----------------------------------------------------------------------------
(* How far the calls get in a step.                                        *)

FinMoves == {<<"none", "failed">>, <<"deriving", "pending">>, <<"deriving", "failed">>,
             <<"pending", "open">>, <<"open", "open">>}

AccMoves == {<<"asking", "deriving">>, <<"asking", "refused">>, <<"deriving", "confirming">>,
             <<"deriving", "refused">>, <<"confirming", "open">>}

\* A call of finishHandshake goes on, or takes a handshake that no call had.
FinGoesOn(c) ==
  /\ fin'[c].of = fin[c].of /\ fin'[c].eph = fin[c].eph
  /\ fin'[c].ph = fin[c].ph \/ <<fin[c].ph, fin'[c].ph>> \in FinMoves

FinTakes(c) ==
  /\ fin[c].ph = "none" /\ fin'[c].ph = "deriving" /\ fin'[c].eph \in Accepts
  /\ fin'[c].of \in Shakes \ used /\ fin'[c].of \in used' /\ message[fin'[c].of] # None
  /\ \A d \in Finishes \ {c} : fin'[d] = fin[d]

AccGoesOn(a) ==
  /\ acc'[a].at = acc[a].at /\ acc'[a].first = acc[a].first
  /\ acc'[a].ph = acc[a].ph \/ <<acc[a].ph, acc'[a].ph>> \in AccMoves

AccTakes(a) ==
  /\ acc[a].ph = "none" /\ acc'[a].ph \in {"asking", "refused"}
  /\ acc'[a].at \in Agents /\ acc'[a].first \in First
  /\ acc'[a].ph = "asking" => acc'[a].at = acc'[a].first.to

\* A call whose phase is set keeps the rest.
WithPhase(f, c, p) == [f EXCEPT ![c].ph = p]

LEMMA FinPhase ==
  ASSUME TypeOK, NEW d \in Finishes, NEW p, fin' = WithPhase(fin, d, p)
  PROVE  \A c \in Finishes : /\ fin'[c].of = fin[c].of /\ fin'[c].eph = fin[c].eph
                            /\ fin'[c].ph = IF c = d THEN p ELSE fin[c].ph
<1>1. TAKE c \in Finishes
<1>2. fin[c] \in FinishCalls
  BY DEF TypeOK
<1>3. fin'[c] = IF c = d THEN [fin[c] EXCEPT !.ph = p] ELSE fin[c]
  BY DEF TypeOK, WithPhase
<1> QED BY <1>2, <1>3 DEF FinishCalls

LEMMA AccPhase ==
  ASSUME TypeOK, NEW b \in Accepts, NEW p, acc' = WithPhase(acc, b, p)
  PROVE  \A a \in Accepts : /\ acc'[a].at = acc[a].at /\ acc'[a].first = acc[a].first
                           /\ acc'[a].ph = IF a = b THEN p ELSE acc[a].ph
<1>1. TAKE a \in Accepts
<1>2. acc[a] \in AcceptCalls
  BY DEF TypeOK
<1>3. acc'[a] = IF a = b THEN [acc[a] EXCEPT !.ph = p] ELSE acc[a]
  BY DEF TypeOK, WithPhase
<1> QED BY <1>2, <1>3 DEF AcceptCalls

LEMMA MessageStep ==
  ASSUME TypeOK, [Next]_vars
  PROVE  \A h \in Shakes : \/ message'[h] = message[h]
                           \/ message[h] = None /\ message'[h].eph = h
<1>1. ASSUME NEW h \in Shakes, NEW d \in Devices, NEW g \in Agents, StartHandshake(h, d, g)
      PROVE  \A k \in Shakes : message'[k] = message[k] \/ (message[k] = None /\ message'[k].eph = k)
  BY <1>1 DEF StartHandshake, TypeOK
<1>2. \/ message' = message
      \/ \E h \in Shakes, d \in Devices, g \in Agents : StartHandshake(h, d, g)
  BY DEF Next, vars, FinishHandshake, FinishDerives, Accept, AcceptHandshake, Authorized, AcceptDerives,
         Seal, Open, SealBegins, SealEnds, OpenBegins, OpenEnds
<1> QED BY <1>1, <1>2

LEMMA FinStep ==
  ASSUME TypeOK, OpeningInv, [Next]_vars
  PROVE  used \subseteq used' /\ \A c \in Finishes : FinGoesOn(c) \/ FinTakes(c)
<1>1. ASSUME NEW d \in Finishes, NEW h \in Shakes, NEW x \in Accepts, FinishHandshake(d, h, x)
      PROVE  used \subseteq used' /\ \A c \in Finishes : FinGoesOn(c) \/ FinTakes(c)
  <2>1. CASE h \in used
    BY <1>1, <2>1, FinPhase DEF FinishHandshake, WithPhase, FinGoesOn, FinMoves
  <2>2. CASE h \notin used
    <3>1. fin' = [fin EXCEPT ![d] = [ph |-> "deriving", of |-> h, eph |-> x]] /\ used' = used \cup {h}
      BY <1>1, <2>2 DEF FinishHandshake
    <3>2. FinTakes(d)
      BY <1>1, <2>2, <3>1 DEF FinishHandshake, TypeOK, FinTakes
    <3>3. \A c \in Finishes \ {d} : FinGoesOn(c)
      BY <3>1 DEF TypeOK, FinGoesOn
    <3> QED BY <3>1, <3>2, <3>3
  <2> QED BY <2>1, <2>2
<1>2. ASSUME NEW d \in Finishes, NEW ok \in BOOLEAN, FinishDerives(d, ok)
      PROVE  used \subseteq used' /\ \A c \in Finishes : FinGoesOn(c)
  <2>1. CASE ok
    BY <1>2, <2>1, FinPhase DEF FinishDerives, WithPhase, FinGoesOn, FinMoves
  <2>2. CASE ~ok
    BY <1>2, <2>2, FinPhase DEF FinishDerives, WithPhase, FinGoesOn, FinMoves
  <2> QED BY <2>1, <2>2
<1>3. ASSUME NEW e \in Ends, OpenEnds(e)
      PROVE  used \subseteq used' /\ \A c \in Finishes : FinGoesOn(c)
  <2>1. CASE fin' = fin
    BY <1>3, <2>1 DEF OpenEnds, FinGoesOn
  <2>2. CASE fin' # fin
    <3>1. Confirms(e, Head(opening[e])) /\ fin' = WithPhase(fin, e, "open")
      BY <1>3, <2>2 DEF OpenEnds, WithPhase
    <3>2. opening[e] # <<>> /\ opening[e] \in Seq(Waits) /\ opening[e][1].as = "accept" /\ HasKeys(e)
      BY <1>3, <3>1 DEF OpenEnds, OpeningInv, OpeningAt, Confirms, TypeOK
    <3>3. e \in Finishes
      BY <3>2 DEF OpeningInv, OpeningAt
    <3>4. fin[e].ph \in {"pending", "open"}
      BY <3>2, <3>3 DEF HasKeys
    <3> QED BY <1>3, <3>1, <3>3, <3>4, FinPhase DEF OpenEnds, FinGoesOn, FinMoves
  <2> QED BY <2>1, <2>2
<1>4. \/ fin' = fin /\ used' = used
      \/ \E c \in Finishes, h \in Shakes, x \in Accepts : FinishHandshake(c, h, x)
      \/ \E c \in Finishes, ok \in BOOLEAN : FinishDerives(c, ok)
      \/ \E e \in Ends : OpenEnds(e)
  BY DEF Next, vars, StartHandshake, Accept, AcceptHandshake, Authorized, AcceptDerives,
         Seal, Open, SealBegins, SealEnds, OpenBegins
<1>5. CASE fin' = fin /\ used' = used
  BY <1>5 DEF FinGoesOn
<1> QED BY <1>1, <1>2, <1>3, <1>4, <1>5

LEMMA AccStep ==
  ASSUME TypeOK, SealingInv, [Next]_vars
  PROVE  \A a \in Accepts : AccGoesOn(a) \/ AccTakes(a)
<1>1. ASSUME NEW b \in Accepts, NEW g \in Agents, NEW m \in First, AcceptHandshake(b, g, m)
      PROVE  \A a \in Accepts : AccGoesOn(a) \/ AccTakes(a)
  BY <1>1 DEF AcceptHandshake, TypeOK, AccGoesOn, AccTakes
<1>2. ASSUME NEW b \in Accepts, NEW ok \in BOOLEAN, Authorized(b, ok) \/ AcceptDerives(b, ok)
      PROVE  \A a \in Accepts : AccGoesOn(a)
  <2>1. PICK p : acc' = WithPhase(acc, b, p) /\ <<acc[b].ph, p>> \in AccMoves
    <3>1. CASE ok
      BY <1>2, <3>1 DEF Authorized, AcceptDerives, AccMoves, WithPhase
    <3>2. CASE ~ok
      BY <1>2, <3>2 DEF Authorized, AcceptDerives, AccMoves, WithPhase
    <3> QED BY <3>1, <3>2
  <2> QED BY <2>1, AccPhase DEF AccGoesOn
<1>3. ASSUME NEW e \in Ends, SealEnds(e)
      PROVE  \A a \in Accepts : AccGoesOn(a)
  <2>1. CASE Sealed(e).type = "confirm"
    <3>1. sealing[e] # <<>> /\ sealing[e] \in Seq(Items) /\ sealing[e][1].type = "confirm"
      BY <1>3, <2>1 DEF SealEnds, SealingInv, SealingAt, Sealed, TypeOK
    <3>2. e \in Accepts /\ acc[e].ph = "confirming"
      BY <3>1 DEF SealingInv, SealingAt
    <3> QED BY <1>3, <2>1, <3>2, AccPhase DEF SealEnds, AccGoesOn, AccMoves
  <2>2. CASE Sealed(e).type # "confirm"
    BY <1>3, <2>2 DEF SealEnds, AccGoesOn
  <2> QED BY <2>1, <2>2
<1>4. \/ acc' = acc
      \/ \E a \in Accepts, g \in Agents, m \in First : AcceptHandshake(a, g, m)
      \/ \E a \in Accepts, ok \in BOOLEAN : Authorized(a, ok) \/ AcceptDerives(a, ok)
      \/ \E e \in Ends : SealEnds(e)
  BY DEF Next, vars, StartHandshake, FinishHandshake, FinishDerives, Accept,
         Seal, Open, SealBegins, OpenBegins, OpenEnds
<1>5. CASE acc' = acc
  BY <1>5 DEF AccGoesOn
<1> QED BY <1>1, <1>2, <1>3, <1>4, <1>5

-----------------------------------------------------------------------------
(* The messages and the calls.                                             *)

LEMMA MessageKept ==
  ASSUME TypeOK, MessageInv, [Next]_vars
  PROVE  MessageInv'
BY MessageStep DEF MessageInv

LEMMA FinishKept ==
  ASSUME TypeOK, FinishInv, OpeningInv, [Next]_vars
  PROVE  FinishInv'
<1>1. used \subseteq used' /\ \A c \in Finishes : FinGoesOn(c) \/ FinTakes(c)
  BY FinStep
<1>2. \A h \in Shakes : message[h] # None => message'[h] # None
  BY MessageStep
<1>3. ASSUME NEW c \in Finishes, fin'[c].ph \in {"deriving", "pending", "open"}
      PROVE  fin'[c].of \in Shakes /\ fin'[c].eph \in Accepts
  <2>1. CASE FinGoesOn(c)
    BY <1>3, <2>1 DEF FinGoesOn, FinMoves, FinishInv
  <2>2. CASE FinTakes(c)
    BY <2>2 DEF FinTakes
  <2> QED BY <1>1, <2>1, <2>2
<1>4. ASSUME NEW c \in Finishes, fin'[c].of \in Shakes
      PROVE  fin'[c].of \in used' /\ message'[fin'[c].of] # None
  <2>1. CASE FinGoesOn(c)
    BY <1>1, <1>2, <1>4, <2>1 DEF FinGoesOn, FinishInv
  <2>2. CASE FinTakes(c)
    BY <1>2, <1>4, <2>2 DEF FinTakes
  <2> QED BY <1>1, <2>1, <2>2
<1>5. ASSUME NEW c \in Finishes, NEW d \in Finishes, fin'[c].of \in Shakes, fin'[c].of = fin'[d].of
      PROVE  c = d
  <2>1. CASE FinTakes(c)
    BY <1>5, <2>1 DEF FinTakes, FinishInv
  <2>2. CASE FinTakes(d)
    BY <1>5, <2>2 DEF FinTakes, FinishInv
  <2>3. CASE FinGoesOn(c) /\ FinGoesOn(d)
    BY <1>5, <2>3 DEF FinGoesOn, FinishInv
  <2> QED BY <1>1, <2>1, <2>2, <2>3
<1> QED BY <1>3, <1>4, <1>5 DEF FinishInv

LEMMA AcceptKept ==
  ASSUME TypeOK, AcceptInv, SealingInv, [Next]_vars
  PROVE  AcceptInv'
<1> SUFFICES ASSUME NEW a \in Accepts, acc'[a].ph \notin {"none", "refused"}
             PROVE  acc'[a].first \in First /\ acc'[a].at \in Agents /\ acc'[a].at = acc'[a].first.to
  BY DEF AcceptInv
<1>1. CASE AccGoesOn(a)
  BY <1>1 DEF AccGoesOn, AccMoves, AcceptInv
<1>2. CASE AccTakes(a)
  BY <1>2 DEF AccTakes
<1> QED BY <1>1, <1>2, AccStep

\* An end that has its keys keeps them.
LEMMA KeysLast ==
  ASSUME TypeOK, FinishInv, AcceptInv, SealingInv, OpeningInv, [Next]_vars, NEW e \in Ends, HasKeys(e)
  PROVE  HasKeys(e)' /\ KeyOf(e)' = KeyOf(e)
<1>1. CASE e \in Finishes
  <2>1. fin[e].ph \in {"pending", "open"}
    BY <1>1 DEF HasKeys
  <2>2. FinGoesOn(e)
    BY <1>1, <2>1, FinStep DEF FinTakes
  <2>3. fin'[e].ph \in {"pending", "open"} /\ fin'[e].of = fin[e].of /\ fin'[e].eph = fin[e].eph
    BY <2>1, <2>2 DEF FinGoesOn, FinMoves
  <2>4. message'[fin[e].of] = message[fin[e].of]
    BY <1>1, <2>1, MessageStep DEF FinishInv
  <2> QED BY <1>1, <2>3, <2>4 DEF HasKeys, KeyOf, PhoneKey
<1>2. CASE e \notin Finishes
  <2>1. e \in Accepts /\ acc[e].ph \in {"confirming", "open"}
    BY <1>2 DEF HasKeys, Ends
  <2>2. AccGoesOn(e)
    BY <2>1, AccStep DEF AccTakes
  <2>3. acc'[e].ph \in {"confirming", "open"} /\ acc'[e].at = acc[e].at /\ acc'[e].first = acc[e].first
    BY <2>1, <2>2 DEF AccGoesOn, AccMoves
  <2> QED BY <1>2, <2>3 DEF HasKeys, KeyOf, AgentKey
<1> QED BY <1>1, <1>2

\* A call of acceptHandshake that has returned stays as it is.
LEMMA OpenLasts ==
  ASSUME TypeOK, SealingInv, [Next]_vars, NEW a \in Accepts, acc[a].ph = "open"
  PROVE  acc'[a].ph = "open" /\ acc'[a].at = acc[a].at /\ acc'[a].first = acc[a].first
BY AccStep DEF AccGoesOn, AccTakes, AccMoves

\* And what it has to do with a call that has taken its handshake.
LEMMA PeersLast ==
  ASSUME TypeOK, FinishInv, SealingInv, OpeningInv, [Next]_vars,
         NEW c \in Finishes, HasKeys(c), NEW a \in Accepts, acc[a].ph # "none", Peers(c, a)
  PROVE  Peers(c, a)'
<1>1. fin[c].of \in Shakes /\ message[fin[c].of] # None /\ fin[c].ph \in {"pending", "open"}
  BY DEF HasKeys, FinishInv
<1>2. fin'[c].of = fin[c].of /\ fin'[c].eph = fin[c].eph
  BY <1>1, FinStep DEF FinGoesOn, FinTakes
<1>3. message'[fin[c].of] = message[fin[c].of]
  BY <1>1, MessageStep
<1>4. acc'[a].at = acc[a].at /\ acc'[a].first = acc[a].first
  BY AccStep DEF AccGoesOn, AccTakes
<1> QED BY <1>1, <1>2, <1>3, <1>4 DEF Peers

-----------------------------------------------------------------------------
(* Sealing.                                                                *)

\* The agent's confirm frame is the only thing it seals until it has a session.
LEMMA SealingKept ==
  ASSUME TypeOK, FinishInv, AcceptInv, SealingInv, OpeningInv, [Next]_vars
  PROVE  SealingInv'
<1> USE DEF SealingInv
<1>k. \A e \in Ends : HasKeys(e) => HasKeys(e)'
  BY KeysLast
<1>d. \A e \in Ends : e \in Accepts => e \notin Finishes
  BY HandshakeAssumption DEF HandshakeAssumption
\* Whose queue does not change.
<1>s. ASSUME NEW e \in Ends, sealing'[e] = sealing[e], taken'[e] = taken[e], out'[e] = out[e],
             e \in Accepts => (acc'[e].ph = "confirming" <=> acc[e].ph = "confirming")
      PROVE  SealingAt(e)'
  BY <1>s, <1>k DEF SealingAt
<1>1. ASSUME NEW a \in Accepts, NEW ok \in BOOLEAN, AcceptDerives(a, ok), NEW e \in Ends
      PROVE  SealingAt(e)'
  <2>1. CASE e = a /\ ok
    <3>1. acc[a].ph = "deriving" /\ a \in Ends /\ a \notin Finishes
      BY <1>1, <1>d DEF AcceptDerives, Ends
    <3>2. sealing[a] = <<>> /\ taken[a] = None
      BY <3>1 DEF SealingAt, HasKeys
    <3>3. acc'[a].ph = "confirming"
      <4>1. acc' = WithPhase(acc, a, "confirming")
        BY <1>1, <2>1 DEF AcceptDerives, WithPhase
      <4>2. \A b \in Accepts : acc'[b].ph = IF b = a THEN "confirming" ELSE acc[b].ph
        BY <4>1, AccPhase
      <4> QED BY <4>2
    <3>4. sealing'[a] = <<[type |-> "confirm", body |-> AgentKey(a).over]>> /\ taken'[a] = None
      BY <1>1, <2>1, <3>1, <3>2 DEF AcceptDerives, TypeOK
    <3> QED BY <2>1, <3>1, <3>3, <3>4 DEF SealingAt, HasKeys
  <2>2. CASE ~(e = a /\ ok)
    <3>1. sealing'[e] = sealing[e] /\ taken'[e] = taken[e] /\ out'[e] = out[e]
      BY <1>1, <2>2 DEF AcceptDerives, TypeOK
    <3>2. acc[a].ph = "deriving"
      BY <1>1 DEF AcceptDerives
    <3>3. e \in Accepts => (acc'[e].ph = "confirming" <=> acc[e].ph = "confirming")
      <4>1. CASE ok
        <5>1. acc' = WithPhase(acc, a, "confirming")
          BY <1>1, <4>1 DEF AcceptDerives, WithPhase
        <5> QED BY <2>2, <4>1, <5>1, AccPhase
      <4>2. CASE ~ok
        <5>1. acc' = WithPhase(acc, a, "refused")
          BY <1>1, <4>2 DEF AcceptDerives, WithPhase
        <5> QED BY <3>2, <5>1, AccPhase
      <4> QED BY <4>1, <4>2
    <3> QED BY <1>s, <3>1, <3>3
  <2> QED BY <2>1, <2>2
<1>2. ASSUME NEW d \in Ends, NEW b \in Bodies, Seal(d, b), NEW e \in Ends
      PROVE  SealingAt(e)'
  <2>1. CASE e = d
    <3> DEFINE item == [type |-> "data", body |-> b]
    <3>1. sealing'[e] = Append(sealing[e], item) /\ sealing[e] \in Seq(Items)
      BY <1>2, <2>1 DEF Seal, TypeOK
    <3>2. HasKeys(e) /\ (e \in Accepts => acc[e].ph = "open")
      BY <1>2, <1>d, <2>1 DEF Seal, IsOpen, HasKeys
    <3>3. taken' = taken /\ out' = out /\ acc' = acc
      BY <1>2 DEF Seal
    <3>4. \A i \in 1..Len(sealing'[e]) :
            sealing'[e][i].type = "confirm" => i \in 1..Len(sealing[e]) /\ sealing'[e][i] = sealing[e][i]
      <4>1. item.type # "confirm"
        OBVIOUS
      <4> HIDE DEF item
      <4> QED BY <3>1, <4>1
    <3>5. sealing'[e] # <<>>
      BY <3>1
    <3> QED BY <1>k, <3>2, <3>3, <3>4, <3>5 DEF SealingAt
  <2>2. CASE e # d
    BY <1>2, <1>s, <2>2 DEF Seal, TypeOK
  <2> QED BY <2>1, <2>2
<1>3. ASSUME NEW d \in Ends, SealBegins(d), NEW e \in Ends
      PROVE  SealingAt(e)'
  <2>1. CASE e = d
    <3>1. sealing[e] # <<>> /\ taken[e] = None /\ acc' = acc /\ HasKeys(e) /\ sealing[e] \in Seq(Items)
      BY <1>3, <2>1 DEF SealBegins, SealingAt, TypeOK
    <3>2. CASE out[d] >= MaxCounter
      <4>1. sealing'[e] = Tail(sealing[e]) /\ taken' = taken /\ out' = out
        BY <1>3, <2>1, <3>2 DEF SealBegins, TypeOK
      <4>2. /\ Len(sealing'[e]) = Len(sealing[e]) - 1
            /\ \A i \in 1..Len(sealing'[e]) : i + 1 \in 1..Len(sealing[e]) /\ sealing'[e][i] = sealing[e][i + 1]
        BY <3>1, <4>1
      <4> QED BY <1>k, <3>1, <4>1, <4>2 DEF SealingAt
    <3>3. CASE ~(out[d] >= MaxCounter)
      <4>1. taken'[e] = out[e] /\ out'[e] = out[e] + 1 /\ sealing' = sealing
        BY <1>3, <2>1, <3>3 DEF SealBegins, TypeOK
      <4> QED BY <1>k, <3>1, <4>1 DEF SealingAt
    <3> QED BY <3>2, <3>3
  <2>2. CASE e # d
    <3>1. sealing'[e] = sealing[e] /\ taken'[e] = taken[e] /\ out'[e] = out[e] /\ acc' = acc
      BY <1>3, <2>2 DEF SealBegins, TypeOK
    <3> QED BY <1>s, <3>1
  <2> QED BY <2>1, <2>2
<1>4. ASSUME NEW d \in Ends, SealEnds(d), NEW e \in Ends
      PROVE  SealingAt(e)'
  <2>1. sealing[d] # <<>> /\ sealing[d] \in Seq(Items) /\ HasKeys(d)
    BY <1>4 DEF SealEnds, SealingAt, TypeOK
  <2>2. Sealed(d).type = "confirm" => d \in Accepts /\ acc[d].ph = "confirming" /\ Len(sealing[d]) <= 1
    BY <2>1 DEF SealingAt, Sealed
  <2>3. Sealed(d).type = "confirm" => \A b \in Accepts : acc'[b].ph = IF b = d THEN "open" ELSE acc[b].ph
    <3> SUFFICES ASSUME Sealed(d).type = "confirm"
                 PROVE  \A b \in Accepts : acc'[b].ph = IF b = d THEN "open" ELSE acc[b].ph
      OBVIOUS
    <3>1. d \in Accepts /\ acc' = WithPhase(acc, d, "open")
      BY <1>4, <2>2 DEF SealEnds, WithPhase
    <3> QED BY <3>1, AccPhase
  <2>4. Sealed(d).type # "confirm" => acc' = acc
    BY <1>4 DEF SealEnds
  <2>5. CASE e = d
    <3>1. sealing'[e] = Tail(sealing[e]) /\ taken'[e] = None
      BY <1>4, <2>5 DEF SealEnds, TypeOK
    <3>2. /\ Len(sealing'[e]) = Len(sealing[e]) - 1
          /\ \A i \in 1..Len(sealing'[e]) : i + 1 \in 1..Len(sealing[e]) /\ sealing'[e][i] = sealing[e][i + 1]
      BY <2>1, <2>5, <3>1
    <3>3. CASE Sealed(d).type = "confirm"
      BY <1>k, <2>1, <2>2, <2>3, <2>5, <3>1, <3>2, <3>3 DEF SealingAt
    <3>4. CASE Sealed(d).type # "confirm"
      BY <1>k, <2>1, <2>4, <2>5, <3>1, <3>2, <3>4 DEF SealingAt
    <3> QED BY <3>3, <3>4
  <2>6. CASE e # d
    <3>1. sealing'[e] = sealing[e] /\ taken'[e] = taken[e] /\ out'[e] = out[e]
      BY <1>4, <2>6 DEF SealEnds, TypeOK
    <3>2. e \in Accepts => acc'[e].ph = acc[e].ph
      BY <2>3, <2>4, <2>6
    <3> QED BY <1>s, <3>1, <3>2
  <2> QED BY <2>5, <2>6
<1>5. ASSUME NEW a \in Accepts, (\E g \in Agents, m \in First : AcceptHandshake(a, g, m))
                             \/ (\E ok \in BOOLEAN : Authorized(a, ok)), NEW e \in Ends
      PROVE  SealingAt(e)'
  <2>1. sealing' = sealing /\ taken' = taken /\ out' = out
    BY <1>5 DEF AcceptHandshake, Authorized, sendVars
  <2>2. acc[a].ph # "confirming" /\ \E q : q.ph # "confirming" /\ acc' = [acc EXCEPT ![a] = q]
    <3>1. ASSUME NEW g \in Agents, NEW m \in First, AcceptHandshake(a, g, m) PROVE <2>2
      BY <3>1 DEF AcceptHandshake
    <3>2. ASSUME NEW ok \in BOOLEAN, Authorized(a, ok) PROVE <2>2
      <4> DEFINE q == [acc[a] EXCEPT !.ph = IF ok THEN "deriving" ELSE "refused"]
      <4>1. acc[a] \in AcceptCalls
        BY DEF TypeOK
      <4>2. q.ph # "confirming"
        BY <4>1 DEF AcceptCalls
      <4>3. acc' = [acc EXCEPT ![a] = q] /\ acc[a].ph # "confirming"
        BY <3>2 DEF Authorized
      <4> HIDE DEF q
      <4> QED BY <4>2, <4>3
    <3> QED BY <1>5, <3>1, <3>2
  <2>3. e \in Accepts => (acc'[e].ph = "confirming" <=> acc[e].ph = "confirming")
    BY <2>2 DEF TypeOK
  <2> QED BY <1>s, <2>1, <2>3
<1>6. \/ sealing' = sealing /\ taken' = taken /\ out' = out /\ acc' = acc
      \/ \E a \in Accepts : \/ \E g \in Agents, m \in First : AcceptHandshake(a, g, m)
                            \/ \E ok \in BOOLEAN : Authorized(a, ok)
      \/ \E a \in Accepts, ok \in BOOLEAN : AcceptDerives(a, ok)
      \/ \E e \in Ends, b \in Bodies : Seal(e, b)
      \/ \E e \in Ends : SealBegins(e) \/ SealEnds(e)
  BY DEF Next, vars, sendVars, StartHandshake, FinishHandshake, FinishDerives, Accept, Open, OpenBegins, OpenEnds
<1>7. CASE sealing' = sealing /\ taken' = taken /\ out' = out /\ acc' = acc
  BY <1>7, <1>s
<1> QED BY <1>1, <1>2, <1>3, <1>4, <1>5, <1>6, <1>7

-----------------------------------------------------------------------------
(* Keys.                                                                   *)

\* No two ends that send the same way have one key.
LEMMA KeyIsOfOne ==
  ASSUME TypeOK, MessageInv, FinishInv, NEW d \in Ends, NEW e \in Ends,
         HasKeys(d), HasKeys(e), Dir(d) = Dir(e), KeyOf(d) = KeyOf(e)
  PROVE  d = e
<1>1. CASE d \in Finishes
  <2>1. e \in Finishes
    BY <1>1 DEF Dir
  <2>2. PhoneKey(d).over[1] = PhoneKey(e).over[1]
    BY <1>1, <2>1 DEF KeyOf
  <2>3. message[fin[d].of] = message[fin[e].of]
    BY <2>2 DEF PhoneKey, Derived
  <2>4. /\ fin[d].of \in Shakes /\ message[fin[d].of] # None
        /\ fin[e].of \in Shakes /\ message[fin[e].of] # None
    BY <1>1, <2>1 DEF HasKeys, FinishInv
  <2> QED BY <1>1, <2>1, <2>3, <2>4 DEF MessageInv, FinishInv
<1>2. CASE d \notin Finishes
  <2>1. e \notin Finishes
    BY <1>2 DEF Dir
  <2>2. AgentKey(d).over[2] = AgentKey(e).over[2]
    BY <1>2, <2>1 DEF KeyOf
  <2> QED BY <2>2 DEF AgentKey, Derived
<1> QED BY <1>1, <1>2

\* A phone and an agent that have one key are peers.
LEMMA KeyIsOfPeers ==
  ASSUME TypeOK, FinishInv, AcceptInv, NEW c \in Finishes, NEW a \in Accepts, HasKeys(c), HasKeys(a),
         KeyOf(c) = KeyOf(a)
  PROVE  Peers(c, a)
<1>1. a \notin Finishes
  BY HandshakeAssumption DEF HandshakeAssumption
<1>2. PhoneKey(c).over = AgentKey(a).over
  BY <1>1 DEF KeyOf
<1>3. message[fin[c].of] = acc[a].first /\ fin[c].eph = a
  BY <1>2 DEF PhoneKey, AgentKey, Derived
<1>4. fin[c].of \in Shakes /\ message[fin[c].of] # None
  BY DEF HasKeys, FinishInv
<1>5. acc[a].at = acc[a].first.to
  BY <1>1 DEF HasKeys, AcceptInv
<1> QED BY <1>3, <1>4, <1>5 DEF Peers

\* Who sealed what an end opens is its peer, at the other end.
LEMMA OpensOfPeer ==
  ASSUME TypeOK, FinishInv, AcceptInv, SealedInv, NEW e \in Ends, HasKeys(e), NEW f \in sealed, Fits(e, f)
  PROVE  /\ e \in Finishes => f.by \in Accepts /\ Peers(e, f.by)
         /\ e \notin Finishes => f.by \in Finishes /\ Peers(f.by, e)
<1>1. f.by \in Ends /\ HasKeys(f.by) /\ KeyOf(f.by) = KeyOf(e) /\ Dir(f.by) # Dir(e)
  BY DEF SealedInv, Ours, Fits, TypeOK, Frames
<1>2. e \in Finishes => f.by \in Accepts
  BY <1>1 DEF Dir, Ends
<1>3. e \notin Finishes => f.by \in Finishes /\ e \in Accepts
  BY <1>1 DEF Dir, Ends
<1> QED BY <1>1, <1>2, <1>3, KeyIsOfPeers

-----------------------------------------------------------------------------
(* What was sealed.                                                        *)

LEMMA SealedKept ==
  ASSUME TypeOK, TypeOK', FinishInv, AcceptInv, SealingInv, OpeningInv, SealedInv, [Next]_vars
  PROVE  SealedInv' /\ sealed \subseteq sealed'
<1>n. None \notin Nat
  BY HandshakeAssumption DEF HandshakeAssumption
<1>t. \A f \in sealed : f.by \in Ends /\ f.n \in Nat
  BY DEF TypeOK, Frames
<1>k. \A f \in sealed : HasKeys(f.by)' /\ KeyOf(f.by)' = KeyOf(f.by)
  BY <1>t, KeysLast DEF SealedInv, Ours
<1>o. \A f \in sealed : f.type = "confirm" => f.by \in Accepts /\ acc'[f.by].ph = "open"
  BY OpenLasts DEF SealedInv, Ours
\* A frame is its end's as long as the counters say so.
<1>s. ASSUME NEW f \in sealed, out[f.by] <= out'[f.by], f.n # taken'[f.by]
      PROVE  Ours(f)'
  <2>1. out[f.by] \in Nat /\ out'[f.by] \in Nat /\ f.n < out[f.by]
    BY <1>t DEF TypeOK, SealedInv, Ours
  <2>2. f.n < out'[f.by]
    BY <1>s, <1>t, <2>1
  <2> QED BY <1>s, <1>k, <1>o, <2>2 DEF SealedInv, Ours, Dir
<1>1. ASSUME sealed' = sealed, taken' = taken, out' = out
      PROVE  SealedInv' /\ sealed \subseteq sealed'
  <2>1. \A f \in sealed : out[f.by] \in Nat /\ f.n # taken[f.by]
    BY <1>t DEF TypeOK, SealedInv, Ours
  <2>2. \A f \in sealed : Ours(f)'
    BY <1>1, <1>s, <2>1
  <2> QED BY <1>1, <2>2 DEF SealedInv
<1>2. ASSUME NEW d \in Ends, SealBegins(d)
      PROVE  SealedInv' /\ sealed \subseteq sealed'
  <2>1. sealed' = sealed
    BY <1>2 DEF SealBegins
  <2>2. ASSUME NEW f \in sealed PROVE Ours(f)'
    <3>1. out[f.by] \in Nat /\ f.n < out[f.by] /\ f.n # taken[f.by]
      BY <1>t DEF TypeOK, SealedInv, Ours
    <3>2. CASE out[d] >= MaxCounter
      BY <1>2, <1>s, <3>1, <3>2 DEF SealBegins
    <3>3. CASE ~(out[d] >= MaxCounter)
      <4>1. taken' = [taken EXCEPT ![d] = out[d]] /\ out' = [out EXCEPT ![d] = out[d] + 1]
        BY <1>2, <3>3 DEF SealBegins
      <4>2. out[f.by] <= out'[f.by] /\ f.n # taken'[f.by]
        BY <1>t, <3>1, <4>1 DEF TypeOK
      <4> QED BY <1>s, <4>2
    <3> QED BY <3>2, <3>3
  <2> QED BY <2>1, <2>2 DEF SealedInv
<1>3. ASSUME NEW d \in Ends, SealEnds(d)
      PROVE  SealedInv' /\ sealed \subseteq sealed'
  <2>0. PICK s : s = Sealed(d)
    OBVIOUS
  <2>1. /\ sealed' = sealed \cup {s} /\ out' = out /\ taken' = [taken EXCEPT ![d] = None]
        /\ taken[d] # None
    BY <1>3, <2>0 DEF SealEnds
  <2>2. /\ s.by = d /\ s.n = taken[d] /\ s.key = KeyOf(d) /\ s.dir = Dir(d)
        /\ s.type = Head(sealing[d]).type
    BY <2>0 DEF Sealed
  <2>3. sealing[d] # <<>> /\ HasKeys(d) /\ out[d] = taken[d] + 1 /\ taken[d] \in Nat
    BY <2>1 DEF SealingInv, SealingAt, TypeOK
  <2>4. s.type = "confirm" => d \in Accepts /\ acc'[d].ph = "open"
    <3> SUFFICES ASSUME s.type = "confirm" PROVE d \in Accepts /\ acc'[d].ph = "open"
      OBVIOUS
    <3>1. sealing[d] \in Seq(Items) /\ sealing[d][1].type = "confirm"
      BY <2>2, <2>3 DEF TypeOK
    <3>2. d \in Accepts
      BY <2>3, <3>1 DEF SealingInv, SealingAt
    <3>3. acc' = WithPhase(acc, d, "open")
      BY <1>3, <2>0 DEF SealEnds, WithPhase
    <3>4. \A a \in Accepts : acc'[a].ph = IF a = d THEN "open" ELSE acc[a].ph
      BY <3>2, <3>3, AccPhase
    <3> QED BY <3>2, <3>4
  <2>5. HasKeys(d)' /\ KeyOf(d)' = KeyOf(d)
    BY <2>3, KeysLast
  <2>6. Ours(s)'
    BY <1>n, <2>1, <2>2, <2>3, <2>4, <2>5 DEF Ours, Dir, TypeOK
  <2>7. ASSUME NEW f \in sealed PROVE Ours(f)'
    <3>1. out[f.by] <= out'[f.by]
      BY <1>t, <2>1 DEF TypeOK
    <3>2. f.n # taken'[f.by]
      BY <1>n, <1>t, <2>1 DEF TypeOK, SealedInv, Ours
    <3> QED BY <1>s, <3>1, <3>2
  <2>8. \A f \in sealed : f.by = s.by => f.n # s.n
    BY <2>2 DEF SealedInv, Ours
  <2>9. \A f, g \in sealed' : f.by = g.by /\ f.n = g.n => f = g
    BY <2>1, <2>8 DEF SealedInv
  <2> QED BY <2>1, <2>6, <2>7, <2>9 DEF SealedInv
<1>4. \/ sealed' = sealed /\ taken' = taken /\ out' = out
      \/ \E e \in Ends : SealBegins(e) \/ SealEnds(e)
  BY DEF Next, vars, sendVars, StartHandshake, FinishHandshake, FinishDerives, Accept,
         AcceptHandshake, Authorized, AcceptDerives, Seal, Open, OpenBegins, OpenEnds
<1> QED BY <1>1, <1>2, <1>3, <1>4

-----------------------------------------------------------------------------
(* Opening.                                                                *)

WithWait(e, f, w) == [opening EXCEPT ![e] = Append(@, [frame |-> f, as |-> w])]

LEMMA OpeningKept ==
  ASSUME TypeOK, FinishInv, AcceptInv, SealingInv, OpeningInv, sealed \subseteq sealed', [Next]_vars
  PROVE  OpeningInv'
<1> USE DEF OpeningInv
<1>k. \A e \in Ends : HasKeys(e) => HasKeys(e)'
  BY KeysLast
<1>s. ASSUME NEW e \in Ends, opening'[e] = opening[e], checked'[e] = checked[e], lastIn'[e] = lastIn[e]
      PROVE  OpeningAt(e)'
  BY <1>s, <1>k DEF OpeningAt
\* A frame joins the queue.
<1>1. ASSUME NEW e \in Ends, NEW f \in sealed, NEW w \in {"accept", "open"},
             HasKeys(e), w = "accept" => e \in Finishes,
             opening' = WithWait(e, f, w),
             checked' = checked, lastIn' = lastIn, NEW d \in Ends
      PROVE  OpeningAt(d)'
  <2>1. CASE d = e
    <3>1. PICK r : r = [frame |-> f, as |-> w]
      OBVIOUS
    <3>2. opening'[e] = Append(opening[e], r) /\ opening[e] \in Seq(Waits)
      BY <1>1, <3>1 DEF TypeOK, WithWait
    <3>3. r.frame \in sealed /\ (r.as = "accept" => e \in Finishes) /\ r \in Waits
      BY <1>1, <3>1 DEF Waits, TypeOK
    <3>4. \A i \in 1..Len(opening'[e]) :
            opening'[e][i].frame \in sealed' /\ (opening'[e][i].as = "accept" => e \in Finishes)
      <4>1. \A i \in 1..Len(opening[e]) :
              opening[e][i].frame \in sealed /\ (opening[e][i].as = "accept" => e \in Finishes)
        BY DEF OpeningAt
      <4>2. \A i \in 1..Len(opening'[e]) : opening'[e][i] = r \/ (i \in 1..Len(opening[e]) /\ opening'[e][i] = opening[e][i])
        BY <3>2, <3>3
      <4> QED BY <3>3, <4>1, <4>2
    <3>5. opening'[e] # <<>> /\ (opening[e] # <<>> => Head(opening'[e]) = Head(opening[e]))
      <4>1. PICK q, u : q = opening[e] /\ u = opening'[e]
        OBVIOUS
      <4>2. u = Append(q, r) /\ q \in Seq(Waits) /\ r \in Waits
        BY <3>2, <3>3, <4>1
      <4>3. u # <<>> /\ (q # <<>> => Head(u) = Head(q))
        BY <4>2
      <4> QED BY <4>1, <4>3
    <3>6. checked'[e] => opening'[e] # <<>> /\ Head(opening'[e]).frame.n > lastIn'[e]
      <4>1. checked[e] => opening[e] # <<>> /\ Head(opening[e]).frame.n > lastIn[e]
        BY DEF OpeningAt
      <4> QED BY <1>1, <3>5, <4>1
    <3>7. HasKeys(e)'
      BY <1>1, <1>k
    <3> QED BY <2>1, <3>4, <3>6, <3>7 DEF OpeningAt
  <2>2. CASE d # e
    BY <1>1, <1>s, <2>2 DEF TypeOK, WithWait
  <2> QED BY <2>1, <2>2
\* The first leaves it.
<1>2. ASSUME NEW e \in Ends, opening[e] # <<>>, opening' = [opening EXCEPT ![e] = Tail(@)],
             checked'[e] = FALSE, \A d \in Ends \ {e} : checked'[d] = checked[d] /\ lastIn'[d] = lastIn[d],
             NEW d \in Ends
      PROVE  OpeningAt(d)'
  <2>1. CASE d = e
    <3>1. opening'[e] = Tail(opening[e]) /\ opening[e] \in Seq(Waits) /\ opening[e] # <<>>
      BY <1>2 DEF TypeOK
    <3>2. \A i \in 1..Len(opening'[e]) : i + 1 \in 1..Len(opening[e]) /\ opening'[e][i] = opening[e][i + 1]
      <4>1. PICK q, r : q = opening[e] /\ r = opening'[e]
        OBVIOUS
      <4>2. q \in Seq(Waits) /\ q # <<>> /\ r = Tail(q)
        BY <3>1, <4>1
      <4>3. \A i \in 1..Len(r) : i + 1 \in 1..Len(q) /\ r[i] = q[i + 1]
        BY <4>2
      <4> QED BY <4>1, <4>3
    <3>3. \A i \in 1..Len(opening'[e]) :
            opening'[e][i].frame \in sealed' /\ (opening'[e][i].as = "accept" => e \in Finishes)
      <4>1. \A i \in 1..Len(opening[e]) :
              opening[e][i].frame \in sealed /\ (opening[e][i].as = "accept" => e \in Finishes)
        BY DEF OpeningAt
      <4> QED BY <3>2, <4>1
    <3>4. HasKeys(e)'
      BY <1>2, <1>k DEF OpeningAt
    <3> QED BY <1>2, <2>1, <3>3, <3>4 DEF OpeningAt
  <2>2. CASE d # e
    BY <1>2, <1>s, <2>2 DEF TypeOK
  <2> QED BY <2>1, <2>2
<1>3. ASSUME NEW c \in Finishes, NEW f \in sealed, Accept(c, f) PROVE OpeningInv'
  <2>1. c \in Ends /\ HasKeys(c)
    BY <1>3 DEF Accept, HasKeys, Ends
  <2>2. opening' = WithWait(c, f, "accept") /\ checked' = checked /\ lastIn' = lastIn
    BY <1>3 DEF Accept, WithWait
  <2> QED BY <1>1, <2>1, <2>2
<1>4. ASSUME NEW e \in Ends, NEW f \in sealed, Open(e, f) PROVE OpeningInv'
  <2>1. HasKeys(e)
    BY <1>4 DEF Open, IsOpen, HasKeys
  <2>2. opening' = WithWait(e, f, "open") /\ checked' = checked /\ lastIn' = lastIn
    BY <1>4 DEF Open, WithWait
  <2> QED BY <1>1, <2>1, <2>2
<1>5. ASSUME NEW e \in Ends, OpenBegins(e) PROVE OpeningInv'
  <2>1. CASE Head(opening[e]).frame.n <= lastIn[e]
    <3>1. opening[e] # <<>> /\ opening' = [opening EXCEPT ![e] = Tail(@)] /\ checked' = checked /\ lastIn' = lastIn
      BY <1>5, <2>1 DEF OpenBegins
    <3>2. checked'[e] = FALSE
      BY <1>5, <2>1 DEF OpenBegins, TypeOK
    <3> QED BY <1>2, <3>1, <3>2
  <2>2. CASE ~(Head(opening[e]).frame.n <= lastIn[e])
    <3>1. checked' = [checked EXCEPT ![e] = TRUE] /\ opening' = opening /\ lastIn' = lastIn
      BY <1>5, <2>2 DEF OpenBegins
    <3>2. opening[e] # <<>> /\ opening[e] \in Seq(Waits)
      BY <1>5 DEF OpenBegins, TypeOK
    <3>3. Head(opening[e]).frame.n \in Nat /\ lastIn[e] \in Int
      <4>1. Head(opening[e]) \in Waits
        BY <3>2
      <4>2. Head(opening[e]).frame \in Frames
        BY <4>1 DEF Waits
      <4> QED BY <4>2 DEF Frames, TypeOK
    <3>4. Head(opening[e]).frame.n > lastIn[e]
      BY <2>2, <3>3
    <3>5. OpeningAt(e)'
      BY <1>k, <3>1, <3>2, <3>4 DEF OpeningAt
    <3>6. \A d \in Ends \ {e} : OpeningAt(d)'
      BY <1>s, <3>1 DEF TypeOK
    <3> QED BY <3>5, <3>6
  <2> QED BY <2>1, <2>2
<1>6. ASSUME NEW e \in Ends, OpenEnds(e) PROVE OpeningInv'
  <2>1. opening[e] # <<>> /\ opening' = [opening EXCEPT ![e] = Tail(@)] /\ checked'[e] = FALSE
    BY <1>6 DEF OpenEnds, OpeningAt, TypeOK
  <2>2. \A d \in Ends \ {e} : checked'[d] = checked[d]
    BY <1>6 DEF OpenEnds, TypeOK
  <2>3. \A d \in Ends \ {e} : lastIn'[d] = lastIn[d]
    BY <1>6 DEF OpenEnds, TypeOK
  <2> QED BY <1>2, <2>1, <2>2, <2>3
<1>7. \/ opening' = opening /\ checked' = checked /\ lastIn' = lastIn
      \/ \E c \in Finishes, f \in sealed : Accept(c, f)
      \/ \E e \in Ends, f \in sealed : Open(e, f)
      \/ \E e \in Ends : OpenBegins(e) \/ OpenEnds(e)
  BY DEF Next, vars, recvVars, StartHandshake, FinishHandshake, FinishDerives,
         AcceptHandshake, Authorized, AcceptDerives, Seal, SealBegins, SealEnds
<1>8. CASE opening' = opening /\ checked' = checked /\ lastIn' = lastIn
  BY <1>8, <1>s
<1> QED BY <1>3, <1>4, <1>5, <1>6, <1>7, <1>8

\* The frames opened at an end are of its key, and of growing counters.
LEMMA TakenKept ==
  ASSUME TypeOK, FinishInv, AcceptInv, SealingInv, OpeningInv, TakenInv, sealed \subseteq sealed', [Next]_vars
  PROVE  TakenInv'
<1> USE DEF TakenInv
<1>k. \A e \in Ends : HasKeys(e) => HasKeys(e)' /\ KeyOf(e)' = KeyOf(e)
  BY KeysLast
<1>t. ASSUME NEW e \in Ends
      PROVE  /\ got[e] \in Seq(Frames) /\ lastIn[e] \in Int /\ got[e] # <<>> => HasKeys(e)
             /\ \A i \in 1..Len(got[e]) : /\ got[e][i] \in sealed' /\ got[e][i].n \in Nat /\ HasKeys(e)
                                         /\ got[e][i].key = KeyOf(e)' /\ got[e][i].dir # Dir(e)
                                         /\ got[e][i].n <= lastIn[e]
  <2>1. got[e] \in Seq(Frames) /\ lastIn[e] \in Int
    BY DEF TypeOK
  <2>2. ASSUME NEW i \in 1..Len(got[e])
        PROVE  /\ got[e][i] \in sealed' /\ got[e][i].n \in Nat /\ HasKeys(e)
               /\ got[e][i].key = KeyOf(e)' /\ got[e][i].dir # Dir(e) /\ got[e][i].n <= lastIn[e]
    <3>1. HasKeys(e)
      BY <2>1 DEF TakenAt
    <3>2. got[e][i] \in sealed /\ Fits(e, got[e][i]) /\ got[e][i].n <= lastIn[e]
      BY DEF TakenAt
    <3>3. got[e][i] \in Frames
      BY <3>2 DEF TypeOK
    <3> QED BY <1>k, <3>1, <3>2, <3>3 DEF Fits, Frames
  <2> QED BY <2>1, <2>2 DEF TakenAt
<1>s. ASSUME NEW e \in Ends, got'[e] = got[e], lastIn'[e] = lastIn[e]
      PROVE  TakenAt(e)'
  <2>1. \A i \in 1..Len(got'[e]) : /\ got'[e][i] \in sealed' /\ got'[e][i].n <= lastIn'[e]
                                   /\ got'[e][i].key = KeyOf(e)' /\ got'[e][i].dir # Dir(e)
    BY <1>s, <1>t
  <2>2. got'[e] # <<>> => HasKeys(e)'
    BY <1>s, <1>t, <1>k
  <2>3. \A i, j \in 1..Len(got'[e]) : i < j => got'[e][i].n < got'[e][j].n
    BY <1>s DEF TakenAt
  <2> QED BY <2>1, <2>2, <2>3 DEF TakenAt, Fits, Dir
<1>1. ASSUME NEW e \in Ends, OpenEnds(e) PROVE TakenInv'
  <2>0. PICK f : f = Head(opening[e]).frame
    OBVIOUS
  <2>1. opening[e] # <<>> /\ opening[e] \in Seq(Waits) /\ HasKeys(e)
    BY <1>1 DEF OpenEnds, OpeningInv, OpeningAt, TypeOK
  <2>2. f \in sealed /\ f.n > lastIn[e] /\ f \in Frames /\ f.n \in Nat
    <3>1. f = opening[e][1].frame /\ 1 \in 1..Len(opening[e])
      BY <2>0, <2>1
    <3> QED BY <1>1, <2>0, <3>1 DEF OpenEnds, OpeningInv, OpeningAt, TypeOK, Frames
  <2>3. CASE Fits(e, f)
    <3>1. lastIn' = [lastIn EXCEPT ![e] = f.n] /\ got' = [got EXCEPT ![e] = Append(@, f)]
      BY <1>1, <2>0, <2>3 DEF OpenEnds
    <3>2. got'[e] = Append(got[e], f) /\ got[e] \in Seq(Frames) /\ lastIn'[e] = f.n /\ lastIn[e] \in Int
      BY <3>1 DEF TypeOK
    <3>3. f.key = KeyOf(e)' /\ f.dir # Dir(e)
      BY <1>k, <2>1, <2>3 DEF Fits
    <3>4. PICK q, r : q = got[e] /\ r = got'[e]
      OBVIOUS
    <3>5. r = Append(q, f) /\ q \in Seq(Frames)
      BY <3>2, <3>4
    <3>6. \A i \in 1..Len(r) : r[i] = f \/ (i \in 1..Len(q) /\ r[i] = q[i])
      BY <2>2, <3>5
    <3>7. \A i \in 1..Len(q) : /\ q[i] \in sealed' /\ q[i].n \in Nat /\ q[i].n < f.n
                              /\ q[i].key = KeyOf(e)' /\ q[i].dir # Dir(e)
      <4>1. \A i \in 1..Len(q) : /\ q[i] \in sealed' /\ q[i].n \in Nat /\ q[i].n <= lastIn[e]
                                /\ q[i].key = KeyOf(e)' /\ q[i].dir # Dir(e)
        BY <1>t, <3>4
      <4> QED BY <2>2, <3>2, <4>1
    <3>8. \A i \in 1..Len(r) : /\ r[i] \in sealed' /\ r[i].n <= f.n
                              /\ r[i].key = KeyOf(e)' /\ r[i].dir # Dir(e)
      BY <2>2, <3>3, <3>6, <3>7
    <3>9. \A i, j \in 1..Len(r) : i < j => r[i].n < r[j].n
      <4> TAKE i, j \in 1..Len(r)
      <4> HAVE i < j
      <4>1. i \in 1..Len(q) /\ r[i] = q[i]
        BY <2>2, <3>5
      <4>2. CASE j \in 1..Len(q)
        <5>1. r[j] = q[j]
          BY <2>2, <3>5, <4>2
        <5> QED BY <3>4, <4>1, <4>2, <5>1 DEF TakenAt
      <4>3. CASE j \notin 1..Len(q)
        <5>1. r[j] = f
          BY <3>6, <4>3
        <5> QED BY <3>7, <4>1, <5>1
      <4> QED BY <4>2, <4>3
    <3>10. TakenAt(e)'
      <4>1. HasKeys(e)'
        BY <1>k, <2>1
      <4>2. (\A i \in 1..Len(got[e]) : got[e][i] \in sealed /\ Fits(e, got[e][i]) /\ got[e][i].n <= lastIn[e])'
        BY <3>2, <3>4, <3>8 DEF Fits, Dir
      <4>3. \A i, j \in 1..Len(got'[e]) : i < j => got'[e][i].n < got'[e][j].n
        BY <3>4, <3>9
      <4> QED BY <4>1, <4>2, <4>3 DEF TakenAt
    <3>11. \A d \in Ends \ {e} : TakenAt(d)'
      BY <1>s, <3>1 DEF TypeOK
    <3> QED BY <3>10, <3>11
  <2>4. CASE ~Fits(e, f)
    <3>1. lastIn' = lastIn /\ got' = got
      BY <1>1, <2>0, <2>4 DEF OpenEnds
    <3> QED BY <1>s, <3>1
  <2> QED BY <2>3, <2>4
<1>2. \/ got' = got /\ lastIn' = lastIn
      \/ \E e \in Ends : OpenEnds(e)
  BY DEF Next, vars, recvVars, StartHandshake, FinishHandshake, FinishDerives, Accept,
         AcceptHandshake, Authorized, AcceptDerives, Seal, SealBegins, SealEnds, Open, OpenBegins
<1>3. CASE got' = got /\ lastIn' = lastIn
  BY <1>3, <1>s
<1> QED BY <1>1, <1>2, <1>3

-----------------------------------------------------------------------------
(* The session of a phone.                                                 *)

\* accept returns it for a confirm frame that the peer has sealed.
LEMMA OpenKept ==
  ASSUME TypeOK, FinishInv, AcceptInv, SealingInv, SealedInv, OpeningInv, OpenInv, [Next]_vars
  PROVE  OpenInv'
<1> SUFFICES ASSUME NEW c \in Finishes, fin'[c].ph = "open"
             PROVE  \E a \in Accepts : Peers(c, a)' /\ acc'[a].ph = "open"
  BY DEF OpenInv
<1>e. c \in Ends
  BY DEF Ends
\* What is so in the state before the step is so after it.
<1>s. ASSUME HasKeys(c), NEW a \in Accepts, Peers(c, a), acc[a].ph = "open"
      PROVE  Peers(c, a)' /\ acc'[a].ph = "open"
  BY <1>s, PeersLast, OpenLasts
<1>1. CASE fin[c].ph = "open"
  <2>1. HasKeys(c)
    BY <1>1 DEF HasKeys
  <2> QED BY <1>1, <1>s, <2>1 DEF OpenInv
<1>2. CASE fin[c].ph # "open"
  <2>1. fin' # fin
    BY <1>2
  <2>2. fin[c].ph = "pending"
    BY <1>2, FinStep DEF FinGoesOn, FinTakes, FinMoves
  <2>3. HasKeys(c)
    BY <2>2 DEF HasKeys
  <2>4. PICK e \in Ends : OpenEnds(e)
    <3>1. ASSUME NEW d \in Finishes, NEW h \in Shakes, NEW x \in Accepts, FinishHandshake(d, h, x)
          PROVE  FALSE
      <4>1. CASE d = c
        BY <2>2, <3>1, <4>1 DEF FinishHandshake
      <4>2. CASE d # c
        <5>1. fin'[c] = fin[c]
          BY <3>1, <4>2 DEF FinishHandshake, TypeOK
        <5> QED BY <1>2, <5>1
      <4> QED BY <4>1, <4>2
    <3>2. ASSUME NEW d \in Finishes, NEW ok \in BOOLEAN, FinishDerives(d, ok)
          PROVE  FALSE
      <4>1. CASE d = c
        BY <2>2, <3>2, <4>1 DEF FinishDerives
      <4>2. CASE d # c
        <5>1. fin'[c] = fin[c]
          BY <3>2, <4>2 DEF FinishDerives, TypeOK
        <5> QED BY <1>2, <5>1
      <4> QED BY <4>1, <4>2
    <3>3. \/ \E d \in Finishes, h \in Shakes, x \in Accepts : FinishHandshake(d, h, x)
          \/ \E d \in Finishes, ok \in BOOLEAN : FinishDerives(d, ok)
          \/ \E e \in Ends : OpenEnds(e)
      BY <2>1 DEF Next, vars, StartHandshake, Accept, AcceptHandshake, Authorized, AcceptDerives,
                  Seal, Open, SealBegins, SealEnds, OpenBegins
    <3> QED BY <3>1, <3>2, <3>3
  <2>5. PICK r : r = Head(opening[e])
    OBVIOUS
  <2>6. Fits(e, r.frame) /\ Confirms(e, r) /\ fin' = [fin EXCEPT ![e].ph = "open"]
    BY <2>1, <2>4, <2>5 DEF OpenEnds
  <2>7. e = c
    BY <1>2, <2>6 DEF TypeOK
  <2>8. r.frame \in sealed
    <3>1. opening[e] # <<>> /\ opening[e] \in Seq(Waits)
      BY <2>4 DEF OpenEnds, OpeningInv, OpeningAt, TypeOK
    <3>2. r = opening[e][1] /\ 1 \in 1..Len(opening[e])
      BY <2>5, <3>1
    <3> QED BY <3>2 DEF OpeningInv, OpeningAt
  <2>9. r.frame.by \in Accepts /\ Peers(c, r.frame.by)
    BY <1>e, <2>3, <2>6, <2>7, <2>8, OpensOfPeer
  <2>10. acc[r.frame.by].ph = "open"
    BY <2>6, <2>8 DEF Confirms, SealedInv, Ours
  <2> QED BY <1>s, <2>3, <2>9, <2>10
<1> QED BY <1>1, <1>2

-----------------------------------------------------------------------------
(* The session, for good.                                                  *)

LEMMA HandshakeKept == HandshakeInv /\ [Next]_vars => HandshakeInv'
<1> SUFFICES ASSUME HandshakeInv, [Next]_vars PROVE HandshakeInv'
  OBVIOUS
<1> USE DEF HandshakeInv
<1>1. TypeOK'
  BY TypeStep
<1>2. MessageInv' /\ FinishInv' /\ AcceptInv'
  BY MessageKept, FinishKept, AcceptKept
<1>3. SealingInv'
  BY SealingKept
<1>4. SealedInv' /\ sealed \subseteq sealed'
  BY <1>1, SealedKept
<1>5. OpeningInv' /\ TakenInv'
  BY <1>4, OpeningKept, TakenKept
<1>6. OpenInv'
  BY OpenKept
<1> QED BY <1>1, <1>2, <1>3, <1>4, <1>5, <1>6

\* What an inductive invariant of the calls and the frames says of them, always.
THEOREM HandshakeInvariant == Spec => []HandshakeInv
<1>1. Init => HandshakeInv
  BY InitHandshake
<1>2. HandshakeInv /\ [Next]_vars => HandshakeInv'
  BY HandshakeKept
<1> QED BY <1>1, <1>2, PTL DEF Spec

\* Two frames of one key, direction and counter are one frame (crypto.ts, used,
\* #sendChain): the key is of one call, and the call counts.
THEOREM CounterOnceHolds == Spec => []CounterOnce
<1>1. HandshakeInv => CounterOnce
  <2> SUFFICES ASSUME HandshakeInv, NEW f \in sealed, NEW g \in sealed,
                      f.key = g.key, f.dir = g.dir, f.n = g.n
               PROVE  f = g
    BY DEF CounterOnce
  <2>1. /\ f.by \in Ends /\ HasKeys(f.by) /\ f.key = KeyOf(f.by) /\ f.dir = Dir(f.by)
        /\ g.by \in Ends /\ HasKeys(g.by) /\ g.key = KeyOf(g.by) /\ g.dir = Dir(g.by)
    BY DEF HandshakeInv, SealedInv, Ours, TypeOK, Frames
  <2>2. KeyOf(f.by) = KeyOf(g.by) /\ Dir(f.by) = Dir(g.by)
    BY <2>1
  <2>3. f.by = g.by
    BY <2>1, <2>2, KeyIsOfOne DEF HandshakeInv
  <2> QED BY <2>3 DEF HandshakeInv, SealedInv
<1> QED BY <1>1, HandshakeInvariant, PTL

\* Whatever order frames come in, and however often, an end takes each at most
\* once and in the order of their counters (crypto.ts, #chain, #lastIn).
THEOREM TakenInOrderHolds == Spec => []TakenInOrder
<1>1. HandshakeInv => TakenInOrder
  BY DEF HandshakeInv, TakenInv, TakenAt, TakenInOrder
<1> QED BY <1>1, HandshakeInvariant, PTL

\* A phone has a session only with a call of the agent that it meant, and an end
\* opens nothing but what its peer sealed (crypto.ts, finishHandshake,
\* acceptHandshake).
THEOREM SpeaksWithPeerHolds == Spec => []SpeaksWithPeer
<1>1. HandshakeInv => SpeaksWithPeer
  <2> SUFFICES ASSUME HandshakeInv PROVE SpeaksWithPeer
    OBVIOUS
  <2>1. ASSUME NEW e \in Ends, NEW i \in 1..Len(got[e])
        PROVE  /\ e \in Finishes => got[e][i].by \in Accepts /\ Peers(e, got[e][i].by)
               /\ e \notin Finishes => got[e][i].by \in Finishes /\ Peers(got[e][i].by, e)
    <3>1. got[e][i] \in sealed /\ Fits(e, got[e][i])
      BY DEF HandshakeInv, TakenInv, TakenAt
    <3>2. HasKeys(e)
      BY DEF HandshakeInv, TakenInv, TakenAt, TypeOK
    <3> QED BY <3>1, <3>2, OpensOfPeer DEF HandshakeInv
  <2>2. \A a \in Accepts : a \in Ends /\ a \notin Finishes
    BY HandshakeAssumption DEF HandshakeAssumption, Ends
  <2>3. \A c \in Finishes : c \in Ends
    BY DEF Ends
  <2> QED BY <2>1, <2>2, <2>3 DEF HandshakeInv, OpenInv, SpeaksWithPeer
<1> QED BY <1>1, HandshakeInvariant, PTL

\* All of it, of every conversation (crypto.ts).
THEOREM OneConversationHolds == Spec => []OneConversation
BY CounterOnceHolds, TakenInOrderHolds, SpeaksWithPeerHolds, PTL DEF OneConversation


-----------------------------------------------------------------------------
(* What is typed.                                                          *)

TypingRequests == Typing!Requests
Typers == Typing!Typing
InTurn == {"look", "dial", "enter", "gap", "wipe"}
Tokens == {"body", "enter", "esc", "ctrlU"} \X TypingRequests

In(m, q) == \E i \in 1..Len(q) : q[i] = m

KeyTypes ==
  /\ at \in [TypingRequests -> {"idle", "queued", "mail", "done"} \cup InTurn]
  /\ answer \in [TypingRequests -> {None, "ok", "cleared", "partial", "refused"}]
  /\ chain \in Seq(TypingRequests) /\ pipe \in Seq(Tokens) /\ box \in Seq(Typers)
  /\ working = None \/ working \in Seq(Typers)
  /\ back \in [Typers -> SUBSET Stops] /\ typed \subseteq TypingRequests

\* The request that has its turn is the first of those that wait.
Turns == \A r \in TypingRequests :
  /\ at[r] \in InTurn \cup {"queued"} => In(r, chain)
  /\ at[r] \in InTurn => Head(chain) = r

\* What went into the terminal is not sent elsewhere, and an answer is the last word.
Ways == \A r \in TypingRequests :
  /\ at[r] = "mail" => r \notin typed
  /\ r \in typed => at[r] \in {"enter", "done"}
  /\ at[r] = "enter" => r \in typed
  /\ r \in inbox => at[r] = "done" /\ r \notin typed
  /\ answer[r] \in {"partial", "cleared"} => at[r] = "done"

Rush ==
  /\ recent => "escape" \in cool
  /\ \A r \in Stops : at[r] \in {"look", "dial"} => ~recent
  /\ ~rushed

\* Who is to know that m may lie in the box has been told for good.
Told(m) == \/ answer[m] = "partial" \/ m \in pasted
           \/ \E s \in back[m] : at[s] = "done" /\ answer[s] # "cleared"

\* A body is followed by its Enter, or it is the last and its Enter is to come, or
\* its sender was told; an Enter follows its body; an ESC is followed by the Ctrl-U of
\* a stop that was answered "cleared".
BodyAt(i) ==
  LET f == pipe[i][2] IN
  /\ f \in Typers
  /\ \/ answer[f] = "partial"
     \/ i = Len(pipe) /\ at[f] = "enter"
     \/ i < Len(pipe) /\ pipe[i + 1] = <<"enter", f>>
EnterAt(i) ==
  LET f == pipe[i][2] IN
  /\ f \in Typers
  /\ i = 1 => In(f, box)
  /\ i # 1 => pipe[i - 1] = <<"body", f>>
EscAt(i) ==
  LET f == pipe[i][2] IN
  /\ f \in Stops /\ at[f] \in {"gap", "wipe", "done"}
  /\ at[f] # "done" => i = Len(pipe)
  /\ answer[f] = "cleared" => i < Len(pipe) /\ pipe[i + 1][1] = "ctrlU"
TokenAt(i) ==
  /\ pipe[i][1] = "body" => BodyAt(i)
  /\ pipe[i][1] = "enter" => EnterAt(i)
  /\ pipe[i][1] = "esc" => EscAt(i)
Carried == \A i \in 1..Len(pipe) : TokenAt(i)

\* Between its two writes a request's first one is the last in the pipe, or was read.
Doing == \A r \in TypingRequests :
  /\ at[r] = "enter" =>
       /\ r \in Typers
       /\ pipe = <<>> => In(r, box)
       /\ pipe # <<>> => pipe[Len(pipe)] = <<"body", r>>
  /\ at[r] \in {"gap", "wipe"} =>
       r \in Stops /\ (pipe # <<>> => pipe[Len(pipe)] = <<"esc", r>>)

Returned == \A m \in Typers : \A s \in back[m] : at[s] \in {"gap", "wipe", "done"}

\* What lies in the box: somebody was told, or its Enter or a Ctrl-U is next, or
\* all is read and its Enter, or what is to follow the ESC, is still to come.
Lies(m) ==
  \/ Told(m)
  \/ pipe # <<>> /\ (pipe[1] = <<"enter", m>> \/ pipe[1][1] = "ctrlU")
  \/ pipe = <<>> /\ (at[m] = "enter" \/ \E s \in back[m] : at[s] \in {"gap", "wipe"})
Box == \A i \in 1..Len(box) : Lies(box[i])

Submitted == \A l \in lines :
  l.text \subseteq Typers /\ l.by \in l.text /\ \A m \in l.text \ {l.by} : Told(m)

KeysInv ==
  /\ KeyTypes /\ Turns /\ Ways /\ Rush /\ Carried /\ Doing /\ Returned /\ Box /\ Submitted

LEMMA KeysStart == Typing!Init => KeysInv
<1> SUFFICES ASSUME Typing!Init PROVE KeysInv
  OBVIOUS
<1>1. PICK s \in TypingScenes :
        at = [r \in TypingRequests |-> IF r \in s THEN "idle" ELSE "done"]
  BY DEF Typing!Init, TypingRequests
<1>2. /\ chain = <<>> /\ answer = [r \in TypingRequests |-> None] /\ cool = {}
      /\ pipe = <<>> /\ inbox = {} /\ box = <<>> /\ working = None
      /\ lines = {} /\ typed = {} /\ pasted = {} /\ back = [r \in Typers |-> {}]
      /\ recent = FALSE /\ rushed = FALSE
  BY DEF Typing!Init, TypingRequests, Typers
<1>3. None \notin {"partial", "cleared"}
  BY SessionAssumption DEF Typing!KeysAssumption
<1>4. \A r \in TypingRequests : at[r] \in {"idle", "done"} /\ answer[r] = None
  BY <1>1, <1>2
<1>5. KeyTypes
  <2>1. at \in [TypingRequests -> {"idle", "queued", "mail", "done"} \cup InTurn]
    BY <1>1
  <2> QED
    BY <1>2, <2>1 DEF KeyTypes
<1>6. Turns /\ Ways
  BY <1>2, <1>3, <1>4 DEF Turns, Ways, InTurn
<1>7. Rush /\ Returned
  BY <1>2 DEF Rush, Returned
<1>8. Carried /\ Box /\ Submitted
  BY <1>2 DEF Carried, Box, Submitted
<1>9. Doing
  BY <1>4 DEF Doing
<1> QED
  BY <1>5, <1>6, <1>7, <1>8, <1>9 DEF KeysInv

(* At most one request has its turn.                                       *)
LEMMA OneTurn ==
  ASSUME Turns, NEW r \in TypingRequests, NEW q \in TypingRequests,
         at[r] \in InTurn \/ Head(chain) = r, at[q] \in InTurn
  PROVE  q = r
BY DEF Turns

\* Request r moves on and may be answered; the terminal's side stands still.
Moves(r, to, end) ==
  /\ at' = [at EXCEPT ![r] = to]
  /\ answer' = [answer EXCEPT ![r] = end]
  /\ UNCHANGED <<box, working, lines, pasted, back>>

(* Whoever was told stays told, as long as no answer is taken back.        *)
LEMMA StaysTold ==
  ASSUME KeyTypes, Ways, NEW r \in TypingRequests, at[r] # "done", NEW to, NEW end,
         Moves(r, to, end), NEW m \in Typers, Told(m)
  PROVE  Told(m)'
<1>1. m \in TypingRequests /\ back[m] \subseteq TypingRequests
  BY DEF KeyTypes, Typers, TypingRequests, Typing!Typing, Typing!Requests
<1>2. back' = back /\ pasted' = pasted
  BY DEF Moves
<1>3. \A q \in TypingRequests \ {r} : at'[q] = at[q] /\ answer'[q] = answer[q]
  BY DEF Moves, KeyTypes
<1>4. answer[r] \notin {"partial", "cleared"}
  BY DEF Ways
<1>5. CASE answer[m] = "partial"
  BY <1>1, <1>3, <1>4, <1>5 DEF Told
<1>6. CASE m \in pasted
  BY <1>2, <1>6 DEF Told
<1>7. ASSUME NEW s \in back[m], at[s] = "done", answer[s] # "cleared" PROVE Told(m)'
  <2>1. s \in TypingRequests \ {r}
    BY <1>1, <1>7
  <2>2. at'[s] = "done" /\ answer'[s] # "cleared"
    BY <1>3, <1>7, <2>1
  <2> QED
    BY <1>2, <1>7, <2>2 DEF Told
<1> QED
  BY <1>5, <1>6, <1>7 DEF Told

\* A step of r that writes nothing: whoever stood between two writes is told so.
Quiet(r, to, end) ==
  /\ at[r] # "done" /\ to # "enter"
  /\ at[r] = "enter" => to = "done" /\ end = "partial"
  /\ to \in {"gap", "wipe"} => at[r] \in {"gap", "wipe"}
  /\ at[r] \in {"gap", "wipe"} => to \in {"gap", "wipe", "done"} /\ end # "cleared"

LEMMA QuietKeeps ==
  ASSUME KeysInv, NEW r \in TypingRequests, NEW to, NEW end,
         Moves(r, to, end), Quiet(r, to, end), pipe' = pipe
  PROVE  Carried' /\ Doing' /\ Returned' /\ Box' /\ Submitted'
<1>1. KeyTypes /\ Ways
  BY DEF KeysInv
<1>2. /\ at'[r] = to /\ answer'[r] = end
      /\ \A q \in TypingRequests \ {r} : at'[q] = at[q] /\ answer'[q] = answer[q]
      /\ answer[r] \notin {"partial", "cleared"} /\ at[r] # "done"
  BY <1>1 DEF Moves, KeyTypes, Ways, Quiet
<1>3. box' = box /\ lines' = lines /\ pasted' = pasted /\ back' = back
  BY DEF Moves
<1>4. Typers \subseteq TypingRequests /\ Stops \subseteq TypingRequests
      /\ \A m \in Typers : back[m] \subseteq TypingRequests
  BY <1>1 DEF KeyTypes, Typers, TypingRequests, Typing!Typing, Typing!Requests
<1>5. \A m \in Typers : Told(m) => Told(m)'
  BY <1>1, <1>2, StaysTold
<1>6. \A i \in 1..Len(pipe) : pipe[i] \in Tokens
  BY <1>1 DEF KeyTypes
<1>7. Carried'
  <2> SUFFICES ASSUME NEW i \in 1..Len(pipe) PROVE TokenAt(i)'
    BY DEF Carried
  <2> DEFINE f == pipe[i][2]
  <2>1. TokenAt(i) /\ f \in TypingRequests
    BY <1>6 DEF Carried, KeysInv, Tokens
  <2>2. ASSUME pipe[i][1] = "body" PROVE BodyAt(i)'
    <3>1. BodyAt(i)
      BY <2>1, <2>2 DEF TokenAt
    <3> QED
      BY <1>2, <2>1, <3>1 DEF BodyAt, Quiet
  <2>3. ASSUME pipe[i][1] = "enter" PROVE EnterAt(i)'
    BY <1>3, <2>1, <2>3 DEF TokenAt, EnterAt, In
  <2>4. ASSUME pipe[i][1] = "esc" PROVE EscAt(i)'
    <3>1. EscAt(i)
      BY <2>1, <2>4 DEF TokenAt
    <3> QED
      BY <1>2, <2>1, <3>1 DEF EscAt, Quiet
  <2> QED
    BY <2>2, <2>3, <2>4 DEF TokenAt
<1>8. Doing'
  <2> SUFFICES ASSUME NEW q \in TypingRequests
               PROVE  /\ at'[q] = "enter" =>
                           /\ q \in Typers
                           /\ pipe = <<>> => In(q, box)
                           /\ pipe # <<>> => pipe[Len(pipe)] = <<"body", q>>
                      /\ at'[q] \in {"gap", "wipe"} =>
                           q \in Stops /\ (pipe # <<>> => pipe[Len(pipe)] = <<"esc", q>>)
    BY <1>3 DEF Doing, In
  <2>1. CASE q = r
    BY <1>2, <2>1 DEF Quiet, Doing, KeysInv
  <2>2. CASE q # r
    BY <1>2, <2>2 DEF Doing, KeysInv
  <2> QED
    BY <2>1, <2>2
<1>9. Returned'
  BY <1>2, <1>3, <1>4 DEF Returned, KeysInv, Quiet
<1>10. Box'
  <2> SUFFICES ASSUME NEW i \in 1..Len(box) PROVE Lies(box[i])'
    BY <1>3 DEF Box
  <2> DEFINE m == box[i]
  <2>1. m \in Typers /\ Lies(m)
    BY <1>1 DEF KeyTypes, Box, KeysInv
  <2>2. CASE Told(m)
    BY <1>3, <1>5, <2>1, <2>2 DEF Lies
  <2>3. CASE pipe # <<>> /\ (pipe[1] = <<"enter", m>> \/ pipe[1][1] = "ctrlU")
    BY <1>3, <2>3 DEF Lies
  <2>4. CASE pipe = <<>> /\ at[m] = "enter"
    BY <1>2, <1>3, <1>4, <2>1, <2>4 DEF Lies, Told, Quiet
  <2>5. ASSUME pipe = <<>>, NEW s \in back[m], at[s] \in {"gap", "wipe"} PROVE Lies(m)'
    BY <1>2, <1>3, <1>4, <2>1, <2>5 DEF Lies, Told, Quiet
  <2> HIDE DEF m
  <2> QED
    BY <1>3, <2>1, <2>2, <2>3, <2>4, <2>5 DEF Lies, m
<1>11. Submitted'
  BY <1>3, <1>5 DEF Submitted, KeysInv
<1> QED
  BY <1>7, <1>8, <1>9, <1>10, <1>11

\* A step of r that writes token k.
Writes(r, k, to, end) ==
  \/ k = "body" /\ at[r] = "dial" /\ r \in Typers /\ to = "enter" /\ end = answer[r]
  \/ k = "enter" /\ at[r] = "enter" /\ to = "done" /\ end = "ok"
  \/ k = "esc" /\ at[r] = "dial" /\ r \in Stops
     /\ ((to = "gap" /\ end = answer[r]) \/ (to = "done" /\ end = "ok"))
  \/ k = "ctrlU" /\ at[r] = "wipe" /\ to = "done" /\ end = "cleared"
  \/ k = "ctrlU" /\ at[r] = "dial" /\ to = "done" /\ end = "ok"

LEMMA WritesKeeps ==
  ASSUME KeysInv, NEW r \in TypingRequests, NEW k, NEW to, NEW end,
         Moves(r, to, end), Writes(r, k, to, end), pipe' = Append(pipe, <<k, r>>)
  PROVE  Carried' /\ Doing' /\ Returned' /\ Box' /\ Submitted'
<1>1. KeyTypes /\ Ways /\ Turns
  BY DEF KeysInv
<1>2. /\ at'[r] = to /\ answer'[r] = end /\ at[r] \in InTurn
      /\ \A q \in TypingRequests \ {r} : at'[q] = at[q] /\ answer'[q] = answer[q]
      /\ answer[r] \notin {"partial", "cleared"} /\ at[r] # "done"
  BY <1>1 DEF Moves, KeyTypes, Ways, Writes, InTurn
<1>3. box' = box /\ lines' = lines /\ pasted' = pasted /\ back' = back
  BY DEF Moves
<1>4. Typers \subseteq TypingRequests /\ Stops \subseteq TypingRequests
      /\ \A m \in Typers : back[m] \subseteq TypingRequests
  BY <1>1 DEF KeyTypes, Typers, TypingRequests, Typing!Typing, Typing!Requests
<1>5. \A m \in Typers : Told(m) => Told(m)'
  BY <1>1, <1>2, StaysTold
<1>6. \A q \in TypingRequests \ {r} : at[q] \notin InTurn
  BY <1>1, <1>2, OneTurn
<1>7. /\ pipe \in Seq(Tokens) /\ <<k, r>> \in Tokens /\ Len(pipe) \in Nat
      /\ \A i \in 1..Len(pipe) : pipe[i] \in Tokens
  BY <1>1 DEF KeyTypes, Tokens, Writes
<1>8. /\ Len(pipe') = Len(pipe) + 1 /\ pipe' # <<>>
      /\ \A i \in 1..Len(pipe) : pipe'[i] = pipe[i]
      /\ pipe'[Len(pipe) + 1] = <<k, r>>
  BY <1>7, AppendProperties
<1>9. k \in {"body", "enter", "esc", "ctrlU"} /\ <<k, r>>[1] = k /\ <<k, r>>[2] = r
  BY DEF Writes
<1>10. Carried'
  <2> SUFFICES ASSUME NEW i \in 1..(Len(pipe) + 1) PROVE TokenAt(i)'
    BY <1>8 DEF Carried
  <2>1. CASE i = Len(pipe) + 1
    <3>1. pipe'[i][1] = k /\ pipe'[i][2] = r
      BY <1>8, <1>9, <2>1
    <3>2. ASSUME k = "body" PROVE BodyAt(i)'
      BY <1>2, <1>8, <2>1, <3>1, <3>2 DEF BodyAt, Writes
    <3>3. ASSUME k = "enter" PROVE EnterAt(i)'
      <4>1. at[r] = "enter"
        BY <3>3 DEF Writes
      <4>2. /\ r \in Typers
            /\ pipe = <<>> => In(r, box)
            /\ pipe # <<>> => pipe[Len(pipe)] = <<"body", r>>
        BY <4>1 DEF KeysInv, Doing
      <4>3. i = 1 <=> pipe = <<>>
        BY <1>7, <2>1, EmptySeq
      <4>4. i # 1 => i - 1 = Len(pipe) /\ i - 1 \in 1..Len(pipe)
        BY <1>7, <2>1
      <4> QED
        BY <1>3, <1>8, <3>1, <4>2, <4>3, <4>4 DEF EnterAt, In
    <3>4. ASSUME k = "esc" PROVE EscAt(i)'
      BY <1>2, <1>8, <2>1, <3>1, <3>4 DEF EscAt, Writes
    <3> QED
      BY <3>1, <3>2, <3>3, <3>4 DEF TokenAt
  <2>2. CASE i \in 1..Len(pipe)
    <3> DEFINE f == pipe[i][2]
    <3>1. TokenAt(i) /\ f \in TypingRequests /\ pipe'[i] = pipe[i]
      BY <1>7, <1>8, <2>2 DEF Carried, KeysInv, Tokens
    <3>2. i < Len(pipe) => pipe'[i + 1] = pipe[i + 1]
      BY <1>7, <1>8, <2>2
    <3>3. i = Len(pipe) => pipe'[i + 1] = <<k, r>>
      BY <1>8
    <3>4. i < Len(pipe')
      BY <1>7, <1>8, <2>2
    <3>5. ASSUME pipe[i][1] = "body" PROVE BodyAt(i)'
      <4>1. BodyAt(i)
        BY <3>1, <3>5 DEF TokenAt
      <4>2. CASE answer[f] = "partial"
        BY <1>2, <3>1, <4>1, <4>2 DEF BodyAt
      <4>3. CASE i = Len(pipe) /\ at[f] = "enter"
        <5>1. f = r
          BY <1>6, <3>1, <4>3 DEF InTurn
        <5>2. k = "enter"
          BY <4>3, <5>1 DEF Writes
        <5> QED
          BY <3>1, <3>3, <3>4, <4>1, <4>3, <5>1, <5>2 DEF BodyAt
      <4>4. CASE i < Len(pipe) /\ pipe[i + 1] = <<"enter", f>>
        BY <3>1, <3>2, <3>4, <4>1, <4>4 DEF BodyAt
      <4> QED
        BY <4>1, <4>2, <4>3, <4>4 DEF BodyAt
    <3>6. ASSUME pipe[i][1] = "enter" PROVE EnterAt(i)'
      <4>1. EnterAt(i)
        BY <3>1, <3>6 DEF TokenAt
      <4>2. i # 1 => pipe'[i - 1] = pipe[i - 1]
        BY <1>7, <1>8, <2>2
      <4> QED
        BY <1>3, <3>1, <4>1, <4>2 DEF EnterAt, In
    <3>7. ASSUME pipe[i][1] = "esc" PROVE EscAt(i)'
      <4>1. EscAt(i)
        BY <3>1, <3>7 DEF TokenAt
      <4>2. CASE f = r
        <5>1. at[r] \in {"gap", "wipe"} /\ i = Len(pipe)
          BY <1>2, <4>1, <4>2 DEF EscAt
        <5>2. k = "ctrlU" /\ to = "done" /\ end = "cleared"
          BY <5>1 DEF Writes
        <5> QED
          BY <1>2, <1>9, <3>1, <3>3, <3>4, <4>1, <4>2, <5>1, <5>2 DEF EscAt
      <4>3. CASE f # r
        <5>1. at[f] = "done"
          BY <1>6, <3>1, <4>1, <4>3 DEF EscAt, InTurn
        <5>2. at'[f] = at[f] /\ answer'[f] = answer[f]
          BY <1>2, <3>1, <4>3
        <5> QED
          BY <3>1, <3>2, <3>4, <4>1, <5>1, <5>2 DEF EscAt
      <4> QED
        BY <4>2, <4>3
    <3> QED
      BY <3>1, <3>5, <3>6, <3>7 DEF TokenAt
  <2> QED
    BY <1>7, <2>1, <2>2
<1>11. Doing'
  <2> SUFFICES ASSUME NEW q \in TypingRequests
               PROVE  /\ at'[q] = "enter" => q \in Typers /\ pipe'[Len(pipe')] = <<"body", q>>
                      /\ at'[q] \in {"gap", "wipe"} => q \in Stops /\ pipe'[Len(pipe')] = <<"esc", q>>
    BY <1>8 DEF Doing
  <2>1. CASE q = r
    BY <1>2, <1>8, <2>1 DEF Writes
  <2>2. CASE q # r
    BY <1>2, <1>6, <2>2 DEF InTurn
  <2> QED
    BY <2>1, <2>2
<1>12. Returned'
  BY <1>2, <1>3, <1>4 DEF Returned, KeysInv, Writes
<1>13. Box'
  <2> SUFFICES ASSUME NEW i \in 1..Len(box) PROVE Lies(box[i])'
    BY <1>3 DEF Box
  <2> DEFINE m == box[i]
  <2>1. m \in Typers /\ Lies(m)
    BY <1>1 DEF KeyTypes, Box, KeysInv
  <2>2. CASE Told(m)
    BY <1>3, <1>5, <2>1, <2>2 DEF Lies
  <2>3. CASE pipe # <<>> /\ (pipe[1] = <<"enter", m>> \/ pipe[1][1] = "ctrlU")
    <3>1. pipe'[1] = pipe[1]
      BY <1>7, <1>8, <2>3, EmptySeq
    <3> QED
      BY <1>3, <1>8, <2>3, <3>1 DEF Lies
  <2>4. ASSUME pipe = <<>> PROVE pipe'[1] = <<k, r>>
    BY <1>8, <2>4, EmptySeq
  <2>5. CASE pipe = <<>> /\ at[m] = "enter"
    <3>1. m = r
      BY <1>4, <1>6, <2>1, <2>5 DEF InTurn
    <3>2. k = "enter"
      BY <2>5, <3>1 DEF Writes
    <3> QED
      BY <1>3, <1>8, <2>4, <2>5, <3>1, <3>2 DEF Lies
  <2>6. ASSUME pipe = <<>>, NEW s \in back[m], at[s] \in {"gap", "wipe"} PROVE Lies(m)'
    <3>1. s = r
      BY <1>4, <1>6, <2>1, <2>6 DEF InTurn
    <3>2. k = "ctrlU"
      BY <2>6, <3>1 DEF Writes
    <3> QED
      BY <1>3, <1>8, <1>9, <2>4, <2>6, <3>2 DEF Lies
  <2> HIDE DEF m
  <2> QED
    BY <1>3, <2>1, <2>2, <2>3, <2>5, <2>6 DEF Lies, m
<1>14. Submitted'
  BY <1>3, <1>5 DEF Submitted, KeysInv
<1> QED
  BY <1>10, <1>11, <1>12, <1>13, <1>14

-----------------------------------------------------------------------------
(* A step of the PC's side.                                                *)

\* The request that has its turn, or is about to.
AtHead(r) == at[r] \in InTurn \/ (at[r] = "queued" /\ Head(chain) = r)

Passes(r, to) ==
  \/ at[r] = "idle" /\ to = "queued" /\ chain' = Append(chain, r)
  \/ AtHead(r) /\ to \in InTurn /\ chain' = chain
  \/ AtHead(r) /\ to \in {"mail", "done"} /\ chain' = Tail(chain)
  \/ at[r] = "mail" /\ to = "done" /\ chain' = chain

\* What is on record of r's ways.
Says(r, to, end) ==
  /\ end \in {None, "ok", "cleared", "partial", "refused"}
  /\ end \in {"cleared", "partial"} => to = "done"
  /\ \/ /\ typed' = typed /\ inbox' = inbox
        /\ IF r \in typed THEN to \in {"enter", "done"} ELSE to # "enter"
     \/ typed' = typed \cup {r} /\ inbox' = inbox /\ to = "enter"
     \/ typed' = typed /\ inbox' = inbox \cup {r} /\ r \notin typed /\ to = "done"

LEMMA TurnPasses ==
  ASSUME KeyTypes, Turns, NEW r \in TypingRequests, NEW to,
         at' = [at EXCEPT ![r] = to], Passes(r, to)
  PROVE  Turns' /\ chain' \in Seq(TypingRequests)
<1> SUFFICES /\ chain' \in Seq(TypingRequests)
             /\ \A q \in TypingRequests :
                  /\ at'[q] \in InTurn \cup {"queued"} => In(q, chain')
                  /\ at'[q] \in InTurn => Head(chain') = q
  BY DEF Turns, In
<1>1. /\ chain \in Seq(TypingRequests) /\ Len(chain) \in Nat
      /\ at'[r] = to /\ \A q \in TypingRequests \ {r} : at'[q] = at[q]
  BY DEF KeyTypes
<1>2. ASSUME AtHead(r)
      PROVE  /\ chain # <<>> /\ Head(chain) = r /\ chain[1] = r
             /\ \A q \in TypingRequests \ {r} : at[q] \notin InTurn
  <2>1. In(r, chain) /\ Head(chain) = r
    BY <1>2 DEF AtHead, Turns
  <2>2. chain # <<>>
    BY <1>1, <2>1, EmptySeq DEF In
  <2>3. chain[1] = r
    BY <1>1, <2>1, <2>2, HeadTailProperties
  <2> QED
    BY <2>1, <2>2, <2>3, OneTurn
<1>3. CASE at[r] = "idle" /\ to = "queued" /\ chain' = Append(chain, r)
  <2>1. /\ chain' \in Seq(TypingRequests) /\ Len(chain') = Len(chain) + 1
        /\ \A i \in 1..Len(chain) : chain'[i] = chain[i]
        /\ chain'[Len(chain) + 1] = r
    BY <1>1, <1>3, AppendProperties
  <2>2. In(r, chain') /\ \A q \in TypingRequests : In(q, chain) => In(q, chain')
    BY <1>1, <2>1 DEF In
  <2>3. ASSUME NEW q \in TypingRequests, at'[q] \in InTurn PROVE Head(chain') = q
    <3>1. q # r /\ at[q] \in InTurn
      BY <1>1, <1>3, <2>3 DEF InTurn
    <3>2. In(q, chain) /\ Head(chain) = q
      BY <3>1 DEF Turns
    <3>3. chain # <<>> /\ chain' # <<>>
      BY <1>1, <2>1, <3>2, EmptySeq DEF In
    <3>4. Head(chain') = chain'[1] /\ Head(chain) = chain[1] /\ Len(chain) > 0
      BY <1>1, <2>1, <3>3, HeadTailProperties, EmptySeq
    <3> QED
      BY <1>1, <2>1, <3>2, <3>4
  <2>4. ASSUME NEW q \in TypingRequests, at'[q] \in InTurn \cup {"queued"} PROVE In(q, chain')
    BY <1>1, <2>2, <2>4 DEF Turns
  <2> QED
    BY <2>1, <2>3, <2>4
<1>4. CASE AtHead(r) /\ to \in InTurn /\ chain' = chain
  <2>1. In(r, chain)
    BY <1>4 DEF AtHead, Turns
  <2> QED
    BY <1>1, <1>2, <1>4, <2>1 DEF Turns
<1>5. CASE AtHead(r) /\ to \in {"mail", "done"} /\ chain' = Tail(chain)
  <2>1. /\ chain' \in Seq(TypingRequests) /\ Len(chain') = Len(chain) - 1
        /\ \A i \in 1..Len(chain') : chain'[i] = chain[i + 1]
    BY <1>1, <1>2, <1>5, HeadTailProperties
  <2>2. ASSUME NEW q \in TypingRequests, at'[q] \in InTurn \cup {"queued"}
        PROVE  In(q, chain') /\ at'[q] \notin InTurn
    <3>1. q # r /\ at[q] = at'[q]
      BY <1>1, <1>5, <2>2 DEF InTurn
    <3>2. at'[q] \notin InTurn
      BY <1>2, <1>5, <3>1
    <3>3. PICK i \in 1..Len(chain) : chain[i] = q
      BY <2>2, <3>1 DEF Turns, In
    <3>4. i # 1
      BY <1>2, <1>5, <3>1, <3>3
    <3>5. i - 1 \in 1..Len(chain') /\ chain'[i - 1] = q
      BY <1>1, <2>1, <3>3, <3>4
    <3> QED
      BY <3>2, <3>5 DEF In
  <2> QED
    BY <2>1, <2>2
<1>6. CASE at[r] = "mail" /\ to = "done" /\ chain' = chain
  BY <1>1, <1>6 DEF Turns, InTurn
<1> QED
  BY <1>3, <1>4, <1>5, <1>6 DEF Passes

LEMMA WaysKept ==
  ASSUME KeyTypes, Ways, NEW r \in TypingRequests, at[r] # "done", NEW to, NEW end,
         Moves(r, to, end), Says(r, to, end)
  PROVE  Ways'
<1> SUFFICES ASSUME NEW q \in TypingRequests
             PROVE  /\ at'[q] = "mail" => q \notin typed'
                    /\ q \in typed' => at'[q] \in {"enter", "done"}
                    /\ at'[q] = "enter" => q \in typed'
                    /\ q \in inbox' => at'[q] = "done" /\ q \notin typed'
                    /\ answer'[q] \in {"partial", "cleared"} => at'[q] = "done"
  BY DEF Ways
<1>1. CASE q = r
  <2>1. at'[r] = to /\ answer'[r] = end /\ r \notin inbox
    BY DEF Moves, KeyTypes, Ways
  <2> QED
    BY <1>1, <2>1 DEF Says
<1>2. CASE q # r
  <2>1. at'[q] = at[q] /\ answer'[q] = answer[q]
    BY <1>2 DEF Moves, KeyTypes
  <2> QED
    BY <1>2, <2>1 DEF Says, Ways
<1> QED
  BY <1>1, <1>2

(* What a step of the PC's side has to show.                               *)
LEMMA AgentKeeps ==
  ASSUME KeysInv, NEW r \in TypingRequests, NEW to, NEW end,
         at[r] # "done", to \in {"idle", "queued", "mail", "done"} \cup InTurn,
         Moves(r, to, end), Passes(r, to), Says(r, to, end), Rush',
         \/ Quiet(r, to, end) /\ pipe' = pipe
         \/ \E k \in {"body", "enter", "esc", "ctrlU"} :
              Writes(r, k, to, end) /\ pipe' = Append(pipe, <<k, r>>)
  PROVE  KeysInv'
<1>1. KeyTypes /\ Turns /\ Ways
  BY DEF KeysInv
<1>2. Turns' /\ chain' \in Seq(TypingRequests)
  BY <1>1, TurnPasses DEF Moves
<1>3. Ways'
  BY <1>1, WaysKept
<1>4. Carried' /\ Doing' /\ Returned' /\ Box' /\ Submitted'
  <2>1. CASE Quiet(r, to, end) /\ pipe' = pipe
    BY <2>1, QuietKeeps
  <2>2. ASSUME NEW k \in {"body", "enter", "esc", "ctrlU"},
               Writes(r, k, to, end), pipe' = Append(pipe, <<k, r>>)
        PROVE  Carried' /\ Doing' /\ Returned' /\ Box' /\ Submitted'
    BY <2>2, WritesKeeps
  <2> QED
    BY <2>1, <2>2
<1>5. KeyTypes'
  <2>1. at' \in [TypingRequests -> {"idle", "queued", "mail", "done"} \cup InTurn]
    BY <1>1 DEF KeyTypes, Moves
  <2>2. answer' \in [TypingRequests -> {None, "ok", "cleared", "partial", "refused"}]
    BY <1>1 DEF KeyTypes, Moves, Says
  <2>3. pipe' \in Seq(Tokens)
    <3>1. pipe \in Seq(Tokens)
      BY <1>1 DEF KeyTypes
    <3>2. ASSUME NEW k \in {"body", "enter", "esc", "ctrlU"}, pipe' = Append(pipe, <<k, r>>)
          PROVE  pipe' \in Seq(Tokens)
      <4>1. <<k, r>> \in Tokens
        BY DEF Tokens
      <4> QED
        BY <3>1, <3>2, <4>1, AppendProperties
    <3> QED
      BY <3>1, <3>2
  <2> QED
    BY <1>1, <1>2, <2>1, <2>2, <2>3 DEF KeyTypes, Moves, Says
<1> QED
  BY <1>2, <1>3, <1>4, <1>5 DEF KeysInv

(* A request that keeps its answer.                                        *)
LEMMA AnswerKept ==
  ASSUME KeyTypes, NEW r \in TypingRequests
  PROVE  [answer EXCEPT ![r] = answer[r]] = answer
BY DEF KeyTypes

LEMMA RushKept ==
  ASSUME KeyTypes, Rush, NEW r \in TypingRequests, NEW to, at' = [at EXCEPT ![r] = to],
         UNCHANGED <<recent, rushed>>, cool \subseteq cool',
         r \in Stops /\ to \in {"look", "dial"} => at[r] \in {"look", "dial"} \/ ~recent
  PROVE  Rush'
<1>1. Stops \subseteq TypingRequests
  BY DEF TypingRequests, Typing!Requests
<1>2. at'[r] = to /\ \A q \in TypingRequests \ {r} : at'[q] = at[q]
  BY DEF KeyTypes
<1> QED
  BY <1>1, <1>2 DEF Rush

\* r gives up its turn with nothing written.
LEMMA GivesUp ==
  ASSUME KeysInv, NEW r \in TypingRequests, AtHead(r), r \notin typed,
         at[r] \notin {"gap", "wipe"}, Typing!NotTyped(r),
         UNCHANGED <<cool, inbox, typed, recent, rushed, pipe, pending, dialogs, box, working,
                     lines, pasted, back>>
  PROVE  KeysInv'
<1>1. KeyTypes /\ Ways /\ Rush
  BY DEF KeysInv
<1>2. at[r] # "done" /\ at[r] # "enter"
  BY <1>1 DEF AtHead, InTurn, Ways
<1>3. answer[r] \in {None, "ok", "refused"} /\ answer[r] \notin {"cleared", "partial"}
  BY <1>1, <1>2 DEF KeyTypes, Ways
<1>4. CASE at' = [at EXCEPT ![r] = "mail"] /\ chain' = Tail(chain) /\ answer' = answer
  <2>1. Moves(r, "mail", answer[r])
    BY <1>1, <1>4, AnswerKept DEF Moves
  <2>2. Passes(r, "mail") /\ Says(r, "mail", answer[r]) /\ Quiet(r, "mail", answer[r])
    BY <1>2, <1>3, <1>4 DEF Passes, Says, Quiet
  <2>3. Rush'
    BY <1>1, <1>4, RushKept
  <2> QED
    BY <1>2, <2>1, <2>2, <2>3, AgentKeeps
<1>5. CASE /\ at' = [at EXCEPT ![r] = "done"] /\ answer' = [answer EXCEPT ![r] = "refused"]
           /\ chain' = Tail(chain)
  <2>1. Moves(r, "done", "refused")
    BY <1>5 DEF Moves
  <2>2. Passes(r, "done") /\ Says(r, "done", "refused") /\ Quiet(r, "done", "refused")
    BY <1>2, <1>3, <1>5 DEF Passes, Says, Quiet
  <2>3. Rush'
    BY <1>1, <1>5, RushKept
  <2> QED
    BY <1>2, <2>1, <2>2, <2>3, AgentKeeps
<1> QED
  BY <1>4, <1>5 DEF Typing!NotTyped, Typing!Finish, Typing!AfterTurn

\* r ends its turn with an answer.
LEMMA EndsTurn ==
  ASSUME KeysInv, NEW r \in TypingRequests, at[r] \in InTurn, NEW end \in {"ok", "partial", "cleared"},
         Typing!Finish(r, end),
         UNCHANGED <<inbox, typed, box, working, lines, pasted, back>>, Rush',
         \/ Quiet(r, "done", end) /\ pipe' = pipe
         \/ \E k \in {"body", "enter", "esc", "ctrlU"} :
              Writes(r, k, "done", end) /\ pipe' = Append(pipe, <<k, r>>)
  PROVE  KeysInv'
<1>1. at[r] # "done"
  BY DEF InTurn
<1>2. Moves(r, "done", end)
  BY DEF Moves, Typing!Finish
<1>3. Passes(r, "done") /\ Says(r, "done", end)
  BY DEF Passes, Says, AtHead, Typing!Finish, Typing!AfterTurn
<1> QED
  BY <1>1, <1>2, <1>3, AgentKeeps

\* r goes on to the next place of its turn.
LEMMA GoesOn ==
  ASSUME KeysInv, NEW r \in TypingRequests, NEW to \in InTurn, AtHead(r),
         at' = [at EXCEPT ![r] = to], UNCHANGED <<chain, answer>>,
         UNCHANGED <<inbox, box, working, lines, pasted, back>>, Rush',
         \/ typed' = typed /\ r \notin typed /\ to # "enter"
         \/ typed' = typed \cup {r} /\ to = "enter",
         \/ Quiet(r, to, answer[r]) /\ pipe' = pipe
         \/ \E k \in {"body", "enter", "esc", "ctrlU"} :
              Writes(r, k, to, answer[r]) /\ pipe' = Append(pipe, <<k, r>>)
  PROVE  KeysInv'
<1>1. KeyTypes /\ Ways
  BY DEF KeysInv
<1>2. at[r] # "done"
  BY DEF AtHead, InTurn
<1>3. answer[r] \in {None, "ok", "refused"} /\ answer[r] \notin {"cleared", "partial"}
  BY <1>1, <1>2 DEF KeyTypes, Ways
<1>4. Moves(r, to, answer[r])
  BY <1>1, AnswerKept DEF Moves
<1>5. Passes(r, to) /\ Says(r, to, answer[r])
  BY <1>3 DEF Passes, Says
<1> QED
  BY <1>2, <1>4, <1>5, AgentKeeps

LEMMA WorkKeeps ==
  ASSUME KeysInv, NEW r \in TypingRequests, Typing!Ask(r) \/ Typing!Work(r)
  PROVE  KeysInv'
<1>1. KeyTypes /\ Turns /\ Ways /\ Rush /\ Doing
  BY DEF KeysInv
<1>2. /\ Typers \subseteq TypingRequests /\ Stops \subseteq TypingRequests
      /\ at[r] = "enter" => r \in Typers /\ r \in typed
      /\ at[r] \in {"gap", "wipe"} => r \in Stops
      /\ at[r] \in {"queued", "look", "dial", "gap", "wipe", "mail"} => r \notin typed
  BY <1>1 DEF Doing, Ways, InTurn, Typers, TypingRequests, Typing!Typing, Typing!Requests
<1>3. /\ at[r] # "done" => answer[r] \notin {"cleared", "partial"}
      /\ answer[r] \in {None, "ok", "cleared", "partial", "refused"}
  BY <1>1 DEF KeyTypes, Ways
<1>4. CASE Typing!Ask(r)
  <2>1. at[r] = "idle" /\ Moves(r, "queued", answer[r])
    BY <1>1, <1>4, AnswerKept DEF Typing!Ask, Moves, Typing!screen
  <2>2. r \notin typed
    BY <1>1, <2>1 DEF Ways
  <2>3. Passes(r, "queued") /\ Says(r, "queued", answer[r]) /\ Quiet(r, "queued", answer[r])
    BY <1>3, <1>4, <2>1, <2>2 DEF Typing!Ask, Passes, Says, Quiet
  <2>4. Rush'
    BY <1>1, <1>4, RushKept DEF Typing!Ask
  <2> QED
    BY <1>4, <2>1, <2>3, <2>4, AgentKeeps DEF Typing!Ask
<1>5. CASE Typing!Start(r)
  <2>1. AtHead(r) /\ at[r] = "queued"
    BY <1>5 DEF Typing!Start, Typing!HasTurn, AtHead
  <2>2. CASE Typing!NotTyped(r)
    BY <1>2, <1>5, <2>1, <2>2, GivesUp DEF Typing!Start, Typing!screen
  <2>3. CASE ~Typing!TooSoon(r) /\ at' = [at EXCEPT ![r] = "look"] /\ UNCHANGED <<chain, answer>>
    <3>1. r \in Stops => ~recent
      BY <1>1, <2>3 DEF Typing!TooSoon, Rush
    <3>2. Rush'
      BY <1>1, <1>5, <2>3, <3>1, RushKept DEF Typing!Start
    <3>3. Quiet(r, "look", answer[r])
      BY <2>1 DEF Quiet
    <3> QED
      BY <1>2, <1>5, <2>1, <2>3, <3>2, <3>3, GoesOn DEF Typing!Start, Typing!screen, InTurn
  <2> QED
    BY <1>5, <2>2, <2>3 DEF Typing!Start
<1>6. CASE Typing!Look(r)
  <2>1. AtHead(r) /\ at[r] = "look"
    BY <1>6 DEF Typing!Look, AtHead, InTurn
  <2>2. CASE Typing!NotTyped(r)
    BY <1>2, <1>6, <2>1, <2>2, GivesUp DEF Typing!Look, Typing!screen
  <2>3. CASE at' = [at EXCEPT ![r] = "dial"] /\ UNCHANGED <<chain, answer>>
    <3>1. Rush'
      BY <1>1, <1>6, <2>1, <2>3, RushKept DEF Typing!Look
    <3>2. Quiet(r, "dial", answer[r])
      BY <2>1 DEF Quiet
    <3> QED
      BY <1>2, <1>6, <2>1, <2>3, <3>1, <3>2, GoesOn DEF Typing!Look, Typing!screen, InTurn
  <2> QED
    BY <1>6, <2>2, <2>3 DEF Typing!Look
<1>7. CASE Typing!GiveUp(r)
  <2>1. AtHead(r) /\ at[r] \in {"dial", "enter"} /\ at[r] \in InTurn
    BY <1>7 DEF Typing!GiveUp, AtHead, InTurn
  <2>2. CASE r \in typed
    <3>1. at[r] = "enter" /\ Typing!Finish(r, "partial")
      BY <1>2, <1>7, <2>1, <2>2 DEF Typing!GiveUp, Typing!BrokenOff
    <3>2. Rush'
      BY <1>1, <1>7, <3>1, RushKept DEF Typing!GiveUp, Typing!Finish
    <3>3. Quiet(r, "done", "partial")
      BY <3>1 DEF Quiet
    <3> QED
      BY <1>7, <2>1, <3>1, <3>2, <3>3, EndsTurn DEF Typing!GiveUp, Typing!screen
  <2>3. CASE r \notin typed
    BY <1>7, <2>1, <2>3, GivesUp DEF Typing!GiveUp, Typing!BrokenOff, Typing!screen
  <2> QED
    BY <2>2, <2>3
<1>8. CASE Typing!HoldBack(r)
  BY <1>2, <1>8, GivesUp DEF Typing!HoldBack, Typing!screen, AtHead, InTurn
<1>9. CASE Typing!TypeBody(r)
  <2>1. r \in Typers /\ at[r] = "dial" /\ AtHead(r)
    BY <1>9 DEF Typing!TypeBody, Typers, AtHead, InTurn
  <2>2. Rush'
    BY <1>1, <1>9, RushKept DEF Typing!TypeBody
  <2>3. Writes(r, "body", "enter", answer[r]) /\ pipe' = Append(pipe, <<"body", r>>)
    BY <1>9, <2>1 DEF Writes, Typing!TypeBody
  <2> QED
    BY <1>9, <2>1, <2>2, <2>3, GoesOn DEF Typing!TypeBody, Typing!screen, InTurn
<1>10. CASE Typing!TypeEnter(r)
  <2>1. at[r] = "enter" /\ at[r] \in InTurn
    BY <1>10 DEF Typing!TypeEnter, InTurn
  <2>2. Rush'
    <3>1. at' = [at EXCEPT ![r] = "done"] /\ cool \subseteq cool'
      BY <1>10 DEF Typing!TypeEnter, Typing!Finish
    <3> QED
      BY <1>1, <1>10, <3>1, RushKept DEF Typing!TypeEnter
  <2>3. CASE Typing!Finish(r, "partial") /\ pipe' = pipe
    <3>1. Quiet(r, "done", "partial")
      BY <2>1 DEF Quiet
    <3> QED
      BY <1>10, <2>1, <2>2, <2>3, <3>1, EndsTurn DEF Typing!TypeEnter, Typing!screen
  <2>4. CASE Typing!Finish(r, "ok") /\ pipe' = Append(pipe, <<"enter", r>>)
    <3>1. Writes(r, "enter", "done", "ok")
      BY <2>1 DEF Writes
    <3> QED
      BY <1>10, <2>1, <2>2, <2>4, <3>1, EndsTurn DEF Typing!TypeEnter, Typing!screen
  <2> QED
    BY <1>10, <2>3, <2>4 DEF Typing!TypeEnter
<1>11. CASE Typing!TypeEsc(r)
  <2>1. r \in Stops /\ at[r] = "dial" /\ AtHead(r) /\ at[r] \in InTurn /\ ~recent
    BY <1>1, <1>11 DEF Typing!TypeEsc, AtHead, InTurn, Rush
  <2>2. Rush'
    <3>1. at' = [at EXCEPT ![r] = "gap"] \/ at' = [at EXCEPT ![r] = "done"]
      BY <1>11 DEF Typing!TypeEsc, Typing!Finish
    <3>2. \A s \in Stops : at'[s] \notin {"look", "dial"}
      <4>1. at'[r] \in {"gap", "done"} /\ \A s \in TypingRequests \ {r} : at'[s] = at[s]
        BY <1>1, <3>1 DEF KeyTypes
      <4>2. \A s \in TypingRequests \ {r} : at[s] \notin InTurn
        BY <1>1, <2>1, OneTurn
      <4> QED
        BY <1>2, <4>1, <4>2 DEF InTurn
    <3>3. "escape" \in cool' /\ ~rushed'
      BY <1>1, <1>11, <2>1 DEF Typing!TypeEsc, Rush
    <3> QED
      BY <3>2, <3>3 DEF Rush
  <2>3. pipe' = Append(pipe, <<"esc", r>>)
    BY <1>11 DEF Typing!TypeEsc
  <2>4. CASE at' = [at EXCEPT ![r] = "gap"] /\ UNCHANGED <<chain, answer>>
    <3>1. Writes(r, "esc", "gap", answer[r])
      BY <2>1 DEF Writes
    <3> QED
      BY <1>2, <1>11, <2>1, <2>2, <2>3, <2>4, <3>1, GoesOn DEF Typing!TypeEsc, Typing!screen, InTurn
  <2>5. CASE Typing!Finish(r, "ok")
    <3>1. Writes(r, "esc", "done", "ok")
      BY <2>1 DEF Writes
    <3> QED
      BY <1>11, <2>1, <2>2, <2>3, <2>5, <3>1, EndsTurn DEF Typing!TypeEsc, Typing!screen
  <2> QED
    BY <1>11, <2>4, <2>5 DEF Typing!TypeEsc
<1>12. CASE Typing!StopLook(r)
  <2>1. at[r] = "gap" /\ AtHead(r) /\ at[r] \in InTurn
    BY <1>12 DEF Typing!StopLook, AtHead, InTurn
  <2>2. CASE Typing!Finish(r, "ok")
    <3>1. Quiet(r, "done", "ok")
      BY <2>1 DEF Quiet
    <3>2. Rush'
      BY <1>1, <1>12, <2>2, RushKept DEF Typing!StopLook, Typing!Finish
    <3> QED
      BY <1>12, <2>1, <2>2, <3>1, <3>2, EndsTurn DEF Typing!StopLook, Typing!screen
  <2>3. CASE at' = [at EXCEPT ![r] = "wipe"] /\ UNCHANGED <<chain, answer>>
    <3>1. Quiet(r, "wipe", answer[r])
      BY <1>3, <2>1 DEF Quiet
    <3>2. Rush'
      BY <1>1, <1>12, <2>3, RushKept DEF Typing!StopLook
    <3> QED
      BY <1>2, <1>12, <2>1, <2>3, <3>1, <3>2, GoesOn DEF Typing!StopLook, Typing!screen, InTurn
  <2> QED
    BY <1>12, <2>2, <2>3 DEF Typing!StopLook
<1>13. CASE Typing!StopWipe(r)
  <2>1. at[r] = "wipe" /\ at[r] \in InTurn
    BY <1>13 DEF Typing!StopWipe, InTurn
  <2>2. Rush'
    <3>1. at' = [at EXCEPT ![r] = "done"]
      BY <1>13 DEF Typing!StopWipe, Typing!Finish
    <3> QED
      BY <1>1, <1>13, <3>1, RushKept DEF Typing!StopWipe
  <2>3. CASE Typing!Finish(r, "ok") /\ pipe' = pipe
    <3>1. Quiet(r, "done", "ok")
      BY <2>1 DEF Quiet
    <3> QED
      BY <1>13, <2>1, <2>2, <2>3, <3>1, EndsTurn DEF Typing!StopWipe, Typing!screen
  <2>4. CASE Typing!Finish(r, "cleared") /\ pipe' = Append(pipe, <<"ctrlU", r>>)
    <3>1. Writes(r, "ctrlU", "done", "cleared")
      BY <2>1 DEF Writes
    <3> QED
      BY <1>13, <2>1, <2>2, <2>4, <3>1, EndsTurn DEF Typing!StopWipe, Typing!screen
  <2> QED
    BY <1>13, <2>3, <2>4 DEF Typing!StopWipe
<1>14. CASE Typing!TypeClear(r)
  <2>1. at[r] = "dial" /\ at[r] \in InTurn /\ Typing!Finish(r, "ok")
        /\ pipe' = Append(pipe, <<"ctrlU", r>>)
    BY <1>14 DEF Typing!TypeClear, InTurn
  <2>2. Rush'
    BY <1>1, <1>14, <2>1, RushKept DEF Typing!TypeClear, Typing!Finish
  <2>3. Writes(r, "ctrlU", "done", "ok")
    BY <2>1 DEF Writes
  <2> QED
    BY <1>14, <2>1, <2>2, <2>3, EndsTurn DEF Typing!TypeClear, Typing!screen
<1>15. CASE Typing!Mail(r)
  <2>1. at[r] = "mail" /\ at' = [at EXCEPT ![r] = "done"] /\ chain' = chain /\ typed' = typed
        /\ pipe' = pipe
    BY <1>15 DEF Typing!Mail
  <2>2. Rush'
    BY <1>1, <1>15, <2>1, RushKept DEF Typing!Mail
  <2>3. PICK end \in {"ok", "refused"} :
          answer' = [answer EXCEPT ![r] = end] /\ (inbox' = inbox \/ inbox' = inbox \cup {r})
    BY <1>15 DEF Typing!Mail
  <2>4. Moves(r, "done", end)
    BY <1>15, <2>1, <2>3 DEF Moves, Typing!Mail, Typing!screen
  <2>5. Passes(r, "done") /\ Says(r, "done", end) /\ Quiet(r, "done", end)
    BY <1>2, <2>1, <2>3 DEF Passes, Says, Quiet
  <2> QED
    BY <2>1, <2>2, <2>4, <2>5, AgentKeeps
<1> QED
  BY <1>4, <1>5, <1>6, <1>7, <1>8, <1>9, <1>10, <1>11, <1>12, <1>13, <1>14, <1>15 DEF Typing!Work

-----------------------------------------------------------------------------
(* A step of the terminal's side.                                          *)

\* The PC's side stands still and the first n tokens leave the pipe.
Reads(n) ==
  /\ UNCHANGED <<at, chain, answer, cool, inbox, typed, recent, rushed>>
  /\ n \in 1..Len(pipe) /\ pipe' \in Seq(Tokens) /\ Len(pipe') = Len(pipe) - n
  /\ \A i \in 1..Len(pipe') : pipe'[i] = pipe[i + n]

LEMMA ReadsKeeps ==
  ASSUME KeysInv, NEW n, Reads(n),
         pipe' # <<>> /\ pipe'[1][1] = "enter" => In(pipe'[1][2], box'),
         \A r \in TypingRequests : at[r] = "enter" /\ pipe' = <<>> => In(r, box'),
         box' \in Seq(Typers), working' = None \/ working' \in Seq(Typers),
         back' \in [Typers -> SUBSET Stops],
         \A m \in Typers : \A s \in back'[m] : at[s] \in {"gap", "wipe", "done"},
         Box', Submitted'
  PROVE  KeysInv'
<1>1. KeyTypes /\ Turns /\ Ways /\ Rush /\ Carried /\ Doing
  BY DEF KeysInv
<1>2. KeyTypes' /\ Turns' /\ Ways' /\ Rush' /\ Returned'
  BY <1>1 DEF KeyTypes, Turns, Ways, Rush, Returned, Reads, In
<1>3. /\ pipe \in Seq(Tokens) /\ Len(pipe) \in Nat /\ Len(pipe') \in Nat /\ n \in Nat
      /\ \A i \in 1..Len(pipe) : pipe[i] \in Tokens
      /\ pipe' # <<>> <=> Len(pipe') # 0
  BY <1>1, EmptySeq DEF KeyTypes, Reads
<1>4. Carried'
  <2> SUFFICES ASSUME NEW i \in 1..Len(pipe') PROVE TokenAt(i)'
    BY DEF Carried
  <2>1. /\ i + n \in 1..Len(pipe) /\ pipe'[i] = pipe[i + n] /\ TokenAt(i + n)
        /\ i + n = Len(pipe) <=> i = Len(pipe')
        /\ i + n < Len(pipe) <=> i < Len(pipe')
    BY <1>1, <1>3 DEF Reads, Carried
  <2>2. i < Len(pipe') => pipe'[i + 1] = pipe[(i + n) + 1]
    <3>1. i < Len(pipe') => i + 1 \in 1..Len(pipe') /\ (i + 1) + n = (i + n) + 1
      BY <1>3
    <3> QED
      BY <3>1 DEF Reads
  <2>3. i # 1 => pipe'[i - 1] = pipe[(i + n) - 1]
    <3>1. i # 1 => i - 1 \in 1..Len(pipe') /\ (i - 1) + n = (i + n) - 1
      BY <1>3
    <3> QED
      BY <3>1 DEF Reads
  <2>4. at' = at /\ answer' = answer
    BY DEF Reads
  <2>5. ASSUME pipe'[i][1] = "body" PROVE BodyAt(i)'
    <3>1. BodyAt(i + n)
      BY <2>1, <2>5 DEF TokenAt
    <3> QED
      BY <2>1, <2>2, <2>4, <3>1 DEF BodyAt
  <2>6. ASSUME pipe'[i][1] = "enter" PROVE EnterAt(i)'
    <3>1. EnterAt(i + n) /\ i + n # 1
      BY <1>3, <2>1, <2>6 DEF TokenAt, Reads
    <3>2. i = 1 => In(pipe'[i][2], box')
      BY <1>3, <2>6
    <3> QED
      BY <2>1, <2>3, <3>1, <3>2 DEF EnterAt, In
  <2>7. ASSUME pipe'[i][1] = "esc" PROVE EscAt(i)'
    <3>1. EscAt(i + n)
      BY <2>1, <2>7 DEF TokenAt
    <3> QED
      BY <2>1, <2>2, <2>4, <3>1 DEF EscAt
  <2> QED
    BY <2>5, <2>6, <2>7 DEF TokenAt
<1>5. Doing'
  <2>1. pipe' # <<>> => pipe'[Len(pipe')] = pipe[Len(pipe)] /\ pipe # <<>>
    <3>1. pipe' # <<>> => Len(pipe') \in 1..Len(pipe') /\ Len(pipe') + n = Len(pipe)
      BY <1>3 DEF Reads
    <3>2. pipe # <<>>
      BY <1>3, EmptySeq DEF Reads
    <3> QED
      BY <3>1, <3>2 DEF Reads
  <2> QED
    BY <1>1, <2>1 DEF Doing, Reads, In
<1> QED
  BY <1>2, <1>4, <1>5 DEF KeysInv

\* The one read, unless it is what was typed last.
LEMMA ReadOne ==
  ASSUME KeysInv, pipe # <<>>, pipe' = Tail(pipe),
         UNCHANGED <<at, chain, answer, cool, inbox, typed, recent, rushed>>
  PROVE  /\ Reads(1) /\ TokenAt(1) /\ pipe[1] \in Tokens /\ Len(pipe) \in Nat \ {0}
         /\ pipe' # <<>> => Len(pipe) > 1 /\ pipe'[1] = pipe[2] /\ pipe[2] \in Tokens /\ TokenAt(2)
         /\ pipe' = <<>> <=> Len(pipe) = 1
<1>1. pipe \in Seq(Tokens) /\ Carried
  BY DEF KeysInv, KeyTypes
<1>2. Len(pipe) \in Nat \ {0} /\ \A i \in 1..Len(pipe) : pipe[i] \in Tokens
  BY <1>1, EmptySeq
<1>3. /\ pipe' \in Seq(Tokens) /\ Len(pipe') = Len(pipe) - 1
      /\ \A i \in 1..Len(pipe') : pipe'[i] = pipe[i + 1]
  BY <1>1, HeadTailProperties
<1>4. pipe' # <<>> <=> Len(pipe') # 0
  BY <1>3, EmptySeq
<1>5. Reads(1)
  BY <1>2, <1>3 DEF Reads
<1>6. pipe' # <<>> => Len(pipe) > 1 /\ pipe'[1] = pipe[2]
  BY <1>2, <1>3, <1>4
<1> QED
  BY <1>1, <1>2, <1>3, <1>4, <1>5, <1>6 DEF Carried

\* An Enter in the pipe follows its body, so that what was read before it is one.
LEMMA EnterAfterBody ==
  ASSUME KeysInv, Len(pipe) > 1, TokenAt(2), pipe[2][1] = "enter"
  PROVE  pipe[1] = <<"body", pipe[2][2]>>
BY DEF TokenAt, EnterAt

\* Before a token that is no Enter and no Ctrl-U all of the box is known about.
LEMMA KnownBefore ==
  ASSUME KeysInv, pipe # <<>>, pipe[1][1] # "ctrlU", NEW i \in 1..Len(box),
         pipe[1] # <<"enter", box[i]>>
  PROVE  Told(box[i])
BY DEF KeysInv, Box, Lies

\* What is told stays told while the terminal reads.
LEMMA ReadsTold ==
  ASSUME UNCHANGED <<at, answer>>, pasted \subseteq pasted', NEW m \in Typers,
         back[m] \subseteq back'[m], Told(m)
  PROVE  Told(m)'
BY DEF Told

LEMMA ReadBodyKeeps ==
  ASSUME KeysInv, Typing!ReadBody
  PROVE  KeysInv'
<1>1. /\ pipe # <<>> /\ pipe[1][1] = "body" /\ box' = Append(box, pipe[1][2]) /\ pipe' = Tail(pipe)
      /\ UNCHANGED <<at, chain, answer, cool, inbox, typed, recent, rushed, working, lines, pasted, back>>
  BY DEF Typing!ReadBody, Typing!Token, Typing!From, Typing!agent
<1>2. /\ Reads(1) /\ TokenAt(1) /\ pipe[1] \in Tokens /\ Len(pipe) \in Nat \ {0}
      /\ pipe' # <<>> => Len(pipe) > 1 /\ pipe'[1] = pipe[2] /\ pipe[2] \in Tokens /\ TokenAt(2)
      /\ pipe' = <<>> <=> Len(pipe) = 1
  BY <1>1, ReadOne
<1>3. KeyTypes /\ Returned /\ Submitted /\ Doing
  BY DEF KeysInv
<1>4. BodyAt(1) /\ pipe[1][2] \in Typers
  BY <1>1, <1>2 DEF TokenAt, BodyAt
<1> PICK f \in Typers : f = pipe[1][2]
  BY <1>4
<1>5. /\ box \in Seq(Typers) /\ box' \in Seq(Typers) /\ Len(box') = Len(box) + 1 /\ Len(box) \in Nat
      /\ \A i \in 1..Len(box) : box'[i] = box[i] /\ box[i] \in Typers
      /\ box'[Len(box) + 1] = f
  <2>1. box \in Seq(Typers)
    BY <1>3 DEF KeyTypes
  <2> QED
    BY <1>1, <1>4, <2>1, AppendProperties
<1>6. In(f, box')
  BY <1>5 DEF In
<1>7. pipe' # <<>> /\ pipe'[1][1] = "enter" => In(pipe'[1][2], box')
  <2> SUFFICES ASSUME pipe' # <<>>, pipe'[1][1] = "enter" PROVE In(pipe'[1][2], box')
    OBVIOUS
  <2>1. pipe[1] = <<"body", pipe[2][2]>>
    BY <1>2, EnterAfterBody
  <2> QED
    BY <1>2, <1>6, <2>1
<1>8. \A r \in TypingRequests : at[r] = "enter" /\ pipe' = <<>> => In(r, box')
  <2> SUFFICES ASSUME NEW r \in TypingRequests, at[r] = "enter", pipe' = <<>> PROVE In(r, box')
    OBVIOUS
  <2>1. pipe[1] = <<"body", r>>
    BY <1>1, <1>2, <1>3 DEF Doing
  <2> QED
    BY <1>6, <2>1
<1>9. \A m \in Typers : Told(m) => Told(m)'
  BY <1>1, ReadsTold
<1>10. Submitted'
  BY <1>1, <1>3, <1>9 DEF Submitted
<1>11. Box'
  <2> SUFFICES ASSUME NEW i \in 1..(Len(box) + 1) PROVE Lies(box[i])'
    BY <1>5 DEF Box
  <2>1. CASE i \in 1..Len(box)
    <3>1. Told(box[i])
      BY <1>1, <2>1, KnownBefore
    <3> QED
      BY <1>5, <1>9, <2>1, <3>1 DEF Lies
  <2>2. CASE i = Len(box) + 1
    <3>1. box'[i] = f
      BY <1>5, <2>2
    <3>2. CASE answer[f] = "partial"
      <4>1. Told(f)'
        BY <1>9, <3>2 DEF Told
      <4> QED
        BY <3>1, <4>1 DEF Lies, Told
    <3>3. CASE 1 = Len(pipe) /\ at[f] = "enter"
      <4>1. pipe' = <<>>
        BY <1>2, <3>3
      <4> QED
        BY <1>1, <3>1, <3>3, <4>1 DEF Lies
    <3>4. CASE 1 < Len(pipe) /\ pipe[1 + 1] = <<"enter", f>>
      <4>1. pipe' # <<>> /\ pipe'[1] = <<"enter", f>>
        <5>1. Len(pipe') = Len(pipe) - 1
          BY <1>2 DEF Reads
        <5>2. pipe' # <<>>
          BY <1>2, <3>4, <5>1, EmptySeq
        <5> QED
          BY <1>2, <3>4, <5>2
      <4> QED
        BY <3>1, <4>1 DEF Lies
    <3> QED
      BY <1>4, <3>2, <3>3, <3>4 DEF BodyAt
  <2> QED
    BY <1>5, <2>1, <2>2
<1> QED
  BY <1>1, <1>2, <1>3, <1>5, <1>7, <1>8, <1>10, <1>11, ReadsKeeps DEF KeyTypes, Returned

LEMMA ReadPasteKeeps ==
  ASSUME KeysInv, Typing!ReadPaste
  PROVE  KeysInv'
<1>1. /\ Len(pipe) >= 2 /\ pipe[1][1] = "body" /\ pipe[2] = <<"enter", pipe[1][2]>>
      /\ box' = Append(box, pipe[1][2]) /\ pasted' = pasted \cup {pipe[1][2]}
      /\ pipe' = SubSeq(pipe, 3, Len(pipe))
      /\ UNCHANGED <<at, chain, answer, cool, inbox, typed, recent, rushed, working, lines, back>>
  BY DEF Typing!ReadPaste, Typing!Token, Typing!From, Typing!agent
<1>2. KeyTypes /\ Carried /\ Returned /\ Submitted /\ Doing
  BY DEF KeysInv
<1>3. /\ pipe \in Seq(Tokens) /\ Len(pipe) \in Nat /\ pipe # <<>>
      /\ \A i \in 1..Len(pipe) : pipe[i] \in Tokens
  BY <1>1, <1>2, EmptySeq DEF KeyTypes
<1>4. /\ pipe' \in Seq(Tokens) /\ Len(pipe') = Len(pipe) - 2
      /\ \A i \in 1..(Len(pipe) - 2) : pipe'[i] = pipe[i + 2]
  <2>1. \A i \in 3..Len(pipe) : pipe[i] \in Tokens
    BY <1>3
  <2>2. /\ pipe' \in Seq(Tokens) /\ Len(pipe') = IF 3 <= Len(pipe) THEN Len(pipe) - 3 + 1 ELSE 0
        /\ \A i \in 1..(Len(pipe) - 3 + 1) : pipe'[i] = pipe[3 + i - 1]
    BY <1>1, <1>3, <2>1, SubSeqProperties
  <2>3. \A i \in 1..(Len(pipe) - 2) : i \in 1..(Len(pipe) - 3 + 1) /\ 3 + i - 1 = i + 2
    BY <1>3
  <2>4. CASE Len(pipe) = 2
    <3>1. ~(3 <= Len(pipe)) /\ Len(pipe) - 2 = 0 /\ \A i \in 1..(Len(pipe) - 2) : FALSE
      BY <2>4
    <3> QED
      BY <2>2, <3>1
  <2>5. CASE Len(pipe) > 2
    <3>1. 3 <= Len(pipe) /\ Len(pipe) - 3 + 1 = Len(pipe) - 2
      BY <1>3, <2>5
    <3> QED
      BY <2>2, <2>3, <3>1
  <2>6. Len(pipe) = 2 \/ Len(pipe) > 2
    <3>1. PICK n \in Nat : n = Len(pipe) /\ n >= 2
      BY <1>1, <1>3
    <3>2. n = 2 \/ n > 2
      BY <3>1
    <3> QED
      BY <3>1, <3>2
  <2> QED
    BY <2>4, <2>5, <2>6
<1>5. Reads(2)
  BY <1>1, <1>3, <1>4 DEF Reads
<1>6. BodyAt(1) /\ pipe[1][2] \in Typers
  BY <1>1, <1>2, <1>3 DEF Carried, TokenAt, BodyAt
<1> PICK f \in Typers : f = pipe[1][2]
  BY <1>6
<1>7. /\ box \in Seq(Typers) /\ box' \in Seq(Typers) /\ Len(box') = Len(box) + 1 /\ Len(box) \in Nat
      /\ \A i \in 1..Len(box) : box'[i] = box[i] /\ box[i] \in Typers
      /\ box'[Len(box) + 1] = f
  <2>1. box \in Seq(Typers)
    BY <1>2 DEF KeyTypes
  <2> QED
    BY <1>1, <1>6, <2>1, AppendProperties
<1>8. ~(pipe' # <<>> /\ pipe'[1][1] = "enter")
  <2> SUFFICES ASSUME pipe' # <<>>, pipe'[1][1] = "enter" PROVE FALSE
    OBVIOUS
  <2>1. Len(pipe) > 2 /\ pipe'[1] = pipe[3]
    BY <1>3, <1>4, EmptySeq
  <2>2. EnterAt(3)
    BY <1>2, <1>3, <2>1 DEF Carried, TokenAt
  <2>3. pipe[2] = <<"body", pipe[3][2]>>
    BY <2>2 DEF EnterAt
  <2> QED
    BY <1>1, <2>3
<1>9. \A r \in TypingRequests : ~(at[r] = "enter" /\ pipe' = <<>>)
  <2> SUFFICES ASSUME NEW r \in TypingRequests, at[r] = "enter", pipe' = <<>> PROVE FALSE
    OBVIOUS
  <2>1. Len(pipe) = 2 /\ pipe[Len(pipe)] = <<"body", r>>
    BY <1>2, <1>3, <1>4, EmptySeq DEF Doing
  <2> QED
    BY <1>1, <2>1
<1>10. \A m \in Typers : Told(m) => Told(m)'
  BY <1>1, ReadsTold
<1>11. Submitted'
  BY <1>1, <1>2, <1>10 DEF Submitted
<1>12. Box'
  <2> SUFFICES ASSUME NEW i \in 1..(Len(box) + 1) PROVE Lies(box[i])'
    BY <1>7 DEF Box
  <2>1. CASE i \in 1..Len(box)
    <3>1. Told(box[i])
      BY <1>1, <1>3, <2>1, KnownBefore
    <3> QED
      BY <1>7, <1>10, <2>1, <3>1 DEF Lies
  <2>2. CASE i = Len(box) + 1
    <3>1. Told(f)'
      BY <1>1 DEF Told
    <3> QED
      BY <1>7, <2>2, <3>1 DEF Lies
  <2> QED
    BY <1>7, <2>1, <2>2
<1> QED
  BY <1>1, <1>2, <1>5, <1>7, <1>8, <1>9, <1>11, <1>12, ReadsKeeps DEF KeyTypes, Returned

LEMMA ReadEnterKeeps ==
  ASSUME KeysInv, Typing!ReadEnter
  PROVE  KeysInv'
<1>1. /\ pipe # <<>> /\ pipe[1][1] = "enter" /\ box' = <<>> /\ pipe' = Tail(pipe)
      /\ lines' = lines \cup {[by |-> pipe[1][2], text |-> Typing!Range(box)]}
      /\ working' = working \/ working' = box
      /\ UNCHANGED <<at, chain, answer, cool, inbox, typed, recent, rushed, pasted, back>>
  BY DEF Typing!ReadEnter, Typing!Token, Typing!From, Typing!agent
<1>2. /\ Reads(1) /\ TokenAt(1) /\ pipe[1] \in Tokens /\ Len(pipe) \in Nat \ {0}
      /\ pipe' # <<>> => Len(pipe) > 1 /\ pipe'[1] = pipe[2] /\ pipe[2] \in Tokens /\ TokenAt(2)
      /\ pipe' = <<>> <=> Len(pipe) = 1
  BY <1>1, ReadOne
<1>3. KeyTypes /\ Returned /\ Submitted /\ Doing
  BY DEF KeysInv
<1>4. In(pipe[1][2], box) /\ pipe[1] = <<"enter", pipe[1][2]>>
  BY <1>1, <1>2 DEF TokenAt, EnterAt, Tokens
<1>5. box \in Seq(Typers) /\ Typing!Range(box) = {box[i] : i \in 1..Len(box)}
  BY <1>3 DEF KeyTypes, Typing!Range
<1>6. ~(pipe' # <<>> /\ pipe'[1][1] = "enter")
  <2> SUFFICES ASSUME pipe' # <<>>, pipe'[1][1] = "enter" PROVE FALSE
    OBVIOUS
  <2>1. pipe[1] = <<"body", pipe[2][2]>>
    BY <1>2, EnterAfterBody
  <2> QED
    BY <1>1, <2>1
<1>7. \A r \in TypingRequests : ~(at[r] = "enter" /\ pipe' = <<>>)
  BY <1>1, <1>2, <1>3 DEF Doing
<1>8. \A m \in Typers : Told(m) => Told(m)'
  BY <1>1, ReadsTold
<1>9. Submitted'
  <2> SUFFICES ASSUME NEW l \in lines'
               PROVE  l.text \subseteq Typers /\ l.by \in l.text /\ \A m \in l.text \ {l.by} : Told(m)'
    BY DEF Submitted
  <2>1. CASE l \in lines
    BY <1>3, <1>8, <2>1 DEF Submitted
  <2>2. CASE l = [by |-> pipe[1][2], text |-> Typing!Range(box)]
    <3>1. l.by = pipe[1][2] /\ l.text = {box[i] : i \in 1..Len(box)}
      BY <1>5, <2>2
    <3>2. l.text \subseteq Typers /\ l.by \in l.text
      BY <1>4, <1>5, <3>1 DEF In
    <3>3. ASSUME NEW m \in l.text \ {l.by} PROVE Told(m)'
      <4>1. PICK i \in 1..Len(box) : m = box[i]
        BY <3>1, <3>3
      <4>2. Told(box[i])
        BY <1>1, <1>4, <3>1, <3>3, <4>1, KnownBefore
      <4> QED
        BY <1>8, <3>2, <3>3, <4>1, <4>2
    <3> QED
      BY <3>2, <3>3
  <2> QED
    BY <1>1, <2>1, <2>2
<1>10. Box' /\ box' \in Seq(Typers)
  BY <1>1 DEF Box
<1>11. working' = None \/ working' \in Seq(Typers)
  BY <1>1, <1>3, <1>5 DEF KeyTypes
<1> QED
  BY <1>1, <1>2, <1>3, <1>6, <1>7, <1>9, <1>10, <1>11, ReadsKeeps DEF KeyTypes, Returned

LEMMA ReadEscKeeps ==
  ASSUME KeysInv, Typing!ReadEsc
  PROVE  KeysInv'
<1>1. /\ pipe # <<>> /\ pipe[1][1] = "esc" /\ pipe' = Tail(pipe)
      /\ UNCHANGED <<at, chain, answer, cool, inbox, typed, recent, rushed, lines, pasted>>
  BY DEF Typing!ReadEsc, Typing!Token, Typing!From, Typing!agent
<1>2. /\ Reads(1) /\ TokenAt(1) /\ pipe[1] \in Tokens /\ Len(pipe) \in Nat \ {0}
      /\ pipe' # <<>> => Len(pipe) > 1 /\ pipe'[1] = pipe[2] /\ pipe[2] \in Tokens /\ TokenAt(2)
      /\ pipe' = <<>> <=> Len(pipe) = 1
  BY <1>1, ReadOne
<1>3. KeyTypes /\ Returned /\ Submitted /\ Doing
  BY DEF KeysInv
<1>4. EscAt(1) /\ pipe[1][2] \in Stops
  BY <1>1, <1>2 DEF TokenAt, EscAt
<1> PICK f \in Stops : f = pipe[1][2]
  BY <1>4
<1>5. box \in Seq(Typers) /\ Len(box) \in Nat /\ \A i \in 1..Len(box) : box[i] \in Typers
  BY <1>3 DEF KeyTypes
<1>6. ~(pipe' # <<>> /\ pipe'[1][1] = "enter")
  <2> SUFFICES ASSUME pipe' # <<>>, pipe'[1][1] = "enter" PROVE FALSE
    OBVIOUS
  <2>1. pipe[1] = <<"body", pipe[2][2]>>
    BY <1>2, EnterAfterBody
  <2> QED
    BY <1>1, <2>1
<1>7. \A r \in TypingRequests : ~(at[r] = "enter" /\ pipe' = <<>>)
  BY <1>1, <1>2, <1>3 DEF Doing
<1>8. \A i \in 1..Len(box) : Told(box[i])
  BY <1>1, KnownBefore
<1>9. CASE UNCHANGED <<box, working, back>>
  <2>1. \A m \in Typers : Told(m) => Told(m)'
    BY <1>1, <1>9, ReadsTold
  <2>2. Submitted'
    BY <1>1, <1>3, <2>1 DEF Submitted
  <2>3. Box'
    BY <1>5, <1>8, <1>9, <2>1 DEF Box, Lies
  <2> QED
    BY <1>1, <1>2, <1>3, <1>6, <1>7, <1>9, <2>2, <2>3, ReadsKeeps DEF KeyTypes, Returned
<1>10. CASE /\ working # None /\ box' = working \o box /\ working' = None
            /\ back' = [r \in Typers |-> IF r \in Typing!Range(working) THEN back[r] \cup {f} ELSE back[r]]
  <2>1. /\ working \in Seq(Typers) /\ Len(working) \in Nat
        /\ Typing!Range(working) = {working[i] : i \in 1..Len(working)}
        /\ \A i \in 1..Len(working) : working[i] \in Typers
    BY <1>3, <1>10 DEF KeyTypes, Typing!Range
  <2>2. /\ box' \in Seq(Typers) /\ Len(box') = Len(working) + Len(box)
        /\ \A i \in 1..(Len(working) + Len(box)) :
             box'[i] = IF i <= Len(working) THEN working[i] ELSE box[i - Len(working)]
    BY <1>5, <1>10, <2>1, ConcatProperties
  <2>3. back' \in [Typers -> SUBSET Stops]
    BY <1>3, <1>10 DEF KeyTypes
  <2>4. \A m \in Typers : back[m] \subseteq back'[m] /\ back'[m] \subseteq back[m] \cup {f}
    BY <1>10
  <2>5. \A m \in Typers : \A s \in back'[m] : at[s] \in {"gap", "wipe", "done"}
    BY <1>3, <1>4, <2>4 DEF Returned, EscAt
  <2>6. \A m \in Typers : Told(m) => Told(m)'
    BY <1>1, <2>4, ReadsTold
  <2>7. Submitted'
    BY <1>1, <1>3, <2>6 DEF Submitted
  <2>8. Box'
    <3> SUFFICES ASSUME NEW i \in 1..(Len(working) + Len(box)) PROVE Lies(box[i])'
      BY <2>2 DEF Box
    <3>1. CASE i <= Len(working)
      <4>1. PICK m \in Typers : m = box'[i] /\ m = working[i]
        BY <2>1, <2>2, <3>1
      <4>2. f \in back'[m]
        BY <1>10, <2>1, <3>1, <4>1
      <4>3. at' = at /\ answer' = answer
        BY <1>1
      <4>4. CASE at[f] = "done" /\ answer[f] # "cleared"
        <5>1. Told(m)'
          BY <4>2, <4>3, <4>4 DEF Told
        <5> QED
          BY <4>1, <5>1 DEF Lies
      <4>5. CASE answer[f] = "cleared"
        <5>1. 1 < Len(pipe) /\ pipe[1 + 1][1] = "ctrlU"
          BY <1>4, <4>5 DEF EscAt
        <5>2. Len(pipe') # 0 /\ pipe' # <<>>
          BY <1>2, <5>1, EmptySeq DEF Reads
        <5>3. pipe'[1][1] = "ctrlU"
          BY <1>2, <5>1, <5>2
        <5> QED
          BY <5>2, <5>3 DEF Lies
      <4>6. CASE at[f] # "done"
        <5>1. at[f] \in {"gap", "wipe"} /\ Len(pipe) = 1
          BY <1>4, <4>6 DEF EscAt
        <5>2. pipe' = <<>>
          BY <1>2, <5>1
        <5> QED
          BY <4>1, <4>2, <4>3, <5>1, <5>2 DEF Lies
      <4> QED
        BY <4>4, <4>5, <4>6
    <3>2. CASE ~(i <= Len(working))
      <4>1. i - Len(working) \in 1..Len(box) /\ box'[i] = box[i - Len(working)]
        BY <1>5, <2>1, <2>2, <3>2
      <4>2. PICK m \in Typers : m = box'[i] /\ Told(m)
        BY <1>5, <1>8, <4>1
      <4>3. Told(m)'
        BY <2>6, <4>2
      <4> QED
        BY <4>2, <4>3 DEF Lies
    <3> QED
      BY <3>1, <3>2
  <2> QED
    BY <1>2, <1>6, <1>7, <1>10, <2>2, <2>3, <2>5, <2>7, <2>8, ReadsKeeps
<1> QED
  BY <1>9, <1>10 DEF Typing!ReadEsc, Typing!From, Typers

LEMMA ReadCtrlUKeeps ==
  ASSUME KeysInv, Typing!ReadCtrlU
  PROVE  KeysInv'
<1>1. /\ pipe # <<>> /\ pipe[1][1] = "ctrlU" /\ box' = <<>> /\ pipe' = Tail(pipe)
      /\ UNCHANGED <<at, chain, answer, cool, inbox, typed, recent, rushed, working, lines, pasted, back>>
  BY DEF Typing!ReadCtrlU, Typing!Token, Typing!agent
<1>2. /\ Reads(1) /\ TokenAt(1) /\ pipe[1] \in Tokens /\ Len(pipe) \in Nat \ {0}
      /\ pipe' # <<>> => Len(pipe) > 1 /\ pipe'[1] = pipe[2] /\ pipe[2] \in Tokens /\ TokenAt(2)
      /\ pipe' = <<>> <=> Len(pipe) = 1
  BY <1>1, ReadOne
<1>3. KeyTypes /\ Returned /\ Submitted /\ Doing
  BY DEF KeysInv
<1>4. ~(pipe' # <<>> /\ pipe'[1][1] = "enter")
  <2> SUFFICES ASSUME pipe' # <<>>, pipe'[1][1] = "enter" PROVE FALSE
    OBVIOUS
  <2>1. pipe[1] = <<"body", pipe[2][2]>>
    BY <1>2, EnterAfterBody
  <2> QED
    BY <1>1, <2>1
<1>5. \A r \in TypingRequests : ~(at[r] = "enter" /\ pipe' = <<>>)
  BY <1>1, <1>2, <1>3 DEF Doing
<1>6. \A m \in Typers : Told(m) => Told(m)'
  BY <1>1, ReadsTold
<1>7. Submitted'
  BY <1>1, <1>3, <1>6 DEF Submitted
<1>8. Box' /\ box' \in Seq(Typers)
  BY <1>1 DEF Box
<1> QED
  BY <1>1, <1>2, <1>3, <1>4, <1>5, <1>7, <1>8, ReadsKeeps DEF KeyTypes, Returned

LEMMA AnswerDoneKeeps ==
  ASSUME KeysInv, Typing!AnswerDone
  PROVE  KeysInv'
<1>1. /\ UNCHANGED <<at, chain, answer, cool, inbox, typed, recent, rushed, pipe, box, lines, pasted, back>>
      /\ working' = None
  BY DEF Typing!AnswerDone, Typing!agent
<1>2. KeyTypes'
  BY <1>1 DEF KeysInv, KeyTypes
<1>3. Turns' /\ Ways' /\ Rush' /\ Returned'
  BY <1>1 DEF KeysInv, Turns, Ways, Rush, Returned, In
<1>4. Carried' /\ Doing'
  BY <1>1 DEF KeysInv, Carried, TokenAt, BodyAt, EnterAt, EscAt, Doing, In
<1>5. Box' /\ Submitted'
  BY <1>1 DEF KeysInv, Box, Lies, Told, Submitted
<1> QED
  BY <1>2, <1>3, <1>4, <1>5 DEF KeysInv

LEMMA TimeKeeps ==
  ASSUME KeysInv, Typing!EscAges \/ \E k \in {"escape", "command"} : Typing!CoolDown(k)
  PROVE  KeysInv'
<1>1. /\ UNCHANGED <<at, chain, answer, inbox, typed, rushed, pipe, box, working, lines, pasted, back>>
  BY DEF Typing!EscAges, Typing!CoolDown, Typing!screen
<1>2. Rush'
  BY DEF KeysInv, Rush, Typing!EscAges, Typing!CoolDown
<1>3. KeyTypes' /\ Turns' /\ Ways' /\ Returned'
  BY <1>1 DEF KeysInv, KeyTypes, Turns, Ways, Returned, In
<1>4. Carried' /\ Doing'
  BY <1>1 DEF KeysInv, Carried, TokenAt, BodyAt, EnterAt, EscAt, Doing, In
<1>5. Box' /\ Submitted'
  BY <1>1 DEF KeysInv, Box, Lies, Told, Submitted
<1> QED
  BY <1>2, <1>3, <1>4, <1>5 DEF KeysInv

LEMMA CardKeeps ==
  ASSUME KeysInv, UNCHANGED <<Typing!agent, Typing!screen, pipe>>
  PROVE  KeysInv'
BY DEF KeysInv, KeyTypes, Turns, Ways, Rush, Carried, TokenAt, BodyAt, EnterAt, EscAt, Doing,
       Returned, Box, Lies, Told, Submitted, In, Typing!agent, Typing!screen

LEMMA TypingKeeps ==
  ASSUME KeysInv, Typing!Next
  PROVE  KeysInv'
BY WorkKeeps, TimeKeeps, CardKeeps, ReadBodyKeeps, ReadPasteKeeps, ReadEnterKeeps, ReadEscKeeps,
   ReadCtrlUKeeps, AnswerDoneKeeps DEF Typing!Next, Typing!CardComes, Typing!CardGoes, TypingRequests

(* What the invariant says to the sender.                                  *)
LEMMA TypedOnceOf ==
  ASSUME KeysInv
  PROVE  Typing!OneRoute /\ Typing!OwnLine /\ Typing!NeverRushed
<1>1. Typing!OneRoute
  <2> SUFFICES ASSUME NEW q \in typed, q \in inbox PROVE FALSE
    BY DEF Typing!OneRoute
  <2> QED
    BY DEF KeysInv, KeyTypes, Ways
<1>2. Typing!OwnLine
  BY DEF KeysInv, Submitted, Told, Typing!OwnLine, Typing!KnownLeft
<1> QED
  BY <1>1, <1>2 DEF KeysInv, Rush, Typing!NeverRushed


-----------------------------------------------------------------------------
(* What is read.                                                           *)

ReadingRequests == Reading!Requests
Page == [file : Nat, lo : Nat \ {0}, hi : Nat, tail : Nat]
AskedAs == [st : {"none", "wait", "sent", "read"}, kind : {"since", "latest", "before"},
            from : Int, page : Page]

\* The records after the lo-th up to the hi-th of file f.
Stretch(f, lo, hi) == [i \in 1..(hi - lo) |-> <<f, lo + i>>]

LEMMA StretchIs ==
  ASSUME NEW f, NEW lo \in Nat, NEW hi \in Nat, lo <= hi
  PROVE  /\ Stretch(f, lo, hi) \in Seq({f} \X Nat) /\ Len(Stretch(f, lo, hi)) = hi - lo
         /\ \A i \in 1..(hi - lo) : Stretch(f, lo, hi)[i] = <<f, lo + i>>
         /\ Stretch(f, lo, hi) # <<>> => lo < hi /\ Stretch(f, lo, hi)[1] = <<f, lo + 1>>
<1>1. Stretch(f, lo, hi) \in [1..(hi - lo) -> {f} \X Nat] /\ hi - lo \in Nat
  BY DEF Stretch
<1>2. Stretch(f, lo, hi) \in Seq({f} \X Nat)
  BY <1>1, SeqDef
<1>3. Len(Stretch(f, lo, hi)) = hi - lo
  BY <1>1, <1>2, LenProperties
<1>4. \A i \in 1..(hi - lo) : Stretch(f, lo, hi)[i] = <<f, lo + i>>
  BY DEF Stretch
<1>5. Stretch(f, lo, hi) # <<>> => hi - lo \in Nat \ {0}
  BY <1>2, <1>3, EmptySeq
<1> QED
  BY <1>2, <1>3, <1>4, <1>5

LEMMA StretchEmpty ==
  ASSUME NEW f, NEW lo \in Nat, NEW hi \in Nat, lo <= hi
  PROVE  /\ Stretch(f, lo, hi) = <<>> => lo = hi
         /\ Stretch(f, lo, hi) # <<>> => lo < hi
<1>1. /\ Stretch(f, lo, hi) \in Seq({f} \X Nat) /\ Len(Stretch(f, lo, hi)) = hi - lo
      /\ Stretch(f, lo, hi) # <<>> => lo < hi
  BY StretchIs
<1>2. Stretch(f, lo, hi) = <<>> => hi - lo = 0
  BY <1>1, EmptySeq
<1> QED
  BY <1>1, <1>2

\* It starts in its file.
LEMMA StretchStarts ==
  ASSUME NEW f, NEW lo \in Nat, NEW hi \in Nat, lo <= hi, NEW q, q = Stretch(f, lo, hi), q # <<>>
  PROVE  lo < hi /\ q[1] = <<f, lo + 1>>
BY StretchIs

(* Two stretches that meet are one.                                        *)
LEMMA StretchesMeet ==
  ASSUME NEW f, NEW lo \in Nat, NEW mid \in Nat, NEW hi \in Nat, lo <= mid, mid <= hi
  PROVE  Stretch(f, lo, mid) \o Stretch(f, mid, hi) = Stretch(f, lo, hi)
<1> DEFINE a == Stretch(f, lo, mid)  b == Stretch(f, mid, hi)  c == Stretch(f, lo, hi)
           S == {f} \X Nat
<1>1. /\ a \in Seq(S) /\ Len(a) = mid - lo /\ \A i \in 1..(mid - lo) : a[i] = <<f, lo + i>>
      /\ b \in Seq(S) /\ Len(b) = hi - mid /\ \A i \in 1..(hi - mid) : b[i] = <<f, mid + i>>
      /\ c \in Seq(S) /\ Len(c) = hi - lo /\ \A i \in 1..(hi - lo) : c[i] = <<f, lo + i>>
  <2>1. lo <= hi
    OBVIOUS
  <2> QED
    BY <2>1, StretchIs
<1> HIDE DEF a, b, c, S
<1>2. /\ a \o b \in Seq(S) /\ Len(a \o b) = Len(a) + Len(b)
      /\ \A i \in 1..(Len(a) + Len(b)) : (a \o b)[i] = IF i <= Len(a) THEN a[i] ELSE b[i - Len(a)]
  BY <1>1, ConcatProperties
<1>3. Len(a \o b) = Len(c)
  BY <1>1, <1>2
<1>4. ASSUME NEW i \in 1..Len(a \o b) PROVE (a \o b)[i] = c[i]
  <2>1. i \in 1..(hi - lo) /\ c[i] = <<f, lo + i>>
    BY <1>1, <1>3
  <2>2. CASE i <= mid - lo
    BY <1>1, <1>2, <2>1, <2>2
  <2>3. CASE ~(i <= mid - lo)
    <3>1. i - (mid - lo) \in 1..(hi - mid) /\ mid + (i - (mid - lo)) = lo + i
      BY <2>1, <2>3
    <3> QED
      BY <1>1, <1>2, <2>1, <2>3, <3>1
  <2> QED
    BY <2>2, <2>3
<1>5. a \o b = c
  BY <1>1, <1>2, <1>3, <1>4, SeqEqual
<1> QED
  BY <1>5 DEF a, b, c

LEMMA PageIsStretch ==
  ASSUME NEW page \in Page
  PROVE  Reading!Records(page) = Stretch(page.file, page.lo - 1, page.hi)
<1>1. page.lo \in Int /\ page.hi \in Int
  BY DEF Page
<1>2. page.hi - page.lo + 1 = page.hi - (page.lo - 1)
  BY <1>1
<1>3. \A i \in 1..(page.hi - page.lo + 1) : page.lo + i - 1 = (page.lo - 1) + i
  BY <1>1
<1> QED
  BY <1>2, <1>3 DEF Reading!Records, Stretch

\* The offset after h records.
Half(t) == t \div 2

LEMMA HalfOf ==
  ASSUME NEW h \in Nat
  PROVE  Half(2 * h) = h /\ (2 * h + 1) \div 2 = h
BY DEF Half

ReadTypes ==
  /\ file \in Nat \ {0} /\ len \in Nat /\ torn \in BOOLEAN /\ cursor \in Nat
  /\ tail = -1 \/ \E h \in Nat : tail = 2 * h
  /\ asked \in [ReadingRequests -> AskedAs]

\* The fetcher of an effect that was not run yet is quiet.
Alone == asked["pull2"].st = "none" /\ again \subseteq {"pull1"}

Shown == tail >= 0 =>
  cursor <= Half(tail) /\ \E f \in 1..file : entries = Stretch(f, cursor, Half(tail))

\* While the screen shows an older file the new one is still empty.
Stale == tail > 0 /\ entries # <<>> /\ entries[1][1] # file => len = 0 /\ ~torn

\* What the agent answered, and whoever asked.
PageFits(r) == asked[r].st = "read" =>
  LET page == asked[r].page IN
  /\ page.file \in 1..file /\ (page.file # file => len = 0 /\ ~torn)
  /\ asked[r].kind = "latest" => page.lo <= page.hi + 1 /\ page.tail = 2 * page.hi
  /\ scene = "older" => page.tail <= 2 * len + 1 /\ page.hi <= len
PagesFit == \A r \in ReadingRequests : PageFits(r)

FirstLoad == asked["first"].st # "none" =>
  asked["first"].kind = "latest" /\ tail = -1 /\ asked["pull1"].st \in {"none", "wait"}

\* What the fetcher asks for starts where the screen ends.
PullFits == asked["pull1"].st \in {"sent", "read"} =>
  LET pull == asked["pull1"]
      page == pull.page
  IN /\ pull.kind \in {"latest", "since"}
     /\ pull.kind = "latest" => tail = -1 /\ asked["first"].st = "none"
     /\ pull.kind = "since" => tail >= 0 /\ pull.from = tail
     /\ pull.kind = "since" /\ pull.st = "read" =>
          /\ page.tail > tail =>
               /\ page.lo = Half(tail) + 1 /\ page.tail = 2 * page.hi
               /\ tail > 0 /\ entries # <<>> => entries[1][1] = page.file
          /\ scene = "older" => page.tail >= tail

\* Older records are asked for in one file that only grows, and end at the cursor.
OlderFits == asked["older"].st # "none" =>
  LET older == asked["older"] IN
  /\ scene = "older" /\ older.st # "wait" /\ older.kind = "before"
  /\ older.from = cursor /\ cursor > 0 /\ tail >= 0
  /\ older.st = "read" => older.page.hi = cursor /\ older.page.lo <= cursor
OneFile == scene = "older" => file = 1 /\ tail <= 2 * len /\ (tail = -1 => cursor = 0)

ThreadInv == /\ ReadTypes /\ Alone /\ Shown /\ Stale /\ PagesFit /\ FirstLoad /\ PullFits
             /\ OlderFits /\ OneFile

LEMMA Named ==
  /\ ReadingRequests = {"pull1", "pull2", "first", "older"} /\ Reading!Pulls = {"pull1", "pull2"}
  /\ Reading!Quiet \in AskedAs /\ Reading!Quiet.st = "none"
  /\ Reading!NoPage \in Page
BY DEF ReadingRequests, Reading!Requests, Reading!Pulls, AskedAs, Page, Reading!Quiet, Reading!NoPage

LEMMA ReadingStart == Reading!Init /\ puller = "pull1" => ThreadInv
<1> SUFFICES ASSUME Reading!Init PROVE ThreadInv
  OBVIOUS
<1>1. /\ file = 1 /\ len \in 0..2 /\ torn = FALSE /\ tail = -1 /\ cursor = 0 /\ again = {}
      /\ asked = [r \in ReadingRequests |-> IF r = "first" THEN Reading!Request("latest", -1)
                                           ELSE Reading!Quiet]
  BY DEF Reading!Init, ReadingRequests
<1>2. Reading!Request("latest", -1) \in AskedAs
  BY Named DEF Reading!Request, AskedAs
<1>3. asked["first"] = Reading!Request("latest", -1)
      /\ \A r \in ReadingRequests \ {"first"} : asked[r].st = "none"
  BY <1>1, Named
<1>4. ReadTypes
  <2>1. asked \in [ReadingRequests -> AskedAs]
    BY <1>1, <1>2, Named
  <2>2. file \in Nat \ {0} /\ len \in Nat /\ cursor \in Nat
    BY <1>1
  <2>3. torn \in BOOLEAN /\ tail = -1
    BY <1>1
  <2> QED
    BY <2>1, <2>2, <2>3 DEF ReadTypes
<1>5. asked["first"].st = "sent" /\ asked["first"].kind = "latest"
  BY <1>3 DEF Reading!Request
<1>6. Alone /\ FirstLoad /\ PullFits /\ OlderFits /\ PagesFit
  BY <1>1, <1>3, <1>5, Named DEF Alone, FirstLoad, PullFits, OlderFits, PagesFit, PageFits
<1>7. Shown /\ Stale /\ OneFile
  BY <1>1 DEF Shown, Stale, OneFile
<1> QED
  BY <1>4, <1>6, <1>7 DEF ThreadInv

(* The transcript grows or is made anew.                                   *)
LEMMA WriteKeeps ==
  ASSUME ThreadInv, Reading!Write
  PROVE  ThreadInv'
<1>1. /\ Reading!Noticed /\ len' \in {len, len + 1} /\ torn' \in BOOLEAN
      /\ UNCHANGED <<scene, file, entries, tail, cursor, asked, again, puller>>
  BY DEF Reading!Write, Reading!screen, ThreadInv, ReadTypes
<1>2. ReadTypes'
  BY <1>1 DEF ThreadInv, ReadTypes
<1>3. Alone' /\ Shown' /\ FirstLoad' /\ PullFits' /\ OlderFits'
  BY <1>1 DEF ThreadInv, Alone, Shown, FirstLoad, PullFits, OlderFits
<1>4. Stale'
  BY <1>1 DEF Stale, Reading!Noticed
<1>5. len \in Nat /\ asked \in [ReadingRequests -> AskedAs]
  BY DEF ThreadInv, ReadTypes
<1>6. PagesFit'
  <2> SUFFICES ASSUME NEW r \in ReadingRequests PROVE PageFits(r)'
    BY DEF PagesFit
  <2>1. PageFits(r) /\ asked[r].page.hi \in Nat /\ asked[r].page.tail \in Nat
    BY <1>5 DEF ThreadInv, PagesFit, AskedAs, Page
  <2>2. asked[r].st = "read" => asked[r].page.file = file
    BY <1>1 DEF Reading!Noticed, ReadingRequests
  <2> QED
    BY <1>1, <1>5, <2>1, <2>2 DEF PageFits
<1>7. OneFile'
  BY <1>1, <1>5 DEF ThreadInv, OneFile, ReadTypes
<1> QED
  BY <1>2, <1>3, <1>4, <1>6, <1>7 DEF ThreadInv

LEMMA AnewKeeps ==
  ASSUME ThreadInv, Reading!Anew
  PROVE  ThreadInv'
<1>1. /\ Reading!Noticed /\ scene = "anew" /\ file' = file + 1 /\ len' = 0 /\ torn' = FALSE
      /\ UNCHANGED <<scene, entries, tail, cursor, asked, again, puller>>
  BY DEF Reading!Anew, Reading!screen
<1>2. file \in Nat \ {0} /\ ReadTypes'
  <2>1. /\ file \in Nat \ {0} /\ cursor \in Nat /\ asked \in [ReadingRequests -> AskedAs]
        /\ tail = -1 \/ \E h \in Nat : tail = 2 * h
    BY DEF ThreadInv, ReadTypes
  <2>2. file' \in Nat \ {0} /\ len' \in Nat
    BY <1>1, <2>1
  <2>3. torn' \in BOOLEAN
    BY <1>1
  <2> QED
    BY <1>1, <2>1, <2>2, <2>3 DEF ReadTypes
<1>3. Alone' /\ FirstLoad' /\ PullFits' /\ OlderFits'
  BY <1>1 DEF ThreadInv, Alone, FirstLoad, PullFits, OlderFits
<1>4. Shown'
  <2>1. \A f \in 1..file : f \in 1..file'
    BY <1>1, <1>2
  <2> QED
    BY <1>1, <2>1 DEF ThreadInv, Shown
<1>5. Stale' /\ OneFile'
  BY <1>1 DEF Stale, OneFile
<1>6. PagesFit'
  BY <1>1, <1>2 DEF ThreadInv, PagesFit, PageFits
<1> QED
  BY <1>2, <1>3, <1>4, <1>5, <1>6 DEF ThreadInv

\* The transcript and the screen stand still.
Still == UNCHANGED <<scene, file, len, torn, entries, tail, cursor, puller>>

\* Only request r changes, to q.
Becomes(r, q) ==
  /\ asked' \in [ReadingRequests -> AskedAs] /\ asked'[r] = q
  /\ \A p \in ReadingRequests \ {r} : asked'[p] = asked[p]

LEMMA BecomesOf ==
  ASSUME ReadTypes, NEW r \in ReadingRequests, NEW q \in AskedAs, asked' = [asked EXCEPT ![r] = q]
  PROVE  Becomes(r, q)
BY DEF ReadTypes, Becomes

LEMMA StillKeeps ==
  ASSUME ThreadInv, Still, again' \subseteq {"pull1"}, asked' \in [ReadingRequests -> AskedAs],
         asked'["pull2"].st = "none", PagesFit', FirstLoad', PullFits', OlderFits'
  PROVE  ThreadInv'
BY DEF ThreadInv, Still, ReadTypes, Alone, Shown, Stale, OneFile

(* A request ends, or waits to be sent.                                    *)
LEMMA RestKeeps ==
  ASSUME ThreadInv, Still, again' \subseteq {"pull1"},
         NEW r \in ReadingRequests, NEW q \in AskedAs, Becomes(r, q),
         q.st = "none" \/ (q.st = "wait" /\ r = "pull1")
  PROVE  ThreadInv'
<1>1. /\ PagesFit /\ FirstLoad /\ PullFits /\ OlderFits /\ asked["pull2"].st = "none"
  BY DEF ThreadInv, Alone
<1>2. asked'["pull2"].st = "none" /\ PagesFit'
  BY <1>1, Named DEF Becomes, Still, PagesFit, PageFits
<1>3. FirstLoad' /\ OlderFits'
  BY <1>1, Named DEF Becomes, Still, FirstLoad, OlderFits
<1>4. PullFits'
  BY <1>1, Named DEF Becomes, Still, PullFits
<1> QED
  BY <1>2, <1>3, <1>4, StillKeeps DEF Becomes

-----------------------------------------------------------------------------
(* What the agent reads.                                                   *)

LEMMA SizeIs ==
  ASSUME ReadTypes
  PROVE  Reading!Size \in Nat /\ Reading!Size >= 2 * len /\ Reading!Size <= 2 * len + 1
         /\ (~torn => Reading!Size = 2 * len)
<1>1. len \in Nat /\ torn \in BOOLEAN
  BY DEF ReadTypes
<1>2. CASE torn
  BY <1>1, <1>2 DEF Reading!Size
<1>3. CASE ~torn
  BY <1>1, <1>3 DEF Reading!Size
<1> QED
  BY <1>2, <1>3

LEMMA OldestIs ==
  ASSUME NEW hi \in Nat
  PROVE  Reading!Oldest(hi) \in Nat \ {0} /\ Reading!Oldest(hi) <= hi + 1
         /\ (hi > 0 => Reading!Oldest(hi) <= hi)
<1>1. Limit \in Nat \ {0}
  BY SessionAssumption DEF Reading!ThreadAssumption
<1> QED
  BY <1>1 DEF Reading!Oldest

LEMMA SinceIs ==
  ASSUME ReadTypes, OneFile, NEW h \in Nat, tail = 2 * h, NEW page, page = Reading!Since(tail)
  PROVE  /\ page \in Page /\ page.file = file /\ page.hi <= len /\ page.tail <= 2 * len + 1
         /\ page.tail > tail => page.lo = Half(tail) + 1 /\ page.tail = 2 * page.hi /\ len > 0
         /\ scene = "older" => page.tail >= tail
<1>1. len \in Nat /\ file \in Nat
  BY DEF ReadTypes
<1>2. /\ Reading!Size \in Nat /\ Reading!Size >= 2 * len /\ Reading!Size <= 2 * len + 1
  BY SizeIs
<1>3. CASE tail >= Reading!Size
  <2>1. page = [file |-> file, lo |-> 1, hi |-> 0, tail |-> Reading!Size]
    BY <1>3 DEF Reading!Since, Reading!NoPage
  <2>2. page.file = file /\ page.lo = 1 /\ page.hi = 0 /\ page.tail = Reading!Size
    BY <2>1
  <2>3. page \in Page
    BY <1>1, <1>2, <2>1 DEF Page
  <2>4. ~(page.tail > tail)
    BY <1>2, <1>3, <2>2
  <2>5. scene = "older" => page.tail >= tail
    BY <1>1, <1>2, <2>2 DEF OneFile
  <2> QED
    BY <1>1, <1>2, <2>2, <2>3, <2>4, <2>5
<1>4. CASE ~(tail >= Reading!Size)
  <2>1. (tail + 1) \div 2 = h /\ Half(tail) = h
    BY HalfOf
  <2>2. page = [file |-> file, lo |-> h + 1, hi |-> len, tail |-> 2 * len]
    BY <1>4, <2>1 DEF Reading!Since, Reading!End
  <2>3. page.file = file /\ page.lo = h + 1 /\ page.hi = len /\ page.tail = 2 * len
    BY <2>2
  <2>4. page \in Page
    BY <1>1, <2>2 DEF Page
  <2>5. page.tail >= tail /\ (page.tail > tail => len > 0)
    BY <1>1, <1>2, <1>4, <2>3
  <2> QED
    BY <1>1, <2>1, <2>3, <2>4, <2>5
<1> QED
  BY <1>3, <1>4

LEMMA LatestIs ==
  ASSUME ReadTypes, NEW page, page = Reading!Latest
  PROVE  /\ page \in Page /\ page.file = file /\ page.lo <= page.hi + 1 /\ page.tail = 2 * page.hi
         /\ page.tail <= 2 * len + 1 /\ page.hi <= len
<1>1. len \in Nat /\ file \in Nat
  BY DEF ReadTypes
<1>2. Reading!Oldest(len) \in Nat \ {0} /\ Reading!Oldest(len) <= len + 1
  BY <1>1, OldestIs
<1>3. page = [file |-> file, lo |-> Reading!Oldest(len), hi |-> len, tail |-> 2 * len]
  BY DEF Reading!Latest, Reading!End
<1>4. page \in Page
  BY <1>1, <1>2, <1>3 DEF Page
<1>5. page.file = file /\ page.lo = Reading!Oldest(len) /\ page.hi = len /\ page.tail = 2 * len
  BY <1>3
<1> QED
  BY <1>1, <1>2, <1>4, <1>5

LEMMA BeforeIs ==
  ASSUME ReadTypes, cursor > 0, cursor <= len, NEW page, page = Reading!Before(cursor)
  PROVE  /\ page \in Page /\ page.file = file /\ page.hi = cursor /\ page.lo <= cursor
         /\ page.tail <= 2 * len + 1 /\ page.hi <= len
<1>1. len \in Nat /\ file \in Nat /\ cursor \in Nat
  BY DEF ReadTypes
<1>2. Reading!Oldest(cursor) \in Nat \ {0} /\ Reading!Oldest(cursor) <= cursor
  BY <1>1, OldestIs
<1>3. page = [file |-> file, lo |-> Reading!Oldest(cursor), hi |-> cursor, tail |-> 2 * len]
  BY <1>1 DEF Reading!Before, Reading!End
<1>4. page \in Page
  BY <1>1, <1>2, <1>3 DEF Page
<1>5. page.file = file /\ page.lo = Reading!Oldest(cursor) /\ page.hi = cursor /\ page.tail = 2 * len
  BY <1>3
<1> QED
  BY <1>1, <1>2, <1>4, <1>5

\* The request as it is once the page was cut.
Read(q, page) == [st |-> "read", kind |-> q.kind, from |-> q.from, page |-> page]

LEMMA ReadBecomes ==
  ASSUME ReadTypes, NEW r \in ReadingRequests, NEW page \in Page,
         asked' = [asked EXCEPT ![r].st = "read", ![r].page = page]
  PROVE  Becomes(r, Read(asked[r], page))
<1>1. asked \in [ReadingRequests -> AskedAs] /\ asked[r] \in AskedAs
  BY DEF ReadTypes
<1>2. Read(asked[r], page) \in AskedAs
  BY <1>1 DEF AskedAs, Read
<1>3. asked'[r] = Read(asked[r], page)
  BY <1>1 DEF AskedAs, Read
<1>4. \A p \in ReadingRequests \ {r} : asked'[p] = asked[p]
  BY <1>1
<1>5. asked' \in [ReadingRequests -> AskedAs]
  <2>1. DOMAIN asked' = ReadingRequests /\ asked' = [p \in ReadingRequests |-> asked'[p]]
    BY <1>1
  <2>2. \A p \in ReadingRequests : asked'[p] \in AskedAs
    BY <1>1, <1>2, <1>3, <1>4
  <2> QED
    BY <2>1, <2>2
<1> QED
  BY <1>3, <1>4, <1>5 DEF Becomes

(* A page is cut, as the invariant wants it.                               *)
LEMMA ReadKeeps ==
  ASSUME ThreadInv, puller = "pull1", NEW r \in ReadingRequests, Reading!Read(r)
  PROVE  ThreadInv'
<1>1. /\ asked[r].st = "sent" /\ Still /\ again' = again
  BY DEF Reading!Read, Reading!transcript, Reading!screen, Still
<1>2. /\ ReadTypes /\ Alone /\ Shown /\ Stale /\ PagesFit /\ FirstLoad /\ PullFits /\ OlderFits /\ OneFile
  BY DEF ThreadInv
<1>3. /\ asked \in [ReadingRequests -> AskedAs] /\ asked[r] \in AskedAs /\ r # "pull2"
      /\ len \in Nat /\ cursor \in Nat /\ file \in Nat \ {0}
  BY <1>1, <1>2, Named DEF ReadTypes, Alone
<1>4. ASSUME NEW page \in Page, Becomes(r, Read(asked[r], page)),
             page.file = file, page.tail <= 2 * len + 1, page.hi <= len,
             asked[r].kind = "latest" => page.lo <= page.hi + 1 /\ page.tail = 2 * page.hi,
             r = "pull1" /\ asked[r].kind = "since" =>
               /\ page.tail > tail =>
                    /\ page.lo = Half(tail) + 1 /\ page.tail = 2 * page.hi
                    /\ tail > 0 /\ entries # <<>> => entries[1][1] = page.file
               /\ scene = "older" => page.tail >= tail,
             r = "older" => page.hi = cursor /\ page.lo <= cursor
      PROVE  ThreadInv'
  <2>1. /\ asked'[r].st = "read" /\ asked'[r].kind = asked[r].kind /\ asked'[r].from = asked[r].from
        /\ asked'[r].page = page
        /\ \A p \in ReadingRequests \ {r} : asked'[p] = asked[p]
    BY <1>4 DEF Becomes, Read
  <2>2. PagesFit'
    <3> SUFFICES ASSUME NEW p \in ReadingRequests PROVE PageFits(p)'
      BY DEF PagesFit
    <3>1. CASE p = r
      BY <1>1, <1>3, <1>4, <2>1, <3>1 DEF PageFits, Still
    <3>2. CASE p # r
      BY <1>1, <1>2, <2>1, <3>2 DEF PagesFit, PageFits, Still
    <3> QED
      BY <3>1, <3>2
  <2>3. FirstLoad'
    BY <1>1, <1>2, <2>1, Named DEF FirstLoad, Still
  <2>4. PullFits'
    <3>1. CASE r = "pull1"
      BY <1>1, <1>2, <1>4, <2>1, <3>1, Named DEF PullFits, Still
    <3>2. CASE r # "pull1"
      <4>1. asked'["pull1"] = asked["pull1"]
        BY <2>1, <3>2, Named
      <4>2. asked["first"].st = "none" => asked'["first"].st = "none"
        BY <1>1, <2>1, Named
      <4> QED
        BY <1>1, <1>2, <4>1, <4>2 DEF PullFits, Still
    <3> QED
      BY <3>1, <3>2
  <2>5. OlderFits'
    BY <1>1, <1>2, <1>4, <2>1, Named DEF OlderFits, Still
  <2>6. asked'["pull2"].st = "none"
    BY <1>2, <1>3, <2>1, Named DEF Alone
  <2> QED
    BY <1>1, <1>2, <1>4, <2>2, <2>3, <2>4, <2>5, <2>6, StillKeeps DEF Alone, Becomes
<1>5. CASE asked[r].kind = "latest"
  <2>1. PICK page : page = Reading!Latest
    OBVIOUS
  <2>2. asked' = [asked EXCEPT ![r].st = "read", ![r].page = page]
    BY <1>5, <2>1 DEF Reading!Read
  <2>3. /\ page \in Page /\ page.file = file /\ page.lo <= page.hi + 1 /\ page.tail = 2 * page.hi
        /\ page.tail <= 2 * len + 1 /\ page.hi <= len
    BY <1>2, <2>1, LatestIs
  <2>4. r # "older"
    BY <1>1, <1>2, <1>5 DEF OlderFits
  <2> QED
    BY <1>2, <1>4, <1>5, <2>2, <2>3, <2>4, ReadBecomes
<1>6. CASE asked[r].kind = "since"
  <2>1. r = "pull1" /\ tail >= 0 /\ asked[r].from = tail
    BY <1>1, <1>2, <1>3, <1>6, Named DEF FirstLoad, OlderFits, PullFits
  <2>2. PICK h \in Nat : tail = 2 * h
    BY <1>2, <2>1 DEF ReadTypes
  <2>3. PICK page : page = Reading!Since(tail)
    OBVIOUS
  <2>4. asked' = [asked EXCEPT ![r].st = "read", ![r].page = page]
    BY <1>6, <2>1, <2>3 DEF Reading!Read
  <2>5. /\ page \in Page /\ page.file = file /\ page.hi <= len /\ page.tail <= 2 * len + 1
        /\ page.tail > tail => page.lo = Half(tail) + 1 /\ page.tail = 2 * page.hi /\ len > 0
        /\ scene = "older" => page.tail >= tail
    BY <1>2, <2>2, <2>3, SinceIs
  <2>6. page.tail > tail => (tail > 0 /\ entries # <<>> => entries[1][1] = page.file)
    <3>1. page.tail > tail => len # 0
      BY <1>3, <2>5
    <3> QED
      BY <1>2, <2>5, <3>1 DEF Stale
  <2> QED
    BY <1>2, <1>4, <1>6, <2>1, <2>4, <2>5, <2>6, ReadBecomes
<1>7. CASE asked[r].kind = "before"
  <2>1. r = "older" /\ asked[r].from = cursor /\ cursor > 0 /\ tail >= 0 /\ scene = "older"
    BY <1>1, <1>2, <1>3, <1>7, Named DEF FirstLoad, OlderFits, PullFits
  <2>2. PICK h \in Nat : tail = 2 * h
    BY <1>2, <2>1 DEF ReadTypes
  <2>3. cursor <= h /\ tail <= 2 * len
    BY <1>2, <2>1, <2>2, HalfOf DEF Shown, OneFile
  <2>4. cursor <= len
    BY <1>3, <2>2, <2>3
  <2>5. PICK page : page = Reading!Before(cursor)
    OBVIOUS
  <2>6. asked' = [asked EXCEPT ![r].st = "read", ![r].page = page]
    BY <1>7, <2>1, <2>5 DEF Reading!Read
  <2>7. /\ page \in Page /\ page.file = file /\ page.hi = cursor /\ page.lo <= cursor
        /\ page.tail <= 2 * len + 1 /\ page.hi <= len
    BY <1>2, <2>1, <2>4, <2>5, BeforeIs
  <2> QED
    BY <1>2, <1>4, <1>7, <2>1, <2>6, <2>7, ReadBecomes
<1> QED
  BY <1>3, <1>5, <1>6, <1>7 DEF AskedAs

-----------------------------------------------------------------------------
(* What the screen asks for, and what arrives.                             *)

LEMMA RequestIs ==
  ASSUME NEW kind \in {"since", "latest", "before"}, NEW from \in Int
  PROVE  /\ Reading!Request(kind, from) \in AskedAs
         /\ Reading!Request(kind, from).st = "sent" /\ Reading!Request(kind, from).kind = kind
         /\ Reading!Request(kind, from).from = from
BY Named DEF Reading!Request, AskedAs

LEMMA StartPullKeeps ==
  ASSUME ThreadInv, puller = "pull1", NEW p \in Reading!Pulls, Reading!StartPull(p)
  PROVE  ThreadInv'
<1>1. /\ asked[p].st = "wait" /\ asked["first"].st = "none" /\ Still /\ again' = again
      /\ asked' = [asked EXCEPT ![p] = IF tail < 0 THEN Reading!Request("latest", -1)
                                       ELSE Reading!Request("since", tail)]
  BY DEF Reading!StartPull, Reading!transcript, Reading!screen, Still
<1>2. /\ ReadTypes /\ Alone /\ PagesFit /\ FirstLoad /\ PullFits /\ OlderFits
  BY DEF ThreadInv
<1>3. p = "pull1" /\ p \in ReadingRequests
  BY <1>1, <1>2, Named DEF Alone
<1>4. tail \in Int /\ (tail = -1 \/ tail >= 0)
  BY <1>2 DEF ReadTypes
<1>5. PICK q \in AskedAs : /\ Becomes(p, q) /\ q.st = "sent"
                           /\ \/ q.kind = "latest" /\ tail = -1
                              \/ q.kind = "since" /\ q.from = tail /\ tail >= 0
  <2>1. CASE tail < 0
    <3>1. asked' = [asked EXCEPT ![p] = Reading!Request("latest", -1)]
      BY <1>1, <2>1
    <3> QED
      <4>1. /\ Reading!Request("latest", -1) \in AskedAs /\ Reading!Request("latest", -1).st = "sent"
            /\ Reading!Request("latest", -1).kind = "latest"
        BY RequestIs
      <4>2. Becomes(p, Reading!Request("latest", -1))
        BY <1>2, <1>3, <3>1, <4>1, BecomesOf
      <4> QED
        BY <1>4, <2>1, <4>1, <4>2
  <2>2. CASE ~(tail < 0)
    <3>1. asked' = [asked EXCEPT ![p] = Reading!Request("since", tail)]
      BY <1>1, <2>2
    <3> QED
      <4>1. /\ Reading!Request("since", tail) \in AskedAs /\ Reading!Request("since", tail).st = "sent"
            /\ Reading!Request("since", tail).kind = "since" /\ Reading!Request("since", tail).from = tail
        BY <1>4, RequestIs
      <4>2. Becomes(p, Reading!Request("since", tail))
        BY <1>2, <1>3, <3>1, <4>1, BecomesOf
      <4> QED
        BY <1>4, <2>2, <4>1, <4>2
  <2> QED
    BY <2>1, <2>2
<1>6. asked'["pull1"] = q /\ \A r \in ReadingRequests \ {"pull1"} : asked'[r] = asked[r]
  BY <1>3, <1>5 DEF Becomes
<1>7. PagesFit' /\ FirstLoad' /\ OlderFits' /\ asked'["pull2"].st = "none"
  BY <1>1, <1>2, <1>5, <1>6, Named DEF PagesFit, PageFits, FirstLoad, OlderFits, Still, Alone
<1>8. PullFits'
  BY <1>1, <1>5, <1>6, Named DEF PullFits, Still
<1> QED
  BY <1>1, <1>2, <1>5, <1>7, <1>8, StillKeeps DEF Alone, Becomes

LEMMA LoadOlderKeeps ==
  ASSUME ThreadInv, Reading!LoadOlder
  PROVE  ThreadInv'
<1>1. /\ scene = "older" /\ cursor > 0 /\ Still /\ again' = again
      /\ asked' = [asked EXCEPT !["older"] = Reading!Request("before", cursor)]
  BY DEF Reading!LoadOlder, Reading!transcript, Reading!screen, Still
<1>2. /\ ReadTypes /\ Alone /\ PagesFit /\ FirstLoad /\ PullFits /\ OneFile
  BY DEF ThreadInv
<1>3. cursor \in Int /\ tail >= 0
  <2>1. cursor \in Nat /\ (tail = -1 \/ tail >= 0)
    BY <1>2 DEF ReadTypes
  <2> QED
    BY <1>1, <1>2, <2>1 DEF OneFile
<1>4. PICK q \in AskedAs : Becomes("older", q) /\ q.st = "sent" /\ q.kind = "before" /\ q.from = cursor
  <2>1. /\ Reading!Request("before", cursor) \in AskedAs /\ Reading!Request("before", cursor).st = "sent"
        /\ Reading!Request("before", cursor).kind = "before" /\ Reading!Request("before", cursor).from = cursor
    BY <1>3, RequestIs
  <2>2. Becomes("older", Reading!Request("before", cursor))
    BY <1>1, <1>2, <2>1, BecomesOf, Named
  <2> QED
    BY <2>1, <2>2
<1>5. asked'["older"] = q /\ \A r \in ReadingRequests \ {"older"} : asked'[r] = asked[r]
  BY <1>4, Named DEF Becomes
<1>6. PagesFit' /\ FirstLoad' /\ asked'["pull2"].st = "none"
  BY <1>1, <1>2, <1>4, <1>5, Named DEF PagesFit, PageFits, FirstLoad, Still, Alone
<1>7. PullFits'
  BY <1>1, <1>2, <1>5, Named DEF PullFits, Still
<1>8. OlderFits'
  BY <1>1, <1>3, <1>4, <1>5 DEF OlderFits, Still
<1> QED
  BY <1>1, <1>2, <1>4, <1>6, <1>7, <1>8, StillKeeps DEF Alone, Becomes

\* The fetcher runs again, or rests.
LEMMA EndedIs ==
  ASSUME ReadTypes, NEW r \in Reading!Pulls, NEW req,
         req = Reading!Ended(r, asked), asked' = req
  PROVE  \E q \in AskedAs : Becomes(r, q) /\ q.st \in {"none", "wait"}
<1>1. [Reading!Quiet EXCEPT !.st = "wait"] \in AskedAs
      /\ [Reading!Quiet EXCEPT !.st = "wait"].st = "wait"
  BY Named DEF AskedAs
<1>2. r \in ReadingRequests
  BY Named
<1>3. CASE asked' = [asked EXCEPT ![r] = Reading!Quiet]
  BY <1>2, <1>3, BecomesOf, Named
<1>4. CASE asked' = [asked EXCEPT ![r] = [Reading!Quiet EXCEPT !.st = "wait"]]
  BY <1>1, <1>2, <1>4, BecomesOf
<1> QED
  BY <1>3, <1>4 DEF Reading!Ended

\* The latest page is shown, and nothing else is under way.
LEMMA LatestShown ==
  ASSUME ThreadInv, NEW r \in ReadingRequests, asked[r].st = "read", asked[r].kind = "latest",
         Reading!ShowLatest(asked[r].page), UNCHANGED <<scene, file, len, torn, puller>>,
         again' \subseteq {"pull1"}, asked' \in [ReadingRequests -> AskedAs],
         asked'["pull1"].st \in {"none", "wait"}, asked'["pull2"].st = "none",
         asked'["first"].st = "none", asked'["older"].st = "none"
  PROVE  ThreadInv'
<1> PICK page \in Page : page = asked[r].page
  BY DEF ThreadInv, ReadTypes, AskedAs
<1>1. /\ page.file \in Nat /\ page.lo \in Nat \ {0} /\ page.hi \in Nat /\ page.tail \in Nat
  BY DEF Page
<1>2. /\ page.file \in 1..file /\ (page.file # file => len = 0 /\ ~torn)
      /\ page.lo <= page.hi + 1 /\ page.tail = 2 * page.hi
      /\ scene = "older" => page.tail <= 2 * len + 1 /\ page.hi <= len
  BY DEF ThreadInv, PagesFit, PageFits
<1>3. /\ tail' = 2 * page.hi /\ cursor' = page.lo - 1 /\ cursor' \in Nat /\ cursor' <= page.hi
      /\ entries' = Stretch(page.file, cursor', page.hi) /\ Half(tail') = page.hi
  <2>1. tail' = page.tail /\ cursor' = page.lo - 1 /\ entries' = Reading!Records(page)
    BY DEF Reading!ShowLatest
  <2>2. entries' = Stretch(page.file, page.lo - 1, page.hi)
    BY <2>1, PageIsStretch
  <2>3. tail' = 2 * page.hi
    BY <1>2, <2>1
  <2>4. Half(tail') = page.hi
    BY <1>1, <2>3, HalfOf
  <2> QED
    BY <1>1, <1>2, <2>1, <2>2, <2>3, <2>4
<1>4. ReadTypes'
  <2>1. /\ file \in Nat \ {0} /\ len \in Nat /\ torn \in BOOLEAN
    BY DEF ThreadInv, ReadTypes
  <2> QED
    BY <1>1, <1>3, <2>1 DEF ReadTypes
<1>5. Shown'
  BY <1>2, <1>3 DEF Shown
<1>6. Stale'
  <2>1. entries' # <<>> => entries'[1][1] = page.file
    <3>1. PICK c \in Nat : c = cursor' /\ c <= page.hi /\ entries' = Stretch(page.file, c, page.hi)
      BY <1>3
    <3>2. PICK f, h \in Nat : f = page.file /\ h = page.hi /\ c <= h /\ entries' = Stretch(f, c, h)
      BY <1>1, <3>1
    <3>3. PICK q : q = entries' /\ q = Stretch(f, c, h)
      BY <3>2
    <3>4. c <= h
      BY <3>2
    <3>5. ASSUME q # <<>> PROVE q[1] = <<f, c + 1>>
      BY <3>3, <3>4, <3>5, StretchStarts
    <3> QED
      BY <3>2, <3>3, <3>5
  <2> QED
    BY <1>2, <2>1 DEF Stale
<1>7. OneFile'
  BY <1>1, <1>2, <1>3 DEF ThreadInv, OneFile, ReadTypes
<1>8. PagesFit' /\ FirstLoad' /\ PullFits' /\ OlderFits' /\ Alone'
  BY Named DEF PagesFit, PageFits, FirstLoad, PullFits, OlderFits, Alone
<1> QED
  BY <1>4, <1>5, <1>6, <1>7, <1>8 DEF ThreadInv

\* Where nothing is loaded no older records are asked for.
LEMMA NoOlder ==
  ASSUME ThreadInv, tail = -1
  PROVE  asked["older"].st = "none"
BY DEF ThreadInv, OlderFits

LEMMA ArriveFirstKeeps ==
  ASSUME ThreadInv, Reading!ArriveFirst
  PROVE  ThreadInv'
<1>1. /\ asked["first"].st = "read" /\ Reading!ShowLatest(asked["first"].page)
      /\ asked' = [asked EXCEPT !["first"] = Reading!Quiet]
      /\ UNCHANGED <<scene, file, len, torn, puller, again>>
  BY DEF Reading!ArriveFirst, Reading!transcript
<1>2. /\ asked["first"].kind = "latest" /\ tail = -1 /\ asked["pull1"].st \in {"none", "wait"}
      /\ asked["pull2"].st = "none" /\ again \subseteq {"pull1"} /\ ReadTypes
  BY <1>1 DEF ThreadInv, FirstLoad, Alone
<1>3. asked["older"].st = "none"
  BY <1>2, NoOlder
<1>4. Becomes("first", Reading!Quiet)
  BY <1>1, <1>2, BecomesOf, Named
<1>5. /\ asked'["pull1"].st \in {"none", "wait"} /\ asked'["pull2"].st = "none"
      /\ asked'["first"].st = "none" /\ asked'["older"].st = "none"
      /\ asked' \in [ReadingRequests -> AskedAs]
  BY <1>2, <1>3, <1>4, Named DEF Becomes
<1> QED
  BY <1>1, <1>2, <1>5, LatestShown, Named

LEMMA ArrivePullKeeps ==
  ASSUME ThreadInv, NEW p \in Reading!Pulls, Reading!ArrivePull(p)
  PROVE  ThreadInv'
<1>1. /\ ReadTypes /\ Alone /\ Shown /\ Stale /\ PagesFit /\ FirstLoad /\ PullFits /\ OlderFits /\ OneFile
  BY DEF ThreadInv
<1>2. /\ asked[p].st = "read" /\ UNCHANGED <<scene, file, len, torn, puller>> /\ again' \subseteq again
  BY DEF Reading!ArrivePull, Reading!transcript
<1>3. p = "pull1" /\ p \in ReadingRequests
  BY <1>1, <1>2, Named DEF Alone
<1>4. asked["first"].st = "none" /\ asked["pull2"].st = "none" /\ again' \subseteq {"pull1"}
  BY <1>1, <1>2, <1>3 DEF FirstLoad, Alone
<1> PICK page \in Page : page = asked[p].page
  BY <1>1, <1>3 DEF ReadTypes, AskedAs
<1>5. /\ page.file \in Nat /\ page.lo \in Nat \ {0} /\ page.hi \in Nat /\ page.tail \in Nat
      /\ len \in Nat /\ cursor \in Nat /\ file \in Nat \ {0} /\ torn \in BOOLEAN
  BY <1>1 DEF Page, ReadTypes
<1>6. /\ page.file \in 1..file /\ (page.file # file => len = 0 /\ ~torn)
      /\ scene = "older" => page.tail <= 2 * len + 1 /\ page.hi <= len
  BY <1>1, <1>2, <1>3 DEF PagesFit, PageFits
<1>7. ASSUME asked' = Reading!Ended(p, asked)
      PROVE  /\ \E q \in AskedAs : Becomes("pull1", q) /\ q.st \in {"none", "wait"}
             /\ asked' \in [ReadingRequests -> AskedAs]
             /\ asked'["pull1"].st \in {"none", "wait"}
             /\ \A r \in ReadingRequests \ {"pull1"} : asked'[r] = asked[r]
  <2>1. PICK q \in AskedAs : Becomes("pull1", q) /\ q.st \in {"none", "wait"}
    BY <1>1, <1>3, <1>7, EndedIs
  <2> QED
    BY <2>1 DEF Becomes
<1>8. CASE asked[p].kind = "latest" /\ Reading!ShowLatest(page) /\ asked' = Reading!Ended(p, asked)
  <2>1. asked["older"].st = "none"
    BY <1>1, <1>2, <1>3, <1>8, NoOlder DEF PullFits
  <2>2. /\ asked'["pull2"].st = "none" /\ asked'["first"].st = "none" /\ asked'["older"].st = "none"
    BY <1>4, <1>7, <1>8, <2>1, Named
  <2> QED
    BY <1>2, <1>3, <1>4, <1>7, <1>8, <2>2, LatestShown
<1>9. CASE /\ asked[p].kind = "since" /\ page.tail < tail /\ tail' = -1
           /\ asked' = [asked EXCEPT ![p] = Reading!Request("latest", -1)]
           /\ UNCHANGED <<entries, cursor>>
  <2>1. scene # "older" /\ asked["older"].st = "none"
    <3>1. scene = "older" => page.tail >= tail
      BY <1>1, <1>2, <1>3, <1>9 DEF PullFits
    <3>2. tail \in Int
      BY <1>1 DEF ReadTypes
    <3>3. scene # "older"
      BY <1>5, <1>9, <3>1, <3>2
    <3> QED
      BY <1>1, <3>3 DEF OlderFits
  <2>2. PICK q \in AskedAs : Becomes("pull1", q) /\ q.st = "sent" /\ q.kind = "latest"
    <3>1. /\ Reading!Request("latest", -1) \in AskedAs /\ Reading!Request("latest", -1).st = "sent"
          /\ Reading!Request("latest", -1).kind = "latest"
      BY RequestIs
    <3> QED
      BY <1>1, <1>3, <1>9, <3>1, BecomesOf
  <2>3. /\ asked'["pull1"] = q /\ \A r \in ReadingRequests \ {"pull1"} : asked'[r] = asked[r]
        /\ asked' \in [ReadingRequests -> AskedAs]
    BY <2>2 DEF Becomes
  <2>4. ReadTypes'
    BY <1>1, <1>2, <1>9, <2>3 DEF ReadTypes
  <2>5. Shown' /\ Stale' /\ OneFile'
    BY <1>2, <1>9, <2>1 DEF Shown, Stale, OneFile
  <2>6. PagesFit'
    BY <1>1, <1>2, <2>2, <2>3 DEF PagesFit, PageFits
  <2>7. FirstLoad' /\ OlderFits' /\ Alone'
    BY <1>4, <2>1, <2>3, Named DEF FirstLoad, OlderFits, Alone
  <2>8. PullFits'
    BY <1>4, <1>9, <2>2, <2>3, Named DEF PullFits
  <2> QED
    BY <2>4, <2>5, <2>6, <2>7, <2>8 DEF ThreadInv
<1>10. CASE asked' = Reading!Ended(p, asked) /\ UNCHANGED <<entries, tail, cursor>>
  <2>1. PICK q \in AskedAs : Becomes("pull1", q) /\ q.st \in {"none", "wait"}
    BY <1>7, <1>10
  <2>2. Still
    BY <1>2, <1>10 DEF Still
  <2> QED
    BY <1>3, <1>4, <2>1, <2>2, RestKeeps
<1>11. CASE /\ asked[p].kind = "since" /\ page.tail > tail
            /\ entries' = entries \o Reading!Records(page) /\ tail' = page.tail
            /\ asked' = Reading!Ended(p, asked) /\ UNCHANGED cursor
  <2>1. /\ tail >= 0 /\ page.lo = Half(tail) + 1 /\ page.tail = 2 * page.hi
        /\ tail > 0 /\ entries # <<>> => entries[1][1] = page.file
    BY <1>1, <1>2, <1>3, <1>11 DEF PullFits
  <2>2. PICK h \in Nat : tail = 2 * h
    BY <1>1, <2>1 DEF ReadTypes
  <2>3. Half(tail) = h /\ Half(page.tail) = page.hi
    BY <1>5, <2>1, <2>2, HalfOf
  <2>4. h < page.hi
    BY <1>5, <1>11, <2>1, <2>2
  <2>5. PICK f \in 1..file : entries = Stretch(f, cursor, h)
    BY <1>1, <2>1, <2>3 DEF Shown
  <2>6. cursor <= h
    BY <1>1, <2>1, <2>3 DEF Shown
  <2>7. entries = Stretch(page.file, cursor, h)
    <3>1. CASE entries # <<>>
      <4>1. cursor < h /\ entries[1] = <<f, cursor + 1>>
        BY <1>5, <2>5, <2>6, <3>1, StretchStarts
      <4>2. tail > 0
        BY <1>5, <2>2, <4>1
      <4>3. f = page.file
        BY <2>1, <3>1, <4>1, <4>2
      <4> QED
        BY <2>5, <4>3
    <3>2. CASE entries = <<>>
      <4>1. cursor = h
        BY <1>5, <2>5, <2>6, <3>2, StretchEmpty
      <4>2. PICK g : g = page.file
        OBVIOUS
      <4>3. Stretch(g, cursor, h) # <<>> => cursor < h
        BY <1>5, <2>6, StretchEmpty
      <4> QED
        BY <1>5, <3>2, <4>1, <4>2, <4>3
    <3> QED
      BY <3>1, <3>2
  <2>8. entries' = Stretch(page.file, cursor, page.hi)
    <3>1. page.lo - 1 = h
      BY <2>1, <2>2, <2>3
    <3>2. Reading!Records(page) = Stretch(page.file, h, page.hi)
      BY <3>1, PageIsStretch
    <3>3. h <= page.hi
      BY <1>5, <2>4
    <3>4. cursor \in Nat /\ h \in Nat /\ page.hi \in Nat /\ cursor <= h
      BY <1>5, <2>6
    <3>5. Stretch(page.file, cursor, h) \o Stretch(page.file, h, page.hi)
            = Stretch(page.file, cursor, page.hi)
      BY <3>3, <3>4, StretchesMeet
    <3> QED
      BY <1>11, <2>7, <3>2, <3>5
  <2>9. cursor <= page.hi
    BY <1>5, <2>4, <2>6
  <2>10. ReadTypes'
    BY <1>2, <1>5, <1>7, <1>11, <2>1 DEF ReadTypes
  <2>11. Shown'
    BY <1>2, <1>6, <1>11, <2>3, <2>8, <2>9 DEF Shown
  <2>12. Stale'
    <3>1. entries' # <<>> => cursor < page.hi /\ entries'[1] = <<page.file, cursor + 1>>
      <4>1. PICK q : q = entries' /\ q = Stretch(page.file, cursor, page.hi)
        BY <2>8
      <4>2. PICK c, g, k \in Nat : c = cursor /\ g = page.file /\ k = page.hi
        BY <1>5
      <4>3. c <= k /\ q = Stretch(g, c, k)
        BY <2>9, <4>1, <4>2
      <4>4. ASSUME q # <<>> PROVE c < k /\ q[1] = <<g, c + 1>>
        BY <4>3, <4>4, StretchStarts
      <4> QED
        BY <4>1, <4>2, <4>4
    <3> QED
      BY <1>2, <1>6, <3>1 DEF Stale
  <2>13. OneFile'
    BY <1>1, <1>2, <1>5, <1>6, <1>11, <2>1 DEF OneFile
  <2>14. PagesFit' /\ FirstLoad' /\ PullFits' /\ Alone'
    BY <1>1, <1>2, <1>4, <1>7, <1>11, Named DEF PagesFit, PageFits, FirstLoad, PullFits, Alone
  <2>15. OlderFits'
    BY <1>1, <1>2, <1>5, <1>7, <1>11, Named DEF OlderFits
  <2> QED
    BY <2>10, <2>11, <2>12, <2>13, <2>14, <2>15 DEF ThreadInv
<1> QED
  BY <1>8, <1>9, <1>10, <1>11 DEF Reading!ArrivePull, Reading!screen

LEMMA ArriveOlderKeeps ==
  ASSUME ThreadInv, Reading!ArriveOlder
  PROVE  ThreadInv'
<1>1. /\ ReadTypes /\ Alone /\ Shown /\ Stale /\ PagesFit /\ FirstLoad /\ PullFits /\ OlderFits /\ OneFile
  BY DEF ThreadInv
<1> PICK page \in Page : page = asked["older"].page
  BY <1>1, Named DEF ReadTypes, AskedAs
<1>2. /\ asked["older"].st = "read" /\ UNCHANGED <<scene, file, len, torn, tail, again, puller>>
      /\ entries' = Reading!Records(page) \o entries /\ cursor' = page.lo - 1
      /\ asked' = [asked EXCEPT !["older"] = Reading!Quiet]
  BY DEF Reading!ArriveOlder, Reading!transcript
<1>3. /\ page.file \in Nat /\ page.lo \in Nat \ {0} /\ page.hi \in Nat /\ page.tail \in Nat
      /\ len \in Nat /\ cursor \in Nat /\ cursor' \in Nat
  <2>1. /\ page.file \in Nat /\ page.lo \in Nat \ {0} /\ page.hi \in Nat /\ page.tail \in Nat
    BY DEF Page
  <2>2. len \in Nat /\ cursor \in Nat
    BY <1>1 DEF ReadTypes
  <2>3. cursor' \in Nat
    BY <1>2, <2>1
  <2> QED
    BY <2>1, <2>2, <2>3
<1>4. /\ scene = "older" /\ tail >= 0 /\ page.hi = cursor /\ page.lo <= cursor /\ file = 1
  BY <1>1, <1>2 DEF OlderFits, OneFile
<1>5. page.file = 1
  BY <1>1, <1>2, <1>4, Named DEF PagesFit, PageFits
<1>6. PICK h \in Nat : tail = 2 * h
  BY <1>1, <1>4 DEF ReadTypes
<1>7. cursor <= h /\ entries = Stretch(1, cursor, h) /\ Half(tail) = h
  <2>1. Half(tail) = h
    BY <1>6, HalfOf
  <2>2. PICK f \in 1..file : entries = Stretch(f, cursor, h)
    BY <1>1, <1>4, <2>1 DEF Shown
  <2>3. f = 1
    BY <1>4, <2>2
  <2> QED
    BY <1>1, <1>4, <2>1, <2>2, <2>3 DEF Shown
<1>8. entries' = Stretch(1, cursor', h) /\ cursor' <= h
  <2>1. Reading!Records(page) = Stretch(1, cursor', cursor)
    BY <1>2, <1>4, <1>5, PageIsStretch
  <2>2. cursor' <= cursor
    BY <1>2, <1>3, <1>4
  <2>3. Stretch(1, cursor', cursor) \o Stretch(1, cursor, h) = Stretch(1, cursor', h)
    <3>1. PICK c \in Nat : c = cursor' /\ c <= cursor
      BY <1>3, <2>2
    <3>2. cursor \in Nat /\ cursor <= h /\ c <= cursor
      BY <1>3, <1>7, <3>1
    <3>3. Stretch(1, c, cursor) \o Stretch(1, cursor, h) = Stretch(1, c, h)
      BY <3>2, StretchesMeet
    <3> QED
      BY <3>1, <3>3
  <2>4. cursor' <= h
    BY <1>3, <1>7, <2>2
  <2> QED
    BY <1>2, <1>7, <2>1, <2>3, <2>4
<1>9. entries' # <<>> => entries'[1][1] = 1
  <2>1. PICK c \in Nat : c = cursor' /\ c <= h
    BY <1>3, <1>8
  <2>2. PICK q : q = entries' /\ q = Stretch(1, c, h)
    BY <1>8, <2>1
  <2>3. ASSUME q # <<>> PROVE q[1] = <<1, c + 1>>
    BY <2>1, <2>2, <2>3, StretchStarts
  <2> QED
    BY <2>2, <2>3
<1>10. Becomes("older", Reading!Quiet)
  BY <1>1, <1>2, BecomesOf, Named
<1>11. /\ asked'["older"].st = "none" /\ asked' \in [ReadingRequests -> AskedAs]
       /\ \A r \in ReadingRequests \ {"older"} : asked'[r] = asked[r]
  BY <1>10, Named DEF Becomes
<1>12. ReadTypes'
  BY <1>1, <1>2, <1>3, <1>11 DEF ReadTypes
<1>13. Shown'
  BY <1>2, <1>4, <1>7, <1>8 DEF Shown
<1>14. Stale'
  BY <1>2, <1>4, <1>9 DEF Stale
<1>15. OneFile' /\ PagesFit' /\ FirstLoad' /\ OlderFits' /\ Alone'
  BY <1>1, <1>2, <1>4, <1>11, Named DEF OneFile, PagesFit, PageFits, FirstLoad, OlderFits, Alone
<1>16. PullFits'
  <2>1. asked["pull1"].st = "read" => asked["pull1"].page.file = 1
    BY <1>1, <1>4, Named DEF PagesFit, PageFits
  <2> QED
    BY <1>1, <1>2, <1>9, <1>11, <2>1, Named DEF PullFits
<1> QED
  BY <1>12, <1>13, <1>14, <1>15, <1>16 DEF ThreadInv

LEMMA FailKeeps ==
  ASSUME ThreadInv, NEW r \in ReadingRequests, Reading!Fail(r)
  PROVE  ThreadInv'
<1>1. Still /\ ReadTypes /\ again \subseteq {"pull1"} /\ again' \subseteq again
      /\ asked[r].st \in {"sent", "read"}
  BY DEF Reading!Fail, Reading!transcript, Reading!screen, Still, ThreadInv, Alone
<1>2. r # "pull2"
  BY <1>1 DEF ThreadInv, Alone
<1>3. CASE r \in Reading!Pulls
  <2>1. asked' = Reading!Ended(r, asked)
    BY <1>3 DEF Reading!Fail
  <2>2. PICK q \in AskedAs : Becomes(r, q) /\ q.st \in {"none", "wait"}
    BY <1>1, <1>3, <2>1, EndedIs
  <2>3. r = "pull1"
    BY <1>2, <1>3, Named
  <2> QED
    BY <1>1, <2>2, <2>3, RestKeeps
<1>4. CASE r \notin Reading!Pulls
  <2>1. asked' = [asked EXCEPT ![r] = Reading!Quiet]
    BY <1>4 DEF Reading!Fail
  <2>2. Becomes(r, Reading!Quiet)
    BY <1>1, <2>1, BecomesOf, Named
  <2> QED
    BY <1>1, <2>2, RestKeeps, Named
<1> QED
  BY <1>3, <1>4

LEMMA SameKeeps ==
  ASSUME ThreadInv, Still, asked' = asked, again' \subseteq {"pull1"}
  PROVE  ThreadInv'
<1>1. /\ ReadTypes /\ Alone /\ PagesFit /\ FirstLoad /\ PullFits /\ OlderFits
  BY DEF ThreadInv
<1>2. PagesFit' /\ FirstLoad' /\ PullFits' /\ OlderFits'
  BY <1>1 DEF PagesFit, PageFits, FirstLoad, PullFits, OlderFits, Still
<1> QED
  BY <1>1, <1>2, StillKeeps DEF ReadTypes, Alone

LEMMA CalledKeeps ==
  ASSUME ThreadInv, puller = "pull1", Still, Reading!Called(puller)
  PROVE  ThreadInv'
<1>1. ReadTypes /\ again \subseteq {"pull1"}
  BY DEF ThreadInv, Alone
<1>2. CASE asked' = [asked EXCEPT !["pull1"].st = "wait"] /\ again' = again
  <2>1. asked \in [ReadingRequests -> AskedAs] /\ asked["pull1"] \in AskedAs /\ "pull1" \in ReadingRequests
    BY <1>1, Named DEF ReadTypes
  <2>2. /\ asked'["pull1"] \in AskedAs /\ asked'["pull1"].st = "wait"
    BY <1>2, <2>1 DEF AskedAs
  <2>3. \A r \in ReadingRequests \ {"pull1"} : asked'[r] = asked[r]
    BY <1>2, <2>1
  <2>4. asked' \in [ReadingRequests -> AskedAs]
    <3>1. asked' = [r \in ReadingRequests |-> asked'[r]]
      BY <1>2, <2>1
    <3>2. \A r \in ReadingRequests : asked'[r] \in AskedAs
      BY <2>1, <2>2, <2>3
    <3> QED
      BY <3>1, <3>2
  <2>5. PICK q \in AskedAs : q = asked'["pull1"] /\ q.st = "wait"
    BY <2>2
  <2>6. Becomes("pull1", q)
    BY <2>3, <2>4, <2>5 DEF Becomes
  <2> QED
    BY <1>1, <1>2, <2>5, <2>6, RestKeeps, Named
<1>3. CASE again' = again \cup {"pull1"} /\ asked' = asked
  BY <1>1, <1>3, SameKeeps
<1> QED
  BY <1>2, <1>3 DEF Reading!Called

LEMMA ReadingKeeps ==
  ASSUME puller = "pull1" => ThreadInv, Reading!Next
  PROVE  (puller = "pull1" => ThreadInv)'
<1> SUFFICES ASSUME puller' = "pull1" PROVE ThreadInv'
  OBVIOUS
<1>1. CASE Reading!FeaturesArrive
  BY <1>1 DEF Reading!FeaturesArrive
<1>2. ASSUME ~Reading!FeaturesArrive PROVE puller = "pull1"
  BY <1>2 DEF Reading!Next, Reading!Write, Reading!Anew, Reading!ArriveFirst, Reading!LoadOlder,
     Reading!ArriveOlder, Reading!Poll, Reading!Hide, Reading!Show, Reading!Subscribe, Reading!Break,
     Reading!Tick, Reading!Read, Reading!Fail, Reading!StartPull, Reading!ArrivePull, Reading!Hear
<1>3. CASE ~Reading!FeaturesArrive
  <2>1. ThreadInv /\ puller = "pull1" /\ again \subseteq {"pull1"}
    BY <1>2, <1>3 DEF ThreadInv, Alone
  <2>2. CASE Reading!Poll \/ Reading!Show \/ \E e \in {"hello", "grew"} : Reading!Hear(e)
    <3>1. Still /\ Reading!Called(puller)
      BY <2>2 DEF Reading!Poll, Reading!Show, Reading!Hear, Reading!transcript, Reading!screen, Still
    <3> QED
      BY <2>1, <3>1, CalledKeeps
  <2>3. CASE Reading!Hide \/ Reading!Subscribe \/ Reading!Break \/ Reading!Tick
    <3>1. Still /\ asked' = asked /\ again' = again
      BY <2>3 DEF Reading!Hide, Reading!Subscribe, Reading!Break, Reading!Tick, Reading!transcript,
         Reading!screen, Still
    <3> QED
      BY <2>1, <3>1, SameKeeps
  <2> QED
    BY <1>3, <2>1, <2>2, <2>3, WriteKeeps, AnewKeeps, ArriveFirstKeeps, LoadOlderKeeps, ArriveOlderKeeps,
       ReadKeeps, FailKeeps, StartPullKeeps, ArrivePullKeeps DEF Reading!Next, ReadingRequests
<1> QED
  BY <1>1, <1>3

(* What the invariant says to the reader.                                  *)
LEMMA OneStretchOf ==
  ASSUME ThreadInv
  PROVE  Reading!InOrder
BY DEF ThreadInv, Shown, Reading!InOrder, Stretch, Half

-----------------------------------------------------------------------------
(* A behaviour is one of one part.                                         *)

TypingInv == part = "keys" => KeysInv
ReadingInv == part = "thread" => (puller = "pull1" => ThreadInv)

LEMMA SessionStart == MCInit => TypingInv /\ ReadingInv
BY KeysStart, ReadingStart DEF MCInit, TypingInv, ReadingInv

LEMMA SessionStep == TypingInv /\ ReadingInv /\ [MCNext]_MCVars => TypingInv' /\ ReadingInv'
<1> SUFFICES ASSUME TypingInv, ReadingInv, [MCNext]_MCVars PROVE TypingInv' /\ ReadingInv'
  OBVIOUS
<1>1. ASSUME UNCHANGED typing, part' = part PROVE TypingInv'
  BY <1>1 DEF typing, TypingInv, KeysInv, KeyTypes, Turns, Ways, Rush, Carried, TokenAt, BodyAt, EnterAt,
     EscAt, Doing, Returned, Box, Lies, Told, Submitted, In
<1>2. ASSUME UNCHANGED reading, part' = part PROVE ReadingInv'
  BY <1>2 DEF reading, ReadingInv, ThreadInv, ReadTypes, Alone, Shown, Stale, PagesFit, PageFits, FirstLoad,
     PullFits, OlderFits, OneFile
<1>3. CASE InLine(Next)
  BY <1>1, <1>2, <1>3 DEF InLine
<1>4. CASE InTyping(Typing!Next)
  <2>1. TypingInv'
    BY <1>4, TypingKeeps DEF InTyping, TypingInv
  <2> QED
    BY <1>2, <1>4, <2>1 DEF InTyping
<1>5. CASE InReading(Reading!Next)
  <2>1. ReadingInv'
    BY <1>5, ReadingKeeps DEF InReading, ReadingInv
  <2> QED
    BY <1>1, <1>5, <2>1 DEF InReading
<1>6. CASE UNCHANGED MCVars
  BY <1>1, <1>2, <1>6 DEF MCVars
<1> QED
  BY <1>3, <1>4, <1>5, <1>6 DEF MCNext

\* What the inductive invariants of the terminal and of the thread say, always.
THEOREM SessionInvariant == MCSpec => [](TypingInv /\ ReadingInv)
BY SessionStart, SessionStep, PTL DEF MCSpec

\* A message goes one way only, an Enter submits its own message and with it only
\* text that somebody was told about, and no two ESC go out within the cool down
\* (message.ts decideAfterKeys, keys.ts).
THEOREM TypedOnceHolds == MCSpec => []TypedOnce
<1>1. TypingInv => TypedOnce
  BY TypedOnceOf DEF TypingInv, TypedOnce
<1> QED BY <1>1, SessionInvariant, PTL

\* A thread shows a stretch of one transcript from the cursor to the tail, without
\* gap or repetition, as long as its follow effect runs once (Thread.tsx, follow.ts).
THEOREM OneStretchHolds == MCSpec => []OneStretch
<1>1. ReadingInv => OneStretch
  BY OneStretchOf DEF ReadingInv, OneStretch, Reading!OneStretch
<1> QED BY <1>1, SessionInvariant, PTL
=============================================================================
