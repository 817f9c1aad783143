-------------------------- MODULE FreeTierProofs --------------------------
(* Proofs about the free tier, for any number of phones, rooms and wires,  *)
(* and about the ledger of one phone as it is stored, for any rooms,       *)
(* limits and times.                                                       *)
EXTENDS MCLedgers, FiniteSetTheorems, TLAPS

(* A room without wires and an empty ledger are of their types.           *)
LEMMA InitType == Init => TypeOK
BY NoneAssumption DEF Init, TypeOK, Jobs, Idle, Live

(* The outcome of a claim (phoneLedger.ts claimRoom) is an answer and two *)
(* sets of rooms.                                                         *)
LEMMA ClaimRoomType ==
  ASSUME NEW rooms \in SUBSET Rooms, NEW r \in Rooms,
         NEW licensed \in BOOLEAN, NEW takeover \in BOOLEAN
  PROVE  LET c == ClaimRoom(rooms, r, licensed, takeover) IN
         /\ c.res \in {"ok", "limit"}
         /\ c.next \in SUBSET Rooms
         /\ c.todo \in SUBSET Rooms
BY DEF ClaimRoom

(* Every step of a room, a wire or the ledger keeps the types, one case per*)
(* action.                                                                *)
LEMMA StepType == TypeOK /\ [Next]_vars => TypeOK'
<1> SUFFICES ASSUME TypeOK, [Next]_vars PROVE TypeOK'
  OBVIOUS
<1> USE DEF TypeOK
<1>1. ASSUME NEW w \in Wires, NEW p \in Phones, NEW r \in Rooms,
             NEW f \in BOOLEAN, Prove(w, p, r, f)
      PROVE TypeOK'
  BY <1>1 DEF Prove, Live
<1>2. ASSUME NEW w \in Wires, StartClaim(w) PROVE TypeOK'
  <2> DEFINE p == of[w]
  <2>1. PICK gone \in SUBSET MayBeIdle(p) :
          LET c == ClaimRoom(ledger[p] \ gone, at[w], asked[w], take[w])
          IN job' = [job EXCEPT ![p] = [w |-> w, lic |-> asked[w], todo |-> c.todo,
                                        next |-> c.next, res |-> c.res]]
    BY <1>2 DEF StartClaim
  <2> DEFINE c == ClaimRoom(ledger[p] \ gone, at[w], asked[w], take[w])
  <2>2. /\ c.res \in {"ok", "limit"} /\ c.next \in SUBSET Rooms
        /\ c.todo \in SUBSET Rooms
    BY ClaimRoomType
  <2> HIDE DEF c
  <2>3. job' = [job EXCEPT ![p] = [w |-> w, lic |-> asked[w], todo |-> c.todo,
                                   next |-> c.next, res |-> c.res]]
    BY <2>1 DEF c
  <2>4. job' \in [Phones -> Jobs]
    BY <2>2, <2>3 DEF Jobs
  <2> QED
    BY <1>2, <2>4 DEF StartClaim, tagVars
<1>3. ASSUME NEW w \in Wires, LoseCall(w) PROVE TypeOK'
  BY <1>3 DEF LoseCall, tagVars
<1>4. ASSUME NEW w \in Wires, Answer(w) PROVE TypeOK'
  <2>1. CASE AnswerGone(w)
    BY <1>4, <2>1 DEF Answer, AnswerGone, Ends, MarkStale, Unmark
  <2>2. CASE AnswerRetry(w)
    BY <1>4, <2>2 DEF Answer, AnswerRetry, MarkStale, Unmark
  <2>3. CASE AnswerRefused(w)
    BY <1>4, <2>3 DEF Answer, AnswerRefused, Ends, MarkStale, Unmark
  <2>4. CASE AnswerAccepted(w)
    BY <1>4, <2>4 DEF Answer, AnswerAccepted, Ends, MarkStale, Unmark, Live
  <2> QED
    BY <1>4, <2>1, <2>2, <2>3, <2>4 DEF Answer
<1>5. ASSUME NEW w \in Wires, AgentSends(w) PROVE TypeOK'
  BY <1>5 DEF AgentSends, callVars, Live
<1>6. ASSUME NEW w \in Wires, WireCloses(w) PROVE TypeOK'
  BY <1>6 DEF WireCloses, callVars
<1>7. ASSUME NEW p \in Phones, Commit(p) PROVE TypeOK'
  BY <1>7 DEF Commit, tagVars, Jobs, Idle
<1>8. ASSUME NEW p \in Phones, FailClaim(p) PROVE TypeOK'
  BY <1>8 DEF FailClaim, tagVars, Jobs, Idle
<1>9. ASSUME NEW p \in Phones, NEW r \in Rooms, Tell(p, r) PROVE TypeOK'
  <2>1. job' \in [Phones -> Jobs]
    <3>1. [job[p] EXCEPT !.todo = @ \ {r}] \in Jobs
      BY DEF Jobs
    <3>2. job' = [job EXCEPT ![p] = [job[p] EXCEPT !.todo = @ \ {r}]]
      BY <1>9 DEF Tell
    <3> QED
      BY <3>1, <3>2
  <2>2. /\ stale' \in [Wires -> BOOLEAN]
        /\ free' \in [Wires -> BOOLEAN]
        /\ st' \in [Wires -> Live \cup {"out"}]
    <3>1. CASE TellReleased(p, r)
      BY <3>1 DEF TellReleased, MarkStale, Unmark
    <3>2. CASE TellMoved(p, r)
      BY <3>2 DEF TellMoved, MarkStale, Unmark
    <3> QED
      BY <1>9, <3>1, <3>2 DEF Tell
  <2> QED
    BY <1>9, <2>1, <2>2 DEF Tell, callVars
<1>10. ASSUME NEW r \in Rooms, PhoneSends(r) PROVE TypeOK'
  BY <1>10 DEF PhoneSends, callVars
<1>11. ASSUME NEW r \in Rooms, TicketArrives(r) \/ TicketExpires(r) PROVE TypeOK'
  <2>1. CASE TicketArrives(r)
    BY <2>1 DEF TicketArrives, tagVars, callVars
  <2>2. CASE TicketExpires(r)
    BY <2>2 DEF TicketExpires, tagVars, callVars
  <2> QED
    BY <1>11, <2>1, <2>2
<1>12. ASSUME NEW r \in Rooms, TicketRevoked(r) \/ AgentGone(r) PROVE TypeOK'
  <2>1. CASE TicketRevoked(r)
    BY <2>1 DEF TicketRevoked, callVars
  <2>2. CASE AgentGone(r)
    BY <2>2 DEF AgentGone, callVars
  <2> QED
    BY <1>12, <2>1, <2>2
<1>13. CASE UNCHANGED vars
  BY <1>13 DEF vars, tagVars, callVars
<1> QED
  BY <1>1, <1>2, <1>3, <1>4, <1>5, <1>6, <1>7, <1>8, <1>9, <1>10, <1>11, <1>12,
     <1>13 DEF Next

(* The variables keep their types: no answer, mark or claim is ever of a  *)
(* kind the room and the ledger do not know, whatever the interleaving.   *)
THEOREM TypeCorrect == Spec => []TypeOK
BY InitType, StepType, PTL DEF Spec

-----------------------------------------------------------------------------
(* The free slot.                                                          *)

(* Before the first wire no mark, no answer and no place in a ledger exist.*)
LEMMA InitFree == Init => FreeInv
<1> SUFFICES ASSUME Init PROVE FreeInv
  OBVIOUS
<1>1. TypeOK
  BY InitType
<1> QED
  BY <1>1 DEF Init, FreeInv, OneRoomEach, AtMostOne, RelianceBacked, Relies, Live,
     WaitingUnmarked, ServedByJob, CallerUnmarked, Idle

(* What the ledger decides keeps at most one room, and every room it drops *)
(* it has to tell; a free claim it accepts is of a room it keeps.          *)
LEMMA ClaimRoomSlots ==
  ASSUME NEW rooms \in SUBSET Rooms, AtMostOne(rooms), NEW r \in Rooms,
         NEW licensed \in BOOLEAN, NEW takeover \in BOOLEAN
  PROVE  LET c == ClaimRoom(rooms, r, licensed, takeover) IN
         /\ AtMostOne(c.next)
         /\ rooms \subseteq c.next \cup c.todo
         /\ c.res = "ok" /\ ~licensed => r \in c.next
BY DEF ClaimRoom, AtMostOne

(* The actions that write no ledger, begin or end no claim and give no     *)
(* wire a mark: an eviction, traffic, a ticket.                            *)
LEMMA QuietStep ==
  ASSUME FreeInv, TypeOK',
         UNCHANGED <<of, at, asked, ledger, job, rpc, stale>>,
         \A w \in Wires : free'[w] => free[w],
         \A w \in Wires : st'[w] # st[w] =>
           st'[w] = "out" \/ (st[w] = "open" /\ st'[w] = "admitted")
  PROVE  FreeInv'
<1> USE DEF FreeInv, TypeOK
<1>1. OneRoomEach'
  BY DEF OneRoomEach, AtMostOne
<1>2. RelianceBacked'
  <2> SUFFICES ASSUME NEW w \in Wires, Relies(w)' PROVE BackedNow(w)' /\ BackedByJob(w)'
    BY DEF RelianceBacked
  <2>1. Relies(w)
    BY DEF Relies, Live
  <2> QED
    BY <2>1 DEF RelianceBacked, BackedNow, BackedByJob
<1>3. WaitingUnmarked'
  BY DEF WaitingUnmarked, Live
<1>4. ServedByJob'
  BY DEF ServedByJob
<1>5. CallerUnmarked'
  <2> SUFFICES ASSUME NEW p \in Phones, job[p].w # None
      PROVE  of[job[p].w] = p /\ ~free'[job[p].w] /\ rpc[job[p].w] \notin {"ok", "limit"}
    BY DEF CallerUnmarked
  <2>1. job[p].w \in Wires
    BY DEF Jobs
  <2> QED
    BY <2>1 DEF CallerUnmarked
<1> QED
  BY <1>1, <1>2, <1>3, <1>4, <1>5

(* A wire proves its phone's key and asks (#checkDeviceProof): it holds no*)
(* mark yet, so it relies on nothing.                                     *)
LEMMA ProveFree ==
  ASSUME FreeInv, TypeOK', NEW w \in Wires, NEW p \in Phones, NEW r \in Rooms,
         NEW f \in BOOLEAN, Prove(w, p, r, f)
  PROVE  FreeInv'
<1> USE DEF FreeInv, TypeOK, Prove
<1>1. OneRoomEach'
  BY DEF OneRoomEach, AtMostOne
<1>2. RelianceBacked'
  <2> SUFFICES ASSUME NEW v \in Wires, Relies(v)' PROVE BackedNow(v)' /\ BackedByJob(v)'
    BY DEF RelianceBacked
  <2>1. v # w
    BY DEF Relies
  <2>2. Relies(v)
    BY <2>1 DEF Relies, Live
  <2> QED
    BY <2>1, <2>2 DEF RelianceBacked, BackedNow, BackedByJob
<1>3. WaitingUnmarked'
  BY DEF WaitingUnmarked
<1>4. ServedByJob'
  BY DEF ServedByJob
<1>5. CallerUnmarked'
  <2> SUFFICES ASSUME NEW q \in Phones, job[q].w # None
      PROVE  of'[job[q].w] = q /\ ~free'[job[q].w] /\ rpc'[job[q].w] \notin {"ok", "limit"}
    BY DEF CallerUnmarked
  <2>1. job[q].w \in Wires /\ job[q].w # w
    BY DEF Jobs
  <2> QED
    BY <2>1 DEF CallerUnmarked
<1> QED
  BY <1>1, <1>2, <1>3, <1>4, <1>5

(* A claim begins: pruning leaves alone every room a wire relies on, so    *)
(* the rooms relied on stay in the next ledger or are to be told.          *)
LEMMA StartClaimFree ==
  ASSUME LongLivedWires = FALSE, FreeInv, TypeOK', NEW w \in Wires, StartClaim(w)
  PROVE  FreeInv'
<1> USE DEF FreeInv, TypeOK
<1> DEFINE p == of[w]
<1>1. PICK gone \in SUBSET MayBeIdle(p) :
        LET c == ClaimRoom(ledger[p] \ gone, at[w], asked[w], take[w])
        IN job' = [job EXCEPT ![p] = [w |-> w, lic |-> asked[w], todo |-> c.todo,
                                      next |-> c.next, res |-> c.res]]
  BY DEF StartClaim
<1> DEFINE kept == ledger[p] \ gone
           c == ClaimRoom(kept, at[w], asked[w], take[w])
<1>2. AtMostOne(ledger[p])
  BY DEF OneRoomEach
<1>3. /\ AtMostOne(c.next)
      /\ kept \subseteq c.next \cup c.todo
      /\ c.res = "ok" /\ ~asked[w] => at[w] \in c.next
  <2>1. AtMostOne(kept) /\ kept \in SUBSET Rooms
    BY <1>2 DEF AtMostOne
  <2> QED
    BY <2>1, ClaimRoomSlots
<1> HIDE DEF c
<1>4. /\ job' = [job EXCEPT ![p] = [w |-> w, lic |-> asked[w], todo |-> c.todo,
                                    next |-> c.next, res |-> c.res]]
      /\ job[p].w = None
      /\ rpc[w] = "queued" /\ rpc' = [rpc EXCEPT ![w] = "serving"]
      /\ UNCHANGED <<of, at, st, free, stale, asked, ledger>>
  BY <1>1 DEF StartClaim, c, tagVars
<1>5. OneRoomEach'
  BY <1>3, <1>4 DEF OneRoomEach
<1>6. RelianceBacked'
  <2> SUFFICES ASSUME NEW v \in Wires, Relies(v)' PROVE BackedNow(v)' /\ BackedByJob(v)'
    BY DEF RelianceBacked
  <2>1. Relies(v)
    BY <1>4 DEF Relies
  <2>2. at[v] \in ledger[of[v]]
    BY <2>1 DEF RelianceBacked, BackedNow
  <2>3. CASE of[v] = p
    <3>1. at[v] \notin MayBeIdle(p)
      <4>1. \/ st[v] \in {"open", "admitted"} /\ free[v]
            \/ rpc[v] = "ok" /\ ~asked[v]
        <5>1. CASE st[v] \in Live /\ free[v]
          <6>1. st[v] # "asking"
            BY <5>1 DEF WaitingUnmarked
          <6> QED
            BY <5>1, <6>1 DEF Live
        <5> QED
          BY <2>1, <5>1 DEF Relies
      <4> QED
        BY <2>3, <4>1 DEF MayBeIdle
    <3>2. at[v] \in c.next \cup c.todo
      BY <1>3, <2>2, <2>3, <3>1
    <3> QED
      BY <1>4, <2>2, <2>3, <3>2 DEF BackedNow, BackedByJob
  <2>4. CASE of[v] # p
    BY <1>4, <2>1, <2>2, <2>4 DEF RelianceBacked, BackedNow, BackedByJob
  <2> QED
    BY <2>3, <2>4
<1>7. WaitingUnmarked'
  BY <1>4 DEF WaitingUnmarked
<1>8. ServedByJob'
  <2> SUFFICES ASSUME NEW v \in Wires, rpc'[v] = "serving"
      PROVE  /\ job'[of[v]].w = v
             /\ job'[of[v]].lic = asked[v]
             /\ job'[of[v]].res = "ok" /\ ~asked[v] => at[v] \in job'[of[v]].next
    BY <1>4 DEF ServedByJob
  <2>1. CASE v = w
    BY <1>3, <1>4, <2>1
  <2>2. CASE v # w
    <3>1. rpc[v] = "serving" /\ job[of[v]].w = v
      BY <1>4, <2>2 DEF ServedByJob
    <3>2. of[v] # p
      BY <1>4, <3>1, NoneAssumption
    <3> QED
      BY <1>4, <3>1, <3>2 DEF ServedByJob
  <2> QED
    BY <2>1, <2>2
<1>9. CallerUnmarked'
  <2> SUFFICES ASSUME NEW q \in Phones, job'[q].w # None
      PROVE  of[job'[q].w] = q /\ ~free[job'[q].w] /\ rpc'[job'[q].w] \notin {"ok", "limit"}
    BY <1>4 DEF CallerUnmarked
  <2>1. CASE q = p
    BY <1>4, <2>1 DEF WaitingUnmarked
  <2>2. CASE q # p
    <3>1. job'[q] = job[q] /\ job[q].w \in Wires
      BY <1>4, <2>2 DEF Jobs
    <3> QED
      BY <1>4, <2>2, <3>1 DEF CallerUnmarked
  <2> QED
    BY <2>1, <2>2
<1> QED
  BY <1>5, <1>6, <1>7, <1>8, <1>9

(* A call to the ledger is lost: its caller relies on no answer, whether the*)
(* ledger has begun to serve it or not.                                   *)
LEMMA LoseCallFree ==
  ASSUME FreeInv, TypeOK', NEW w \in Wires, LoseCall(w)
  PROVE  FreeInv'
<1> USE DEF FreeInv, TypeOK, LoseCall, tagVars
<1>1. OneRoomEach'
  BY DEF OneRoomEach, AtMostOne
<1>2. RelianceBacked'
  <2> SUFFICES ASSUME NEW v \in Wires, Relies(v)' PROVE BackedNow(v)' /\ BackedByJob(v)'
    BY DEF RelianceBacked
  <2>1. Relies(v)
    BY DEF Relies
  <2> QED
    BY <2>1 DEF RelianceBacked, BackedNow, BackedByJob
<1>3. WaitingUnmarked'
  BY DEF WaitingUnmarked
<1>4. ServedByJob'
  BY DEF ServedByJob
<1>5. CallerUnmarked'
  <2> SUFFICES ASSUME NEW q \in Phones, job[q].w # None
      PROVE  of[job[q].w] = q /\ ~free[job[q].w] /\ rpc'[job[q].w] \notin {"ok", "limit"}
    BY DEF CallerUnmarked
  <2>1. job[q].w \in Wires
    BY DEF Jobs
  <2> QED
    BY <2>1 DEF CallerUnmarked
<1> QED
  BY <1>1, <1>2, <1>3, <1>4, <1>5

(* An answer arrives.  A free answer that is used was relied upon already, *)
(* and a licensed one only takes marks away.                               *)
LEMMA AnswerFree ==
  ASSUME FreeInv, TypeOK', NEW w \in Wires, Answer(w)
  PROVE  FreeInv'
<1> USE DEF FreeInv, TypeOK
<1>1. /\ UNCHANGED <<of, at, paid, ledger, job>>
      /\ rpc[w] \in {"ok", "limit", "unavailable"}
      /\ \A v \in Wires \ {w} : /\ st'[v] = st[v] /\ asked'[v] = asked[v]
                                /\ rpc'[v] = rpc[v]
                                /\ free'[v] => free[v]
                                /\ stale[v] => stale'[v]
      /\ ~free[w]
  <2>1. ~free[w] /\ rpc[w] \in {"ok", "limit", "unavailable"}
    BY DEF Answer, WaitingUnmarked
  <2>2. CASE AnswerGone(w)
    BY <2>1, <2>2 DEF Answer, AnswerGone, Ends, MarkStale, Unmark
  <2>3. CASE AnswerRetry(w)
    BY <2>1, <2>3 DEF Answer, AnswerRetry, MarkStale, Unmark
  <2>4. CASE AnswerRefused(w)
    BY <2>1, <2>4 DEF Answer, AnswerRefused, Ends, MarkStale, Unmark
  <2>5. CASE AnswerAccepted(w)
    BY <2>1, <2>5 DEF Answer, AnswerAccepted, Ends, MarkStale, Unmark
  <2> QED
    BY <2>2, <2>3, <2>4, <2>5 DEF Answer
<1>2. \/ /\ st'[w] = "out" /\ rpc'[w] = "none" /\ ~free'[w]
      \/ /\ st'[w] = "asking" /\ rpc'[w] = "queued" /\ ~free'[w]
      \/ /\ st'[w] = "open" /\ rpc'[w] = "none"
         /\ free'[w] => st[w] = "asking" /\ rpc[w] = "ok" /\ ~asked[w] /\ ~stale[w]
  <2>1. CASE AnswerGone(w)
    BY <1>1, <2>1 DEF AnswerGone, Ends, Unmark
  <2>2. CASE AnswerRetry(w)
    BY <1>1, <2>2 DEF AnswerRetry, Unmark
  <2>3. CASE AnswerRefused(w)
    BY <1>1, <2>3 DEF AnswerRefused, Ends, Unmark
  <2>4. CASE AnswerAccepted(w)
    BY <2>4 DEF AnswerAccepted, Ends, Changed, Unmark
  <2> QED
    BY <2>1, <2>2, <2>3, <2>4 DEF Answer
<1>3. OneRoomEach'
  BY <1>1 DEF OneRoomEach, AtMostOne
<1>4. RelianceBacked'
  <2> SUFFICES ASSUME NEW v \in Wires, Relies(v)' PROVE BackedNow(v)' /\ BackedByJob(v)'
    BY DEF RelianceBacked
  <2>1. Relies(v)
    BY <1>1, <1>2 DEF Relies, Live
  <2> QED
    BY <1>1, <2>1 DEF RelianceBacked, BackedNow, BackedByJob
<1>5. WaitingUnmarked'
  <2> SUFFICES ASSUME NEW v \in Wires
      PROVE  /\ st'[v] = "asking" => rpc'[v] # "none"
             /\ rpc'[v] # "none" => ~free'[v] /\ st'[v] \in {"asking", "out"}
    BY DEF WaitingUnmarked
  <2>1. CASE v = w
    BY <1>2, <2>1
  <2>2. CASE v # w
    BY <1>1, <2>2 DEF WaitingUnmarked
  <2> QED
    BY <2>1, <2>2
<1>6. ServedByJob'
  BY <1>1, <1>2 DEF ServedByJob
<1>7. CallerUnmarked'
  <2> SUFFICES ASSUME NEW q \in Phones, job[q].w # None
      PROVE  of[job[q].w] = q /\ ~free'[job[q].w] /\ rpc'[job[q].w] \notin {"ok", "limit"}
    BY <1>1 DEF CallerUnmarked
  <2>1. job[q].w \in Wires
    BY DEF Jobs
  <2>2. of[job[q].w] = q /\ ~free[job[q].w] /\ rpc[job[q].w] \notin {"ok", "limit"}
    BY DEF CallerUnmarked
  <2>3. CASE job[q].w = w
    BY <1>2, <2>2, <2>3
  <2>4. CASE job[q].w # w
    <3> DEFINE k == job[q].w
    <3>1. k \in Wires \ {w}
      BY <2>1, <2>4
    <3> HIDE DEF k
    <3>2. (free'[k] => free[k]) /\ rpc'[k] = rpc[k]
      BY <1>1, <3>1
    <3> USE DEF k
    <3> QED
      BY <2>2, <3>2
  <2> QED
    BY <2>3, <2>4
<1> QED
  BY <1>3, <1>4, <1>5, <1>6, <1>7

(* The ledger is written: every room relied on was kept, because none is   *)
(* left to be told.                                                        *)
LEMMA CommitFree ==
  ASSUME FreeInv, TypeOK', NEW p \in Phones, Commit(p)
  PROVE  FreeInv'
<1> USE DEF FreeInv, TypeOK
<1> DEFINE w == job[p].w
<1>1. /\ w \in Wires /\ w # None /\ of[w] = p
      /\ job[p].todo = {} /\ job[p] \in Jobs
      /\ ledger' = [ledger EXCEPT ![p] = job[p].next]
      /\ rpc' = [rpc EXCEPT ![w] = IF @ = "serving" THEN job[p].res ELSE @]
      /\ job' = [job EXCEPT ![p] = Idle]
      /\ UNCHANGED <<of, at, st, free, stale, asked>>
  BY DEF Commit, tagVars, CallerUnmarked, Jobs
<1>2. OneRoomEach'
  BY <1>1 DEF OneRoomEach, AtMostOne, Idle
<1>3. RelianceBacked'
  <2> SUFFICES ASSUME NEW v \in Wires, Relies(v)' PROVE BackedNow(v)' /\ BackedByJob(v)'
    BY DEF RelianceBacked
  <2>1. CASE v = w /\ rpc[w] = "serving"
    <3>1. ~free[w] /\ job[p].res = "ok" /\ ~asked[w]
      BY <1>1, <2>1 DEF Relies, CallerUnmarked, Live
    <3>2. at[w] \in job[p].next
      BY <1>1, <2>1, <3>1 DEF ServedByJob
    <3> QED
      BY <1>1, <2>1, <3>2 DEF BackedNow, BackedByJob, Idle
  <2>2. CASE ~(v = w /\ rpc[w] = "serving")
    <3>1. Relies(v)
      BY <1>1, <2>2 DEF Relies
    <3>2. BackedNow(v) /\ BackedByJob(v)
      BY <3>1 DEF RelianceBacked
    <3>3. CASE of[v] = p
      BY <1>1, <3>2, <3>3 DEF BackedNow, BackedByJob, Idle
    <3>4. CASE of[v] # p
      BY <1>1, <3>2, <3>4 DEF BackedNow, BackedByJob
    <3> QED
      BY <3>3, <3>4
  <2> QED
    BY <2>1, <2>2
<1>4. WaitingUnmarked'
  <2>1. \A v \in Wires : rpc'[v] = "none" <=> rpc[v] = "none"
    BY <1>1 DEF Jobs
  <2> QED
    BY <1>1, <2>1 DEF WaitingUnmarked
<1>5. ServedByJob'
  <2> SUFFICES ASSUME NEW v \in Wires, rpc'[v] = "serving"
      PROVE  /\ job'[of[v]].w = v
             /\ job'[of[v]].lic = asked[v]
             /\ job'[of[v]].res = "ok" /\ ~asked[v] => at[v] \in job'[of[v]].next
    BY <1>1 DEF ServedByJob
  <2>1. v # w /\ rpc[v] = "serving"
    BY <1>1 DEF Jobs
  <2>2. of[v] # p
    BY <2>1 DEF ServedByJob
  <2> QED
    BY <1>1, <2>1, <2>2 DEF ServedByJob
<1>6. CallerUnmarked'
  <2> SUFFICES ASSUME NEW q \in Phones, job'[q].w # None
      PROVE  of[job'[q].w] = q /\ ~free[job'[q].w] /\ rpc'[job'[q].w] \notin {"ok", "limit"}
    BY <1>1 DEF CallerUnmarked
  <2>1. q # p /\ job'[q] = job[q] /\ job[q].w \in Wires
    BY <1>1 DEF Idle, Jobs
  <2>2. of[job[q].w] = q
    BY <2>1 DEF CallerUnmarked
  <2>3. job[q].w # w
    BY <1>1, <2>1, <2>2
  <2> QED
    BY <1>1, <2>1, <2>3 DEF CallerUnmarked
<1> QED
  BY <1>2, <1>3, <1>4, <1>5, <1>6

(* A claim fails halfway: the ledger keeps what it had, which still backs *)
(* every mark that is left.                                               *)
LEMMA FailClaimFree ==
  ASSUME FreeInv, TypeOK', NEW p \in Phones, FailClaim(p)
  PROVE  FreeInv'
<1> USE DEF FreeInv, TypeOK
<1> DEFINE w == job[p].w
<1>1. /\ w \in Wires /\ w # None /\ of[w] = p
      /\ rpc' = [rpc EXCEPT ![w] = IF @ = "serving" THEN "unavailable" ELSE @]
      /\ job' = [job EXCEPT ![p] = Idle]
      /\ UNCHANGED <<of, at, st, free, stale, asked, ledger>>
  BY DEF FailClaim, tagVars, CallerUnmarked, Jobs
<1>2. OneRoomEach'
  BY <1>1 DEF OneRoomEach, AtMostOne, Idle
<1>3. RelianceBacked'
  <2> SUFFICES ASSUME NEW v \in Wires, Relies(v)' PROVE BackedNow(v)' /\ BackedByJob(v)'
    BY DEF RelianceBacked
  <2>1. Relies(v)
    BY <1>1 DEF Relies
  <2>2. BackedNow(v) /\ BackedByJob(v)
    BY <2>1 DEF RelianceBacked
  <2>3. CASE of[v] = p
    BY <1>1, <2>2, <2>3 DEF BackedNow, BackedByJob, Idle
  <2>4. CASE of[v] # p
    BY <1>1, <2>2, <2>4 DEF BackedNow, BackedByJob
  <2> QED
    BY <2>3, <2>4
<1>4. WaitingUnmarked'
  BY <1>1 DEF WaitingUnmarked
<1>5. ServedByJob'
  <2> SUFFICES ASSUME NEW v \in Wires, rpc'[v] = "serving"
      PROVE  /\ job'[of[v]].w = v
             /\ job'[of[v]].lic = asked[v]
             /\ job'[of[v]].res = "ok" /\ ~asked[v] => at[v] \in job'[of[v]].next
    BY <1>1 DEF ServedByJob
  <2>1. v # w /\ rpc[v] = "serving"
    BY <1>1
  <2>2. of[v] # p
    BY <2>1 DEF ServedByJob
  <2> QED
    BY <1>1, <2>1, <2>2 DEF ServedByJob
<1>6. CallerUnmarked'
  <2> SUFFICES ASSUME NEW q \in Phones, job'[q].w # None
      PROVE  of[job'[q].w] = q /\ ~free[job'[q].w] /\ rpc'[job'[q].w] \notin {"ok", "limit"}
    BY <1>1 DEF CallerUnmarked
  <2>1. q # p /\ job'[q] = job[q] /\ job[q].w \in Wires
    BY <1>1 DEF Idle, Jobs
  <2>2. of[job[q].w] = q
    BY <2>1 DEF CallerUnmarked
  <2>3. job[q].w # w
    BY <1>1, <2>1, <2>2
  <2> QED
    BY <1>1, <2>1, <2>3 DEF CallerUnmarked
<1> QED
  BY <1>2, <1>3, <1>4, <1>5, <1>6

(* A room is told: nothing in that room relies on the slot any more, so    *)
(* dropping it from the rooms to be told harms nobody.                     *)
LEMMA TellFree ==
  ASSUME FreeInv, TypeOK', NEW p \in Phones, NEW r \in Rooms, Tell(p, r)
  PROVE  FreeInv'
<1> USE DEF FreeInv, TypeOK
<1> DEFINE w == job[p].w
<1>1. /\ job' = [job EXCEPT ![p] = [job[p] EXCEPT !.todo = @ \ {r}]]
      /\ job[p] \in Jobs
      /\ UNCHANGED <<of, at, asked, rpc, ledger>>
  BY DEF Tell, callVars
<1>2. \A v \in Wires : /\ free'[v] => free[v]
                       /\ stale[v] => stale'[v]
                       /\ st'[v] = st[v] \/ (st[v] # "asking" /\ st'[v] = "out")
  <2>1. CASE TellReleased(p, r)
    BY <2>1 DEF TellReleased, MarkStale, Unmark
  <2>2. CASE TellMoved(p, r)
    BY <2>2 DEF TellMoved, MarkStale, Unmark
  <2> QED
    BY <2>1, <2>2 DEF Tell
<1>3. ASSUME NEW v \in Wires, of[v] = p, at[v] = r, v # w PROVE ~Relies(v)'
  <2>1. st[v] = "asking" => ~free[v]
    BY DEF WaitingUnmarked
  <2>2. CASE TellReleased(p, r)
    <3>1. CASE st[v] = "asking"
      BY <1>1, <1>3, <2>1, <2>2, <3>1
         DEF TellReleased, MarkStale, Unmark, WiresOf, Relies, Live
    <3>2. CASE st[v] # "asking"
      BY <1>1, <1>3, <2>2, <3>2 DEF TellReleased, Unmark, WiresOf, Relies, Live
    <3> QED
      BY <3>1, <3>2
  <2>3. CASE TellMoved(p, r)
    <3>1. CASE st[v] = "asking"
      BY <1>1, <1>2, <1>3, <2>1, <2>3, <3>1 DEF TellMoved, MarkStale, WiresOf, Relies, Live
    <3>2. CASE st[v] # "asking"
      BY <1>1, <1>3, <2>3, <3>2 DEF TellMoved, Unmark, WiresOf, Relies, Live
    <3> QED
      BY <3>1, <3>2
  <2> QED
    BY <2>2, <2>3 DEF Tell
<1>4. ASSUME NEW v \in Wires, v = w PROVE ~Relies(v)'
  <2>1. ~free[v] /\ rpc[v] # "ok"
    BY <1>4, NoneAssumption DEF CallerUnmarked
  <2> QED
    BY <1>1, <1>2, <2>1 DEF Relies
<1>5. OneRoomEach'
  BY <1>1 DEF OneRoomEach, AtMostOne, Jobs
<1>6. RelianceBacked'
  <2> SUFFICES ASSUME NEW v \in Wires, Relies(v)' PROVE BackedNow(v)' /\ BackedByJob(v)'
    BY DEF RelianceBacked
  <2>1. Relies(v)
    BY <1>1, <1>2 DEF Relies, Live
  <2>2. BackedNow(v) /\ BackedByJob(v)
    BY <2>1 DEF RelianceBacked
  <2>3. CASE of[v] = p
    <3>1. at[v] # r
      <4> SUFFICES ASSUME at[v] = r PROVE FALSE
        OBVIOUS
      <4>1. CASE v = w
        BY <1>4, <4>1
      <4>2. CASE v # w
        BY <1>3, <2>3, <4>2
      <4> QED
        BY <4>1, <4>2
    <3> QED
      BY <1>1, <2>2, <2>3, <3>1 DEF BackedNow, BackedByJob, Jobs
  <2>4. CASE of[v] # p
    BY <1>1, <2>2, <2>4 DEF BackedNow, BackedByJob
  <2> QED
    BY <2>3, <2>4
<1>7. WaitingUnmarked'
  BY <1>1, <1>2 DEF WaitingUnmarked
<1>8. \A q \in Phones : /\ job'[q].w = job[q].w /\ job'[q].lic = job[q].lic
                        /\ job'[q].res = job[q].res /\ job'[q].next = job[q].next
  BY <1>1 DEF Jobs
<1>9. ServedByJob'
  BY <1>1, <1>8 DEF ServedByJob
<1>10. CallerUnmarked'
  <2> SUFFICES ASSUME NEW q \in Phones, job[q].w # None
      PROVE  of[job[q].w] = q /\ ~free'[job[q].w] /\ rpc[job[q].w] \notin {"ok", "limit"}
    BY <1>1, <1>8 DEF CallerUnmarked
  <2>1. job[q].w \in Wires
    BY DEF Jobs
  <2>2. of[job[q].w] = q /\ ~free[job[q].w] /\ rpc[job[q].w] \notin {"ok", "limit"}
    BY DEF CallerUnmarked
  <2> DEFINE k == job[q].w
  <2> HIDE DEF k
  <2>3. k \in Wires => (free'[k] => free[k])
    BY <1>2
  <2> USE DEF k
  <2> QED
    BY <2>1, <2>2, <2>3
<1> QED
  BY <1>5, <1>6, <1>7, <1>9, <1>10

(* Every step preserves the inductive invariant, one case per action.     *)
LEMMA StepFree ==
  ASSUME LongLivedWires = FALSE, FreeInv, [Next]_vars
  PROVE  FreeInv'
<1>1. TypeOK'
  BY StepType DEF FreeInv
<1>2. ASSUME NEW w \in Wires, AgentSends(w) PROVE FreeInv'
  <2>1. \A v \in Wires : st'[v] # st[v] =>
          st'[v] = "out" \/ (st[v] = "open" /\ st'[v] = "admitted")
    BY <1>2 DEF AgentSends, Unentitled, FreeInv, TypeOK
  <2>2. UNCHANGED <<of, at, free, asked, ledger, job, rpc, stale>>
    BY <1>2 DEF AgentSends, callVars
  <2> QED
    BY <1>1, <2>1, <2>2, QuietStep
<1>3. ASSUME NEW w \in Wires, WireCloses(w) PROVE FreeInv'
  <2>1. \A v \in Wires : st'[v] # st[v] =>
          st'[v] = "out" \/ (st[v] = "open" /\ st'[v] = "admitted")
    BY <1>3 DEF WireCloses, Live, FreeInv, TypeOK
  <2>2. UNCHANGED <<of, at, free, asked, ledger, job, rpc, stale>>
    BY <1>3 DEF WireCloses, callVars
  <2> QED
    BY <1>1, <2>1, <2>2, QuietStep
<1>4. ASSUME NEW r \in Rooms, PhoneSends(r) PROVE FreeInv'
  <2>1. \A v \in Wires : st'[v] # st[v] =>
          st'[v] = "out" \/ (st[v] = "open" /\ st'[v] = "admitted")
    BY <1>4 DEF PhoneSends, Unentitled, FreeInv, TypeOK
  <2>2. UNCHANGED <<of, at, free, asked, ledger, job, rpc, stale>>
    BY <1>4 DEF PhoneSends, callVars
  <2> QED
    BY <1>1, <2>1, <2>2, QuietStep
<1>5. ASSUME NEW r \in Rooms, TicketArrives(r) PROVE FreeInv'
  BY <1>1, <1>5, QuietStep DEF TicketArrives, callVars, tagVars
<1>6. ASSUME NEW r \in Rooms, TicketExpires(r) PROVE FreeInv'
  BY <1>1, <1>6, QuietStep DEF TicketExpires, callVars, tagVars
<1>7. ASSUME NEW r \in Rooms, TicketRevoked(r) PROVE FreeInv'
  <2>1. \A v \in Wires : st'[v] # st[v] =>
          st'[v] = "out" \/ (st[v] = "open" /\ st'[v] = "admitted")
    BY <1>7 DEF TicketRevoked, FreeInv, TypeOK
  <2>2. UNCHANGED <<of, at, free, asked, ledger, job, rpc, stale>>
    BY <1>7 DEF TicketRevoked, callVars
  <2> QED
    BY <1>1, <2>1, <2>2, QuietStep
<1>8. ASSUME NEW r \in Rooms, AgentGone(r) PROVE FreeInv'
  <2>1. \A v \in Wires : st'[v] # st[v] =>
          st'[v] = "out" \/ (st[v] = "open" /\ st'[v] = "admitted")
    BY <1>8 DEF AgentGone, Live, FreeInv, TypeOK
  <2>2. UNCHANGED <<of, at, free, asked, ledger, job, rpc, stale>>
    BY <1>8 DEF AgentGone, callVars
  <2> QED
    BY <1>1, <2>1, <2>2, QuietStep
<1>9. CASE UNCHANGED vars
  BY <1>1, <1>9, QuietStep DEF vars, callVars, tagVars
<1> QED
  BY <1>1, <1>2, <1>3, <1>4, <1>5, <1>6, <1>7, <1>8, <1>9, ProveFree, StartClaimFree,
     LoseCallFree, AnswerFree, CommitFree, FailClaimFree, TellFree DEF Next

(* Whatever the rooms, the ledgers, the lost calls and the tickets do, no  *)
(* phone ever holds two machines on the free tier, and every mark a room   *)
(* keeps is backed by the phone's ledger, as long as no wire outlives      *)
(* PHONE_IDLE_MS.                                                          *)
THEOREM FreeSlotInvariant ==
  ASSUME LongLivedWires = FALSE
  PROVE  Spec => []FreeInv
<1>1. Init => FreeInv
  BY InitFree
<1>2. FreeInv /\ [Next]_vars => FreeInv'
  BY StepFree
<1> QED
  BY <1>1, <1>2, PTL DEF Spec

(* The inductive invariant gives both properties: two marks of one phone  *)
(* name rooms of one ledger, which holds at most one room.                *)
LEMMA FreeInvImplies == FreeInv => MarkIsBacked /\ OneFreeMachine
<1> SUFFICES ASSUME FreeInv PROVE MarkIsBacked /\ OneFreeMachine
  OBVIOUS
<1>1. MarkIsBacked
  BY DEF FreeInv, RelianceBacked, Relies, BackedNow, MarkIsBacked
<1>2. OneFreeMachine
  BY <1>1 DEF MarkIsBacked, OneFreeMachine, FreeInv, TypeOK, OneRoomEach, AtMostOne
<1> QED
  BY <1>1, <1>2

(* Two wires of one phone marked free are always in the same room.         *)
THEOREM OneFreeMachineHolds ==
  ASSUME LongLivedWires = FALSE
  PROVE  Spec => []OneFreeMachine
BY FreeSlotInvariant, FreeInvImplies, PTL

(* A live wire marked free is always in a room its phone's ledger holds.   *)
THEOREM MarkIsBackedHolds ==
  ASSUME LongLivedWires = FALSE
  PROVE  Spec => []MarkIsBacked
BY FreeSlotInvariant, FreeInvImplies, PTL

-----------------------------------------------------------------------------
(* The ledger of one phone as it is stored.                                *)

\* A ledger: a function on a finite set of rooms.
Ledger(led) ==
  /\ DOMAIN led \subseteq LedgerRooms /\ IsFiniteSet(DOMAIN led)
  /\ led = [r \in DOMAIN led |-> led[r]]
  /\ \A r \in DOMAIN led : led[r] \in [first : Nat, last : Nat]

\* The rooms of a ledger with a better claim than r.
Older(led, r) ==
  {k \in DOMAIN led : \/ led[k].first < led[r].first
                      \/ led[k].first = led[r].first /\ k < r}

LedgerTypes ==
  /\ clock \in Nat /\ max \in Limits
  /\ Ledger(stored)
  /\ passed \subseteq LedgerRooms
  /\ used \in [LedgerRooms -> Nat \cup {None}]

\* A room that was let through and is still in the ledger is among the oldest.
PassedRank ==
  \A r \in passed \cap DOMAIN stored : PhoneLedger!Rank(stored, r) < max

LedgerInv ==
  /\ LedgerTypes
  /\ PassedRank
  /\ PhoneLedger!AgesFromUse
  /\ PhoneLedger!InUseKept

LEMMA LedgerConstants ==
  /\ LedgerRooms \subseteq Nat /\ Limits \subseteq Nat \ {0}
  /\ RoomsMax \in Nat \ {0} /\ IdleTime \in Nat /\ None \notin Nat
BY LedgerAssumption DEF PhoneLedger!PhoneLedgerAssumption

(* The place of a room is the number of the rooms older than it: never more*)
(* than the other rooms there are.                                         *)
LEMMA RankBound ==
  ASSUME NEW led, Ledger(led), NEW r \in DOMAIN led
  PROVE  /\ IsFiniteSet(Older(led, r)) /\ r \notin Older(led, r)
         /\ PhoneLedger!Rank(led, r) = Cardinality(Older(led, r))
         /\ PhoneLedger!Rank(led, r) \in Nat
         /\ PhoneLedger!Rank(led, r) < Cardinality(DOMAIN led)
<1>1. r \in LedgerRooms /\ r \in Nat /\ led[r].first \in Nat
  BY LedgerConstants DEF Ledger
<1>2. r \notin Older(led, r)
  BY <1>1 DEF Older
<1>3. Older(led, r) \in SUBSET DOMAIN led /\ Older(led, r) # DOMAIN led
  BY <1>2 DEF Older
<1>4. PhoneLedger!Rank(led, r) = Cardinality(Older(led, r))
  BY DEF PhoneLedger!Rank, Older, PhoneLedger!Cardinality, Cardinality,
         PhoneLedger!IsFiniteSet, IsFiniteSet
<1>5. /\ IsFiniteSet(Older(led, r))
      /\ Cardinality(Older(led, r)) <= Cardinality(DOMAIN led)
      /\ Cardinality(Older(led, r)) # Cardinality(DOMAIN led)
  BY <1>3, FS_Subset DEF Ledger
<1>6. Cardinality(Older(led, r)) \in Nat /\ Cardinality(DOMAIN led) \in Nat
  BY <1>5, FS_CardinalityType DEF Ledger
<1> QED
  BY <1>2, <1>4, <1>5, <1>6

(* Two rooms never have the same place.                                    *)
LEMMA RankStrict ==
  ASSUME NEW led, Ledger(led), NEW r \in DOMAIN led, NEW k \in DOMAIN led,
         k \in Older(led, r)
  PROVE  PhoneLedger!Rank(led, k) < PhoneLedger!Rank(led, r)
<1>1. DOMAIN led \subseteq Nat /\ \A s \in DOMAIN led : led[s].first \in Nat
  BY LedgerConstants DEF Ledger
<1>2. Older(led, k) \cup {k} \in SUBSET Older(led, r)
  BY <1>1 DEF Older
<1>3. /\ IsFiniteSet(Older(led, r)) /\ IsFiniteSet(Older(led, k))
      /\ k \notin Older(led, k)
  BY RankBound
<1>4. /\ IsFiniteSet(Older(led, k) \cup {k})
      /\ Cardinality(Older(led, k) \cup {k}) = Cardinality(Older(led, k)) + 1
  BY <1>3, FS_AddElement
<1>5. Cardinality(Older(led, k) \cup {k}) <= Cardinality(Older(led, r))
  BY <1>2, <1>3, FS_Subset
<1>6. /\ PhoneLedger!Rank(led, k) = Cardinality(Older(led, k))
      /\ PhoneLedger!Rank(led, k) \in Nat
      /\ PhoneLedger!Rank(led, r) = Cardinality(Older(led, r))
      /\ PhoneLedger!Rank(led, r) \in Nat
  BY RankBound
<1> QED
  BY <1>4, <1>5, <1>6

LEMMA PlacesBound ==
  ASSUME NEW led, Ledger(led), NEW m \in Nat, NEW P \in SUBSET DOMAIN led,
         \A r \in P : PhoneLedger!Rank(led, r) < m
  PROVE  IsFiniteSet(P) /\ Cardinality(P) <= m
<1> DEFINE f == [r \in P |-> PhoneLedger!Rank(led, r)]
           T == 0..(m - 1)
<1>1. IsFiniteSet(P)
  BY FS_Subset DEF Ledger
<1>2. IsFiniteSet(T) /\ Cardinality(T) = m
  BY FS_Interval
<1>3. f \in [P -> T]
  BY RankBound
<1>4. \A x, y \in P : x # y => f[x] # f[y]
  <2> SUFFICES ASSUME NEW x \in P, NEW y \in P, x # y PROVE f[x] # f[y]
    OBVIOUS
  <2>1. DOMAIN led \subseteq Nat /\ \A s \in DOMAIN led : led[s].first \in Nat
    BY LedgerConstants DEF Ledger
  <2>2. x \in Older(led, y) \/ y \in Older(led, x)
    BY <2>1 DEF Older
  <2>3. PhoneLedger!Rank(led, x) \in Nat /\ PhoneLedger!Rank(led, y) \in Nat
    BY RankBound
  <2>4. PhoneLedger!Rank(led, x) # PhoneLedger!Rank(led, y)
    BY <2>2, <2>3, RankStrict
  <2> QED
    BY <2>4
<1>5. Cardinality(P) \in Nat
  BY <1>1, FS_CardinalityType
<1> HIDE DEF f, T
<1>6. ~(Cardinality(T) < Cardinality(P))
  BY <1>1, <1>2, <1>3, <1>4, FS_PigeonHole
<1> QED
  BY <1>1, <1>2, <1>5, <1>6

(* Dropping rooms lets the others move up.                                 *)
LEMMA KeepLedger ==
  ASSUME NEW led, Ledger(led), NEW S \in SUBSET DOMAIN led
  PROVE  /\ Ledger(PhoneLedger!Keep(led, S))
         /\ DOMAIN PhoneLedger!Keep(led, S) = S
         /\ \A r \in S : PhoneLedger!Keep(led, S)[r] = led[r]
         /\ \A r \in S : PhoneLedger!Rank(PhoneLedger!Keep(led, S), r)
                           <= PhoneLedger!Rank(led, r)
<1> DEFINE kept == PhoneLedger!Keep(led, S)
<1>1. kept = [r \in S |-> led[r]]
  BY DEF PhoneLedger!Keep, PhoneLedger!Restrict
<1> HIDE DEF kept
<1>2. IsFiniteSet(S)
  BY FS_Subset DEF Ledger
<1>3. Ledger(kept) /\ DOMAIN kept = S /\ \A r \in S : kept[r] = led[r]
  BY <1>1, <1>2 DEF Ledger
<1>4. ASSUME NEW r \in S PROVE PhoneLedger!Rank(kept, r) <= PhoneLedger!Rank(led, r)
  <2>1. Older(kept, r) \in SUBSET Older(led, r)
    BY <1>3 DEF Older
  <2>2. /\ IsFiniteSet(Older(led, r))
        /\ PhoneLedger!Rank(led, r) = Cardinality(Older(led, r))
    BY RankBound
  <2>3. PhoneLedger!Rank(kept, r) = Cardinality(Older(kept, r))
    BY <1>3, RankBound
  <2> QED
    BY <2>1, <2>2, <2>3, FS_Subset
<1> QED
  BY <1>3, <1>4 DEF kept

(* A room let through again keeps every room's place; a new one leaves as  *)
(* many places as there are rooms.                                         *)
LEMMA WithLedger ==
  ASSUME NEW led, Ledger(led), NEW r \in LedgerRooms, NEW e \in [first : Nat, last : Nat],
         NEW w, w = PhoneLedger!With(led, r, e)
  PROVE  /\ Ledger(w) /\ DOMAIN w = DOMAIN led \cup {r}
         /\ w[r] = e /\ \A k \in DOMAIN led \ {r} : w[k] = led[k]
         /\ r \in DOMAIN led /\ e.first = led[r].first =>
              \A k \in DOMAIN led : PhoneLedger!Rank(w, k) = PhoneLedger!Rank(led, k)
         /\ r \notin DOMAIN led =>
              \A k \in DOMAIN w : PhoneLedger!Rank(w, k) <= Cardinality(DOMAIN led)
<1>1. w = [k \in DOMAIN led \cup {r} |-> IF k = r THEN e ELSE led[k]]
  BY DEF PhoneLedger!With
<1>2. /\ IsFiniteSet(DOMAIN led \cup {r})
      /\ r \notin DOMAIN led =>
           Cardinality(DOMAIN led \cup {r}) = Cardinality(DOMAIN led) + 1
  BY FS_AddElement DEF Ledger
<1>3. DOMAIN w = DOMAIN led \cup {r} /\ w[r] = e /\ \A k \in DOMAIN led \ {r} : w[k] = led[k]
  BY <1>1
<1>4. Ledger(w)
  BY <1>1, <1>2, <1>3 DEF Ledger
<1>5. ASSUME r \in DOMAIN led, e.first = led[r].first, NEW k \in DOMAIN led
      PROVE  PhoneLedger!Rank(w, k) = PhoneLedger!Rank(led, k)
  <2>1. DOMAIN w = DOMAIN led
    BY <1>3, <1>5
  <2>2. \A s \in DOMAIN led : w[s].first = led[s].first
    BY <1>3, <1>5
  <2>3. Older(w, k) = Older(led, k)
    BY <2>1, <2>2 DEF Older
  <2> QED
    BY <1>4, <2>1, <2>3, RankBound
<1>6. ASSUME r \notin DOMAIN led, NEW k \in DOMAIN w
      PROVE  PhoneLedger!Rank(w, k) <= Cardinality(DOMAIN led)
  <2>1. PhoneLedger!Rank(w, k) < Cardinality(DOMAIN w) /\ PhoneLedger!Rank(w, k) \in Nat
    BY <1>4, RankBound
  <2>2. Cardinality(DOMAIN led) \in Nat
    BY FS_CardinalityType DEF Ledger
  <2> QED
    BY <1>2, <1>3, <1>6, <2>1, <2>2
<1> QED
  BY <1>3, <1>4, <1>5, <1>6

\* The rooms of the ledger that were let through less than PHONE_IDLE_MS ago.
Fresh == {r \in DOMAIN stored : clock - stored[r].last <= IdleTime}

LEMMA PruneLedger ==
  ASSUME LedgerTypes
  PROVE  /\ Ledger(PhoneLedger!Prune(stored, clock))
         /\ DOMAIN PhoneLedger!Prune(stored, clock) = Fresh
         /\ \A r \in Fresh : PhoneLedger!Prune(stored, clock)[r] = stored[r]
         /\ \A r \in Fresh : PhoneLedger!Rank(PhoneLedger!Prune(stored, clock), r)
                               <= PhoneLedger!Rank(stored, r)
<1>1. Fresh \in SUBSET DOMAIN stored
  BY DEF Fresh
<1>2. PhoneLedger!Prune(stored, clock) = PhoneLedger!Keep(stored, Fresh)
  BY DEF PhoneLedger!Prune, Fresh
<1> QED
  BY <1>1, <1>2, KeepLedger DEF LedgerTypes

(* A claim of a plain free phone (phoneLedger.ts claimRoom): who is let    *)
(* through has a place within the limit, and who had one keeps it.         *)
LEMMA PlainClaim ==
  ASSUME NEW led, Ledger(led), NEW r \in LedgerRooms, NEW now \in Nat, NEW limit \in Nat
  PROVE  LET c == PhoneLedger!Plain(led, r, now, limit) IN
         /\ c.ok \in BOOLEAN /\ c.told = {} /\ Ledger(c.led)
         /\ ~c.ok => c.led = led
         /\ c.ok => /\ DOMAIN c.led = DOMAIN led \cup {r} /\ c.led[r].last = now
                    /\ \A k \in DOMAIN led \ {r} : c.led[k] = led[k]
                    /\ PhoneLedger!Rank(c.led, r) < limit
                    /\ \A k \in DOMAIN led : PhoneLedger!Rank(led, k) < limit
                                              => PhoneLedger!Rank(c.led, k) < limit
<1> DEFINE n == Cardinality(DOMAIN led)
           may == IF r \in DOMAIN led THEN PhoneLedger!Rank(led, r) < limit
                  ELSE n < limit /\ n < RoomsMax
           e == [first |-> IF r \in DOMAIN led THEN led[r].first ELSE now, last |-> now]
           w == PhoneLedger!With(led, r, e)
           c == PhoneLedger!Plain(led, r, now, limit)
<1>1. c = [ok |-> may, told |-> {}, led |-> IF may THEN w ELSE led]
  BY DEF PhoneLedger!Plain, PhoneLedger!Cardinality, Cardinality,
         PhoneLedger!IsFiniteSet, IsFiniteSet
<1>2. e \in [first : Nat, last : Nat] /\ e.last = now
      /\ (r \in DOMAIN led => e.first = led[r].first)
  BY DEF Ledger
<1> HIDE DEF c, e
<1>3. /\ Ledger(w) /\ DOMAIN w = DOMAIN led \cup {r}
      /\ w[r] = e /\ \A k \in DOMAIN led \ {r} : w[k] = led[k]
      /\ r \in DOMAIN led =>
           \A k \in DOMAIN led : PhoneLedger!Rank(w, k) = PhoneLedger!Rank(led, k)
      /\ r \notin DOMAIN led =>
           \A k \in DOMAIN w : PhoneLedger!Rank(w, k) <= Cardinality(DOMAIN led)
  <2>1. e \in [first : Nat, last : Nat]
    BY <1>2
  <2>2. /\ Ledger(w) /\ DOMAIN w = DOMAIN led \cup {r}
        /\ w[r] = e /\ \A k \in DOMAIN led \ {r} : w[k] = led[k]
        /\ r \in DOMAIN led /\ e.first = led[r].first =>
             \A k \in DOMAIN led : PhoneLedger!Rank(w, k) = PhoneLedger!Rank(led, k)
        /\ r \notin DOMAIN led =>
             \A k \in DOMAIN w : PhoneLedger!Rank(w, k) <= Cardinality(DOMAIN led)
    BY <2>1, WithLedger
  <2> HIDE DEF w
  <2> QED
    BY <1>2, <2>2
<1>4. n \in Nat
  BY FS_CardinalityType DEF Ledger
<1>5. \A k \in DOMAIN w : PhoneLedger!Rank(w, k) \in Nat
  BY <1>3, RankBound
<1>6. may \in BOOLEAN
  <2>1. CASE r \in DOMAIN led
    BY <2>1
  <2>2. CASE r \notin DOMAIN led
    BY <2>2
  <2> QED
    BY <2>1, <2>2
<1>7. ASSUME may
      PROVE  /\ PhoneLedger!Rank(w, r) < limit
             /\ \A k \in DOMAIN led : PhoneLedger!Rank(led, k) < limit
                                       => PhoneLedger!Rank(w, k) < limit
  <2>1. CASE r \in DOMAIN led
    BY <1>3, <1>7, <2>1
  <2>2. CASE r \notin DOMAIN led
    BY <1>3, <1>4, <1>5, <1>7, <2>2
  <2> QED
    BY <2>1, <2>2
<1> HIDE DEF may, w
<1>8. ~c.ok => c.led = led
  BY <1>1
<1>9. c.ok => c.led = w
  BY <1>1
<1> QED
  BY <1>1, <1>2, <1>3, <1>6, <1>7, <1>8, <1>9 DEF c

\* What the outcome c of a claim of room r is to the ledger, to the rooms it tells
\* and to the places of those that stay.
ClaimDoes(c, r, lets) ==
  /\ Ledger(c.led)
  /\ c.told \subseteq LedgerRooms
  /\ DOMAIN c.led \subseteq Fresh \cup (IF lets THEN {r} ELSE {})
  /\ Fresh \ DOMAIN c.led \subseteq c.told
  /\ DOMAIN c.led \cap c.told = {}
  /\ lets => r \in DOMAIN c.led /\ c.led[r].last = clock /\ r \notin c.told
  /\ \A k \in DOMAIN c.led : ~(k = r /\ lets) => c.led[k] = stored[k]
  /\ lets => PhoneLedger!Rank(c.led, r) < max
  /\ \A k \in DOMAIN c.led \cap passed : PhoneLedger!Rank(c.led, k) < max

LEMMA ClaimEffect ==
  ASSUME LedgerTypes, PassedRank,
         NEW r \in LedgerRooms, NEW licensed \in BOOLEAN, NEW takeover \in BOOLEAN
  PROVE  LET c == PhoneLedger!claimRoom(stored, r, licensed, takeover, clock, max)
         IN ClaimDoes(c, r, c.ok /\ ~licensed)
<1> DEFINE led == PhoneLedger!Prune(stored, clock)
           c == PhoneLedger!claimRoom(stored, r, licensed, takeover, clock, max)
           e == [first |-> IF r \in DOMAIN led THEN led[r].first ELSE clock, last |-> clock]
<1>1. /\ Ledger(led) /\ DOMAIN led = Fresh /\ \A k \in Fresh : led[k] = stored[k]
      /\ \A k \in Fresh : PhoneLedger!Rank(led, k) <= PhoneLedger!Rank(stored, k)
  BY PruneLedger
<1>2. Fresh \subseteq DOMAIN stored /\ clock \in Nat /\ max \in Nat \ {0} /\ Ledger(stored)
  BY LedgerConstants DEF Fresh, LedgerTypes
<1>3. \A k \in Fresh \cap passed : PhoneLedger!Rank(led, k) < max
  <2> SUFFICES ASSUME NEW k \in Fresh \cap passed PROVE PhoneLedger!Rank(led, k) < max
    OBVIOUS
  <2>1. PhoneLedger!Rank(stored, k) < max
    BY <1>2 DEF PassedRank
  <2>2. PhoneLedger!Rank(stored, k) \in Nat /\ PhoneLedger!Rank(led, k) \in Nat
    BY <1>1, <1>2, RankBound
  <2> QED
    BY <1>1, <1>2, <2>1, <2>2
<1>4. Fresh \subseteq LedgerRooms
  BY <1>2 DEF Ledger
<1>5. CASE licensed
  <2> DEFINE K == PhoneLedger!Keep(led, DOMAIN led \ {r})
  <2>1. c = [ok |-> TRUE, told |-> DOMAIN led \cap {r}, led |-> K]
    BY <1>5 DEF PhoneLedger!claimRoom
  <2> HIDE DEF c, led
  <2>2. DOMAIN led \ {r} \in SUBSET DOMAIN led
    OBVIOUS
  <2>3. /\ Ledger(K) /\ DOMAIN K = Fresh \ {r}
        /\ \A k \in Fresh \ {r} : K[k] = led[k]
        /\ \A k \in Fresh \ {r} : PhoneLedger!Rank(K, k) <= PhoneLedger!Rank(led, k)
    BY <1>1, <2>2, KeepLedger
  <2> HIDE DEF K
  <2>4. \A k \in (Fresh \ {r}) \cap passed : PhoneLedger!Rank(K, k) < max
    <3> SUFFICES ASSUME NEW k \in (Fresh \ {r}) \cap passed
                 PROVE PhoneLedger!Rank(K, k) < max
      OBVIOUS
    <3>1. PhoneLedger!Rank(K, k) \in Nat /\ PhoneLedger!Rank(led, k) \in Nat
      BY <1>1, <2>3, RankBound
    <3> QED
      BY <1>2, <1>3, <2>3, <3>1
  <2>5. /\ c.ok = TRUE /\ c.told = Fresh \cap {r} /\ c.led = K
    BY <1>1, <2>1
  <2> QED
    BY <1>1, <1>4, <1>5, <2>3, <2>4, <2>5 DEF c, ClaimDoes
<1>6. CASE ~licensed /\ takeover
  <2> DEFINE W == PhoneLedger!With(PhoneLedger!NoRoom, r, e)
  <2>1. c = [ok |-> TRUE, told |-> DOMAIN led \ {r}, led |-> W]
    BY <1>6 DEF PhoneLedger!claimRoom
  <2>2. e \in [first : Nat, last : Nat] /\ e.last = clock
    BY <1>1, <1>2 DEF Ledger
  <2>3. Ledger(PhoneLedger!NoRoom) /\ DOMAIN PhoneLedger!NoRoom = {}
        /\ Cardinality({}) = 0
    BY FS_EmptySet DEF Ledger, PhoneLedger!NoRoom
  <2> HIDE DEF c, led, e
  <2>4. /\ Ledger(W) /\ DOMAIN W = {r} /\ W[r] = e
        /\ PhoneLedger!Rank(W, r) <= 0
    <3> DEFINE none == PhoneLedger!NoRoom
    <3>1. e \in [first : Nat, last : Nat] /\ Ledger(none)
      BY <2>2, <2>3
    <3> HIDE DEF none
    <3>2. /\ Ledger(W) /\ DOMAIN W = DOMAIN none \cup {r}
          /\ W[r] = e /\ \A k \in DOMAIN none \ {r} : W[k] = none[k]
          /\ r \in DOMAIN none /\ e.first = none[r].first =>
               \A k \in DOMAIN none : PhoneLedger!Rank(W, k) = PhoneLedger!Rank(none, k)
          /\ r \notin DOMAIN none =>
               \A k \in DOMAIN W : PhoneLedger!Rank(W, k) <= Cardinality(DOMAIN none)
      BY <3>1, WithLedger DEF none
    <3> HIDE DEF W
    <3> QED
      BY <2>3, <3>2 DEF none
  <2>5. PhoneLedger!Rank(W, r) < max
    BY <1>2, <2>4, RankBound
  <2> HIDE DEF W
  <2>6. /\ c.ok = TRUE /\ c.told = Fresh \ {r} /\ c.led = W
    BY <1>1, <2>1
  <2> QED
    BY <1>4, <1>6, <2>2, <2>4, <2>5, <2>6 DEF c, ClaimDoes
<1>7. CASE ~licensed /\ ~takeover
  <2> DEFINE P == PhoneLedger!Plain(led, r, clock, max)
  <2>1. c = P
    BY <1>7 DEF PhoneLedger!claimRoom
  <2> HIDE DEF c, led
  <2>2. /\ P.ok \in BOOLEAN /\ P.told = {} /\ Ledger(P.led)
        /\ ~P.ok => P.led = led
        /\ P.ok => /\ DOMAIN P.led = DOMAIN led \cup {r} /\ P.led[r].last = clock
                   /\ \A k \in DOMAIN led \ {r} : P.led[k] = led[k]
                   /\ PhoneLedger!Rank(P.led, r) < max
                   /\ \A k \in DOMAIN led : PhoneLedger!Rank(led, k) < max
                                             => PhoneLedger!Rank(P.led, k) < max
    BY <1>1, <1>2, PlainClaim
  <2> HIDE DEF P
  <2>3. CASE P.ok
    BY <1>1, <1>3, <1>7, <2>1, <2>2, <2>3 DEF c, ClaimDoes
  <2>4. CASE ~P.ok
    BY <1>1, <1>3, <1>7, <2>1, <2>2, <2>4 DEF c, ClaimDoes
  <2> QED
    BY <2>3, <2>4
<1> QED
  BY <1>5, <1>6, <1>7

(* A step of the ledger keeps the invariant: a claim, a deployment with    *)
(* another limit, a tick of the clock.                                     *)
LEMMA LedgerClaim ==
  ASSUME LedgerInv, NEW r \in LedgerRooms, NEW licensed \in BOOLEAN,
         NEW takeover \in BOOLEAN, PhoneLedger!Claim(r, licensed, takeover)
  PROVE  LedgerInv'
<1> DEFINE c == PhoneLedger!claimRoom(stored, r, licensed, takeover, clock, max)
           lets == c.ok /\ ~licensed
<1>1. /\ stored' = c.led
      /\ passed' = IF lets THEN (passed \ c.told) \cup {r}
                   ELSE IF licensed THEN passed \ c.told ELSE passed \ {r}
      /\ used' = [k \in LedgerRooms |-> IF k \in c.told THEN None
                                        ELSE IF k = r /\ lets THEN clock ELSE used[k]]
      /\ clock' = clock /\ max' = max
  BY DEF PhoneLedger!Claim
<1>2. LedgerTypes /\ PassedRank /\ PhoneLedger!AgesFromUse /\ PhoneLedger!InUseKept
  BY DEF LedgerInv
<1> HIDE DEF c
<1>3. ClaimDoes(c, r, lets)
  BY <1>2, ClaimEffect DEF c
<1> HIDE DEF lets
<1> USE DEF ClaimDoes
<1>4. LedgerTypes'
  BY <1>1, <1>2, <1>3 DEF LedgerTypes, Ledger
<1>5. PassedRank'
  <2> SUFFICES ASSUME NEW k \in passed' \cap DOMAIN c.led
               PROVE  PhoneLedger!Rank(c.led, k) < max
    BY <1>1 DEF PassedRank
  <2> QED
    BY <1>1, <1>3
<1>6. PhoneLedger!AgesFromUse'
  <2> SUFFICES ASSUME NEW k \in DOMAIN c.led PROVE c.led[k].last = used'[k]
    BY <1>1 DEF PhoneLedger!AgesFromUse
  <2>1. k \in LedgerRooms /\ k \notin c.told
    BY <1>3 DEF Ledger
  <2>2. CASE k = r /\ lets
    BY <1>1, <1>3, <2>1, <2>2
  <2>3. CASE ~(k = r /\ lets)
    <3>1. k \in DOMAIN stored /\ c.led[k] = stored[k]
      BY <1>3, <2>3 DEF Fresh
    <3> QED
      BY <1>1, <1>2, <2>1, <2>3, <3>1 DEF PhoneLedger!AgesFromUse
  <2> QED
    BY <2>2, <2>3
<1>7. PhoneLedger!InUseKept'
  <2> SUFFICES ASSUME NEW k \in LedgerRooms, used'[k] # None, clock - used'[k] <= IdleTime
               PROVE  k \in DOMAIN c.led
    BY <1>1 DEF PhoneLedger!InUseKept
  <2>1. k \notin c.told
    BY <1>1
  <2>2. CASE k = r /\ lets
    BY <1>3, <2>2
  <2>3. CASE ~(k = r /\ lets)
    <3>1. used'[k] = used[k]
      BY <1>1, <2>1, <2>3
    <3>2. k \in DOMAIN stored
      BY <1>2, <3>1 DEF PhoneLedger!InUseKept
    <3>3. stored[k].last = used[k]
      BY <1>2, <3>2 DEF PhoneLedger!AgesFromUse
    <3>4. k \in Fresh
      BY <3>1, <3>2, <3>3 DEF Fresh
    <3> QED
      BY <1>3, <2>1, <3>4
  <2> QED
    BY <2>2, <2>3
<1> QED
  BY <1>4, <1>5, <1>6, <1>7 DEF LedgerInv

LEMMA LedgerStep == LedgerInv /\ [PhoneLedger!Next]_ledgerVars => LedgerInv'
<1> SUFFICES ASSUME LedgerInv, [PhoneLedger!Next]_ledgerVars PROVE LedgerInv'
  OBVIOUS
<1>1. CASE \E r \in LedgerRooms, licensed, takeover \in BOOLEAN :
             PhoneLedger!Claim(r, licensed, takeover)
  BY <1>1, LedgerClaim
<1>2. ASSUME NEW limit \in Limits, PhoneLedger!Deploy(limit) PROVE LedgerInv'
  BY <1>2 DEF PhoneLedger!Deploy, LedgerInv, LedgerTypes, PassedRank,
              PhoneLedger!AgesFromUse, PhoneLedger!InUseKept, Ledger
<1>3. CASE PhoneLedger!Tick
  <2>1. /\ clock' = clock + 1 /\ max' = max /\ stored' = stored
        /\ passed' = passed /\ used' = used /\ clock \in Nat
    BY <1>3 DEF PhoneLedger!Tick, LedgerInv, LedgerTypes
  <2>2. LedgerTypes' /\ PassedRank' /\ PhoneLedger!AgesFromUse'
    BY <2>1 DEF LedgerInv, LedgerTypes, PassedRank, PhoneLedger!AgesFromUse, Ledger
  <2>3. PhoneLedger!InUseKept'
    <3> SUFFICES ASSUME NEW k \in LedgerRooms, used'[k] # None,
                        clock' - used'[k] <= IdleTime
                 PROVE  k \in DOMAIN stored'
      BY DEF PhoneLedger!InUseKept
    <3>1. used[k] \in Nat /\ used[k] # None
      BY <2>1 DEF LedgerInv, LedgerTypes
    <3>2. clock - used[k] <= IdleTime
      BY <2>1, <3>1, LedgerConstants
    <3> QED
      BY <2>1, <3>1, <3>2 DEF LedgerInv, PhoneLedger!InUseKept
  <2> QED
    BY <2>2, <2>3 DEF LedgerInv
<1>4. CASE UNCHANGED ledgerVars
  BY <1>4 DEF ledgerVars, LedgerInv, LedgerTypes, PassedRank,
              PhoneLedger!AgesFromUse, PhoneLedger!InUseKept, Ledger
<1> QED
  BY <1>1, <1>2, <1>3, <1>4 DEF PhoneLedger!Next

(* No more rooms than the limit are in use: those that were let through    *)
(* have different places below it.                                         *)
LEMMA LedgerWithin == LedgerInv => PhoneLedger!WithinLimit
<1> SUFFICES ASSUME LedgerInv PROVE PhoneLedger!WithinLimit
  OBVIOUS
<1> DEFINE led == PhoneLedger!Prune(stored, clock)
           P == passed \cap DOMAIN led
<1>1. /\ Ledger(led) /\ DOMAIN led = Fresh /\ Fresh \subseteq DOMAIN stored
      /\ \A k \in Fresh : PhoneLedger!Rank(led, k) <= PhoneLedger!Rank(stored, k)
  BY PruneLedger DEF LedgerInv, Fresh
<1>2. max \in Nat /\ Ledger(stored) /\ PassedRank
  BY LedgerConstants DEF LedgerInv, LedgerTypes
<1> HIDE DEF led
<1>3. P \in SUBSET DOMAIN led
  OBVIOUS
<1>4. ASSUME NEW r \in P PROVE PhoneLedger!Rank(led, r) < max
  <2>1. r \in DOMAIN led /\ r \in DOMAIN stored /\ r \in passed
    BY <1>1
  <2>2. PhoneLedger!Rank(stored, r) < max
    BY <1>2, <2>1 DEF PassedRank
  <2>3. PhoneLedger!Rank(stored, r) \in Nat /\ PhoneLedger!Rank(led, r) \in Nat
    BY <1>1, <1>2, <2>1, RankBound
  <2> QED
    BY <1>1, <1>2, <2>1, <2>2, <2>3
<1>5. Cardinality(P) <= max
  BY <1>1, <1>2, <1>3, <1>4, PlacesBound
<1> QED
  BY <1>5 DEF led, PhoneLedger!WithinLimit, PhoneLedger!Cardinality, Cardinality,
              PhoneLedger!IsFiniteSet, IsFiniteSet

(* With a limit of one the ledger does what the free tier takes it to.     *)
LEMMA LedgerSlot == LedgerInv => PhoneLedger!SlotOfFreeTier
<1> SUFFICES ASSUME LedgerInv, NEW r \in LedgerRooms, NEW licensed \in BOOLEAN,
                    NEW takeover \in BOOLEAN,
                    Cardinality(DOMAIN PhoneLedger!Prune(stored, clock)) <= 1
             PROVE  LET rooms == DOMAIN PhoneLedger!Prune(stored, clock)
                        c == PhoneLedger!claimRoom(stored, r, licensed, takeover, clock, 1)
                        f == ClaimRoom(rooms, r, licensed, takeover)
                    IN c.ok = (f.res = "ok") /\ DOMAIN c.led = f.next /\ c.told = f.todo
  BY DEF PhoneLedger!SlotOfFreeTier, PhoneLedger!Cardinality, Cardinality,
         PhoneLedger!IsFiniteSet, IsFiniteSet, PhoneLedger!ClaimRoom, ClaimRoom
<1> DEFINE led == PhoneLedger!Prune(stored, clock)
           c == PhoneLedger!claimRoom(stored, r, licensed, takeover, clock, 1)
           e == [first |-> IF r \in DOMAIN led THEN led[r].first ELSE clock, last |-> clock]
           n == Cardinality(DOMAIN led)
<1>1. Ledger(led)
  BY PruneLedger DEF LedgerInv
<1>2. IsFiniteSet(DOMAIN led) /\ n \in Nat /\ n <= 1
  BY <1>1, FS_CardinalityType DEF Ledger
<1>3. CASE licensed
  BY <1>3 DEF PhoneLedger!claimRoom, PhoneLedger!Keep, PhoneLedger!Restrict, ClaimRoom
<1>4. CASE ~licensed /\ takeover
  BY <1>4 DEF PhoneLedger!claimRoom, PhoneLedger!With, PhoneLedger!NoRoom, ClaimRoom
<1>5. CASE ~licensed /\ ~takeover
  <2> DEFINE may == IF r \in DOMAIN led THEN PhoneLedger!Rank(led, r) < 1
                    ELSE n < 1 /\ n < RoomsMax
             f == ClaimRoom(DOMAIN led, r, licensed, takeover)
             w == PhoneLedger!With(led, r, e)
  <2>1. c = PhoneLedger!Plain(led, r, clock, 1)
    BY <1>5 DEF PhoneLedger!claimRoom
  <2>2. c = [ok |-> may, told |-> {}, led |-> IF may THEN w ELSE led]
    BY <2>1 DEF PhoneLedger!Plain, PhoneLedger!Cardinality, Cardinality,
                PhoneLedger!IsFiniteSet, IsFiniteSet
  <2>3. DOMAIN w = DOMAIN led \cup {r}
    BY DEF PhoneLedger!With
  <2>4. f = IF r \in DOMAIN led \/ DOMAIN led = {}
            THEN [res |-> "ok", next |-> DOMAIN led \cup {r}, todo |-> {}]
            ELSE [res |-> "limit", next |-> DOMAIN led, todo |-> {}]
    BY <1>5 DEF ClaimRoom
  <2> SUFFICES c.ok = (f.res = "ok") /\ DOMAIN c.led = f.next /\ c.told = f.todo
    OBVIOUS
  <2> HIDE DEF led, c, e, f, w
  <2>5. CASE r \in DOMAIN led
    <3>1. PhoneLedger!Rank(led, r) \in Nat /\ PhoneLedger!Rank(led, r) < n
      BY <1>1, <2>5, RankBound
    <3>2. may = TRUE
      BY <1>2, <2>5, <3>1
    <3> HIDE DEF may
    <3> QED
      BY <2>2, <2>3, <2>4, <2>5, <3>2
  <2>6. CASE r \notin DOMAIN led /\ DOMAIN led = {}
    <3>1. n = 0
      BY <2>6, FS_EmptySet
    <3>2. may = TRUE
      BY <2>6, <3>1, LedgerConstants
    <3> HIDE DEF may
    <3> QED
      BY <2>2, <2>3, <2>4, <2>6, <3>2
  <2>7. CASE r \notin DOMAIN led /\ DOMAIN led # {}
    <3>1. n # 0
      BY <1>2, <2>7, FS_EmptySet
    <3>2. may = FALSE
      BY <1>2, <2>7, <3>1
    <3> HIDE DEF may
    <3> QED
      BY <2>2, <2>4, <2>7, <3>2
  <2> QED
    BY <2>5, <2>6, <2>7
<1> QED
  BY <1>3, <1>4, <1>5

LEMMA LedgerStarts == MCInit => LedgerInv
<1> SUFFICES ASSUME MCInit PROVE LedgerInv
  OBVIOUS
<1>1. /\ clock = 0 /\ max \in Limits /\ stored = PhoneLedger!NoRoom /\ passed = {}
      /\ used = [r \in LedgerRooms |-> None]
  BY DEF MCInit, PhoneLedger!Init
<1>2. Ledger(stored) /\ DOMAIN stored = {}
  BY <1>1, FS_EmptySet DEF Ledger, PhoneLedger!NoRoom
<1> QED
  BY <1>1, <1>2 DEF LedgerInv, LedgerTypes, PassedRank, PhoneLedger!AgesFromUse,
                    PhoneLedger!InUseKept

(* For any rooms, limits, cap, idle time and clock: no more rooms than the *)
(* limit are in use for free, a room let through lately keeps its place,   *)
(* rooms age from their last use, and a limit of one is what the free tier *)
(* runs on (phoneLedger.ts claimRoom).                                     *)
THEOREM InUseKeptHolds == MCSpec => []InUseKept
<1>1. LedgerInv /\ [MCNext]_<<part, vars, ledgerVars>> => LedgerInv'
  <2> SUFFICES ASSUME LedgerInv, [MCNext]_<<part, vars, ledgerVars>> PROVE LedgerInv'
    OBVIOUS
  <2>1. [PhoneLedger!Next]_ledgerVars
    BY DEF MCNext
  <2> QED
    BY <2>1, LedgerStep
<1>2. LedgerInv => InUseKept
  BY LedgerWithin, LedgerSlot DEF InUseKept, LedgerInv
<1> QED
  BY <1>1, <1>2, LedgerStarts, PTL DEF MCSpec

=============================================================================
