----------------------------- MODULE RoomProofs -----------------------------
(***************************************************************************)
(* Proofs about Room, for any wires and limits: what the agent hears and   *)
(* sends under a number reaches the phone it was meant for or nobody; no   *)
(* phone leaves a slot behind; the first message under a number names the  *)
(* proven key; and the limits hold, under the plan in force.               *)
(***************************************************************************)
EXTENDS Room, FiniteSetTheorems, SequenceTheorems, WellFoundedInduction, TLAPS

-----------------------------------------------------------------------------
(* Queues of messages: whether a queue holds a message of a kind, whether  *)
(* it holds at most one, and whether one kind is always followed by another;*)
(* and what the operations of a queue do to that.                          *)

\* The queue s holds a message of F.
Has(s, F) == \E i \in 1..Len(s) : s[i] \in F
\* It holds at most one.
Once(s, F) == \A i, j \in 1..Len(s) : s[i] \in F /\ s[j] \in F => i = j
\* Behind each message of F there is one of G.
Followed(s, F, G) ==
  \A i \in 1..Len(s) : s[i] \in F => \E j \in 1..Len(s) : i < j /\ s[j] \in G

(* An empty queue holds nothing.                                           *)
LEMMA EmptyQueue ==
  ASSUME NEW F, NEW G
  PROVE  ~Has(<<>>, F) /\ Once(<<>>, F) /\ Followed(<<>>, F, G)
BY DEF Has, Once, Followed

(* A message that joins a queue.                                           *)
LEMMA Joins ==
  ASSUME NEW S, NEW s \in Seq(S), NEW f \in S, NEW F, NEW G
  PROVE  /\ Append(s, f) \in Seq(S)
         /\ Has(Append(s, f), F) <=> (Has(s, F) \/ f \in F)
         /\ Once(s, F) /\ (f \notin F \/ ~Has(s, F)) => Once(Append(s, f), F)
         /\ (Followed(s, F, G) \/ f \in G) /\ f \notin F => Followed(Append(s, f), F, G)
<1> DEFINE t == Append(s, f)
<1>1. /\ t \in Seq(S) /\ Len(t) = Len(s) + 1 /\ t[Len(s) + 1] = f
      /\ \A i \in 1..Len(s) : t[i] = s[i]
  BY AppendProperties
<1>2. Len(s) \in Nat
  OBVIOUS
<1> HIDE DEF t
<1>3. Has(t, F) <=> (Has(s, F) \/ f \in F)
  BY <1>1, <1>2 DEF Has
<1>4. Once(s, F) /\ (f \notin F \/ ~Has(s, F)) => Once(t, F)
  BY <1>1, <1>2 DEF Has, Once
<1>5. (Followed(s, F, G) \/ f \in G) /\ f \notin F => Followed(t, F, G)
  <2> SUFFICES ASSUME Followed(s, F, G) \/ f \in G, f \notin F,
                      NEW i \in 1..Len(t), t[i] \in F
               PROVE  \E j \in 1..Len(t) : i < j /\ t[j] \in G
    BY DEF Followed
  <2>1. i \in 1..Len(s) /\ s[i] \in F
    BY <1>1, <1>2
  <2>2. CASE f \in G
    BY <2>1, <2>2, <1>1, <1>2
  <2>3. CASE Followed(s, F, G)
    <3>1. PICK j \in 1..Len(s) : i < j /\ s[j] \in G
      BY <2>1, <2>3 DEF Followed
    <3> QED
      BY <3>1, <1>1, <1>2
  <2> QED
    BY <2>2, <2>3
<1> QED
  BY <1>1, <1>3, <1>4, <1>5 DEF t

(* The first message leaves a queue.                                       *)
LEMMA Leaves ==
  ASSUME NEW S, NEW s \in Seq(S), s # <<>>, NEW F, NEW G
  PROVE  /\ Head(s) \in S /\ Tail(s) \in Seq(S)
         /\ Has(s, F) <=> (Head(s) \in F \/ Has(Tail(s), F))
         /\ Once(s, F) => Once(Tail(s), F) /\ (Head(s) \in F => ~Has(Tail(s), F))
         /\ Followed(s, F, G) => Followed(Tail(s), F, G) /\ (Head(s) \in F => Has(Tail(s), G))
<1> DEFINE t == Tail(s)
           h == Head(s)
<1>1. /\ h \in S /\ t \in Seq(S) /\ Len(t) = Len(s) - 1
      /\ \A i \in 1..Len(t) : t[i] = s[i + 1]
  BY HeadTailProperties
<1>2. Len(s) \in Nat \ {0} /\ h = s[1]
  BY EmptySeq
<1> HIDE DEF t, h
<1>3. \A i \in 1..Len(s) : i = 1 \/ (i - 1 \in 1..Len(t) /\ t[i - 1] = s[i])
  BY <1>1, <1>2
<1>4. Has(s, F) <=> (h \in F \/ Has(t, F))
  <2>1. Has(s, F) => h \in F \/ Has(t, F)
    BY <1>2, <1>3 DEF Has
  <2>2. h \in F => Has(s, F)
    BY <1>2 DEF Has
  <2>3. Has(t, F) => Has(s, F)
    <3> SUFFICES ASSUME NEW i \in 1..Len(t), t[i] \in F PROVE Has(s, F)
      BY DEF Has
    <3>1. i + 1 \in 1..Len(s) /\ s[i + 1] \in F
      BY <1>1, <1>2
    <3> QED
      BY <3>1 DEF Has
  <2> QED
    BY <2>1, <2>2, <2>3
<1>5. Once(s, F) => Once(t, F)
  <2> SUFFICES ASSUME Once(s, F), NEW i \in 1..Len(t), NEW j \in 1..Len(t), t[i] \in F, t[j] \in F
               PROVE i = j
    BY DEF Once
  <2>1. /\ i + 1 \in 1..Len(s) /\ j + 1 \in 1..Len(s)
        /\ s[i + 1] \in F /\ s[j + 1] \in F
    BY <1>1, <1>2
  <2>2. i + 1 = j + 1
    BY <2>1 DEF Once
  <2> QED
    BY <2>2
<1>6. ASSUME Once(s, F), h \in F PROVE ~Has(t, F)
  <2> SUFFICES ASSUME NEW i \in 1..Len(t), t[i] \in F PROVE FALSE
    BY DEF Has
  <2>1. i + 1 \in 1..Len(s) /\ s[i + 1] \in F /\ 1 \in 1..Len(s) /\ s[1] \in F
    BY <1>1, <1>2, <1>6
  <2>2. i + 1 = 1
    BY <2>1, <1>6 DEF Once
  <2> QED
    BY <2>2
<1>7. ASSUME Followed(s, F, G), NEW i \in 0..Len(t), s[i + 1] \in F
      PROVE  \E j \in 1..Len(t) : i < j /\ t[j] \in G
  <2>1. i + 1 \in 1..Len(s)
    BY <1>1, <1>2
  <2>2. PICK j \in 1..Len(s) : i + 1 < j /\ s[j] \in G
    BY <2>1, <1>7 DEF Followed
  <2>3. j - 1 \in 1..Len(t) /\ t[j - 1] \in G /\ i < j - 1
    BY <2>2, <1>3
  <2> QED
    BY <2>3
<1>8. Followed(s, F, G) => Followed(t, F, G)
  BY <1>1, <1>7 DEF Followed
<1>9. Followed(s, F, G) /\ h \in F => Has(t, G)
  BY <1>1, <1>2, <1>7 DEF Has
<1> QED
  BY <1>1, <1>4, <1>5, <1>6, <1>8, <1>9 DEF t, h

(* One queue behind another.                                               *)
LEMMA Behind ==
  ASSUME NEW S, NEW s \in Seq(S), NEW u \in Seq(S), NEW F
  PROVE  /\ s \o u \in Seq(S)
         /\ Has(s \o u, F) <=> (Has(s, F) \/ Has(u, F))
         /\ Once(s, F) /\ Once(u, F) /\ ~(Has(s, F) /\ Has(u, F)) => Once(s \o u, F)
<1> DEFINE t == s \o u
<1>1. /\ t \in Seq(S) /\ Len(t) = Len(s) + Len(u)
      /\ \A i \in 1..Len(s) + Len(u) : t[i] = IF i <= Len(s) THEN s[i] ELSE u[i - Len(s)]
  BY ConcatProperties
<1>2. Len(s) \in Nat /\ Len(u) \in Nat
  OBVIOUS
<1> HIDE DEF t
<1>3. \A i \in 1..Len(t) : \/ i \in 1..Len(s) /\ t[i] = s[i]
                           \/ i > Len(s) /\ i - Len(s) \in 1..Len(u) /\ t[i] = u[i - Len(s)]
  BY <1>1, <1>2
<1>4. \A i \in 1..Len(s) : i \in 1..Len(t) /\ t[i] = s[i]
  BY <1>1, <1>2
<1>5. \A i \in 1..Len(u) : Len(s) + i \in 1..Len(t) /\ t[Len(s) + i] = u[i]
  <2> TAKE i \in 1..Len(u)
  <2>1. Len(s) + i \in 1..Len(s) + Len(u) /\ ~(Len(s) + i <= Len(s)) /\ (Len(s) + i) - Len(s) = i
    BY <1>2
  <2> QED
    BY <2>1, <1>1
<1>6. Has(t, F) <=> (Has(s, F) \/ Has(u, F))
  <2>1. Has(t, F) => Has(s, F) \/ Has(u, F)
    BY <1>3 DEF Has
  <2>2. Has(s, F) => Has(t, F)
    BY <1>4 DEF Has
  <2>3. Has(u, F) => Has(t, F)
    <3> SUFFICES ASSUME NEW i \in 1..Len(u), u[i] \in F PROVE Has(t, F)
      BY DEF Has
    <3>1. Len(s) + i \in 1..Len(t) /\ t[Len(s) + i] \in F
      BY <1>5
    <3> QED
      BY <3>1 DEF Has
  <2> QED
    BY <2>1, <2>2, <2>3
<1>7. ASSUME Once(s, F), Once(u, F), ~(Has(s, F) /\ Has(u, F)),
             NEW i \in 1..Len(t), NEW j \in 1..Len(t), t[i] \in F, t[j] \in F
      PROVE  i = j
  <2>1. CASE i \in 1..Len(s) /\ t[i] = s[i] /\ j \in 1..Len(s) /\ t[j] = s[j]
    BY <1>7, <2>1 DEF Once
  <2>2. CASE i > Len(s) /\ i - Len(s) \in 1..Len(u) /\ t[i] = u[i - Len(s)]
             /\ j > Len(s) /\ j - Len(s) \in 1..Len(u) /\ t[j] = u[j - Len(s)]
    <3>1. i - Len(s) = j - Len(s)
      BY <1>7, <2>2 DEF Once
    <3> QED
      BY <3>1, <1>2
  <2>3. ~(Has(s, F) /\ Has(u, F))
    BY <1>7
  <2> QED
    BY <2>1, <2>2, <2>3, <1>3, <1>7 DEF Has
<1>8. Once(s, F) /\ Once(u, F) /\ ~(Has(s, F) /\ Has(u, F)) => Once(t, F)
  BY <1>7 DEF Once
<1> QED
  BY <1>1, <1>6, <1>8 DEF t

(* A queue behind another one that adds nothing that must be followed.     *)
LEMMA StillFollowed ==
  ASSUME NEW S, NEW s \in Seq(S), NEW u \in Seq(S), NEW F, NEW G, Followed(s, F, G), ~Has(u, F)
  PROVE  Followed(s \o u, F, G)
<1> DEFINE t == s \o u
<1>1. /\ t \in Seq(S) /\ Len(t) = Len(s) + Len(u) /\ Len(s) \in Nat /\ Len(u) \in Nat
      /\ \A i \in 1..Len(s) : t[i] = s[i]
      /\ \A i \in 1..Len(u) : t[Len(s) + i] = u[i]
  BY ConcatProperties
<1> HIDE DEF t
<1> SUFFICES ASSUME NEW i \in 1..Len(t), t[i] \in F
             PROVE  \E j \in 1..Len(t) : i < j /\ t[j] \in G
  BY DEF Followed, t
<1>2. CASE i <= Len(s)
  <2>1. i \in 1..Len(s) /\ s[i] \in F
    BY <1>1, <1>2
  <2>2. PICK j \in 1..Len(s) : i < j /\ s[j] \in G
    BY <2>1 DEF Followed
  <2> QED BY <1>1, <2>2
<1>3. CASE i > Len(s)
  <2>1. i - Len(s) \in 1..Len(u) /\ i = Len(s) + (i - Len(s))
    BY <1>1, <1>3
  <2>2. u[i - Len(s)] \in F
    BY <1>1, <2>1
  <2> QED BY <2>1, <2>2 DEF Has
<1> QED BY <1>1, <1>2, <1>3

-----------------------------------------------------------------------------
(* The inductive invariant.                                                *)

\* The phone wires that connected, and those whose close has not been handled.
Connected == {d \in PhoneWires : dev[d] # "idle"}
Here == {d \in PhoneWires : dev[d] \in Present \cup {"evicted"}}

\* What is said of number n at agent wire a is said of phone d: by a frame on
\* its way there, by the slot kept there, or by a frame on its way back.
About(n, d) == {f \in Frames : f.n = n /\ f.d = d}
Means(a, n, d) ==
  \/ Has(toAgent[a], About(n, d))
  \/ slot[a][n] # NoSlot /\ slot[a][n].d = d
  \/ \E f \in toRoom : f.a = a /\ f.n = n /\ f.to = d

\* One agent at most; without it nobody is present, and only an agent's wire,
\* while it is open, has anything under way.
OneAgent ==
  /\ \A a, b \in Live : a = b
  /\ Live = {} => \A d \in PhoneWires : dev[d] \notin Present
  /\ \A a \in AgentWires : ag[a] \notin {"live", "retired"} =>
       \A n \in Numbers, d \in PhoneWires : ~Means(a, n, d)

\* Numbers grow: the live agent's is the last one given, and those of the wires
\* still here are different ones up to it.
Numbered ==
  /\ \A a \in AgentWires : last[a] <= Cardinality(Connected)
  /\ \A d \in PhoneWires : num[d] <= Cardinality(Connected)
  /\ \A a \in Live, b \in AgentWires : last[b] <= last[a]
  /\ \A a \in Live, d \in Here : num[d] <= last[a]
  /\ \A d \in Here : num[d] # 0
  /\ \A d, e \in Here : num[d] = num[e] => d = e

\* What is said at an agent's wire of a number is said of one phone, which
\* connected under that number; no other wire here has it, and none will.
OneMeaning ==
  \A a \in AgentWires, n \in Numbers, d \in PhoneWires : Means(a, n, d) =>
    /\ d \in Connected /\ num[d] = n /\ n <= last[a]
    /\ \A e \in Here : num[e] = n => e = d
    /\ \A e \in PhoneWires : Means(a, n, e) => e = d

\* An "opened" on its way to the agent is followed by a "closed" if the phone
\* is gone.
Opens(n, d) == {f \in About(n, d) : f.k = "opened"}
Closes(n) == {f \in Frames : f.k = "closed" /\ f.n = n}
ClosedLater ==
  \A a \in Live, n \in Numbers, d \in PhoneWires : dev[d] = "gone" =>
    /\ Followed(toAgent[a], Opens(n, d), Closes(n))
    /\ slot[a][n] # NoSlot /\ slot[a][n].d = d => Has(toAgent[a], Closes(n))

RoomInv ==
  TypeOK /\ OneAgent /\ Numbered /\ OneMeaning /\ ClosedLater /\ NamesProvenKey

-----------------------------------------------------------------------------
(* Facts about numbers and sets.                                           *)

(* A set of naturals has a least element.                                  *)
LEMMA Least ==
  ASSUME NEW T \in SUBSET Nat, T # {}
  PROVE  \E t \in T : \A y \in T : t <= y
<1> DEFINE R == OpToRel(<, Nat)
<1>1. PICK t \in T : \A y \in T : ~(<<y, t>> \in R)
  <2>1. IsWellFoundedOn(R, Nat)
    BY NatLessThanWellFounded
  <2> HIDE DEF R
  <2> QED BY <2>1, WFMin
<1>2. \A y \in T : ~(y < t)
  BY <1>1 DEF OpToRel
<1> HIDE DEF R
<1> QED BY <1>2

(* A bounded one has a greatest, which Max gives.                          *)
LEMMA MaxOfBounded ==
  ASSUME NEW S \in SUBSET Nat, S # {}, NEW b \in Nat, \A x \in S : x <= b
  PROVE  Max(S) \in S /\ \A y \in S : y <= Max(S)
<1>1. PICK t \in {b - x : x \in S} : \A y \in {b - x : x \in S} : t <= y
  <2> DEFINE T == {b - x : x \in S}
  <2>1. T \subseteq Nat
    OBVIOUS
  <2>2. T # {}
    OBVIOUS
  <2> HIDE DEF T
  <2>3. \E t \in T : \A y \in T : t <= y
    BY <2>1, <2>2, Least
  <2> QED BY <2>3 DEF T
<1>2. PICK m \in S : t = b - m
  OBVIOUS
<1>3. ASSUME NEW y \in S PROVE y <= m /\ m >= y
  <2>1. b - m <= b - y
    BY <1>1, <1>2
  <2> QED BY <2>1
<1> QED BY <1>3 DEF Max

(* The greatest element of a set with one element.                         *)
LEMMA MaxOfOne ==
  ASSUME NEW x \in Nat
  PROVE  Max({x}) = x
BY DEF Max

(* Sets of wires are finite, and so are their sizes.                       *)
LEMMA WireSets ==
  ASSUME NEW S, S \subseteq PhoneWires \/ S \subseteq AgentWires
  PROVE  /\ IsFiniteSet(S) /\ Cardinality(S) \in Nat
         /\ \A T \in SUBSET S : Cardinality(T) <= Cardinality(S)
BY WiresAssumption, FS_Subset, FS_CardinalityType

(* The numbers are the naturals from one up to the number of phone wires.  *)
LEMMA NumbersAreNaturals ==
  /\ Numbers \subseteq Nat /\ 0 \notin Numbers
  /\ \A n \in Nat : n # 0 /\ n <= Cardinality(PhoneWires) => n \in Numbers
  /\ \A n \in Numbers : n <= Cardinality(PhoneWires)
BY WireSets DEF Numbers

-----------------------------------------------------------------------------
(* Facts about the parts of the state.                                     *)

(* What slots and frames are made of.                                      *)
LEMMA SlotFields ==
  ASSUME NEW v \in Slots
  PROVE  /\ v.s \in {"none", "fresh", "up", "dead"}
         /\ v.s # "none" <=> v # NoSlot
         /\ v # NoSlot => v.d \in PhoneWires /\ v = [s |-> v.s, d |-> v.d]
         /\ \A s \in {"up", "dead"} : v # NoSlot =>
              /\ [v EXCEPT !.s = s] = [s |-> s, d |-> v.d]
              /\ [v EXCEPT !.s = s] \in Slots /\ [v EXCEPT !.s = s].d = v.d
              /\ [v EXCEPT !.s = s] # NoSlot
<1>1. CASE v = NoSlot
  BY <1>1 DEF NoSlot
<1>2. CASE v \in [s : {"fresh", "up", "dead"}, d : PhoneWires]
  BY <1>2 DEF NoSlot, Slots
<1> QED BY <1>1, <1>2 DEF Slots

(* Each wire's state after some are evicted.                               *)
LEMMA Evicted ==
  ASSUME NEW dv, NEW ds, NEW d \in PhoneWires
  PROVE  Evict(dv, ds)[d] = IF d \in ds THEN "evicted" ELSE dv[d]
BY DEF Evict

(* Enforcing a plan keeps the entitled wires up to the limit, and evicts   *)
(* the other admitted ones.                                                *)
LEMMA Enforcing ==
  ASSUME NEW p \in BOOLEAN, NEW d \in PhoneWires
  PROVE  /\ Enforced(p)[d] = IF dev[d] = "admitted" /\ d \notin Kept(p) THEN "evicted" ELSE dev[d]
         /\ d \in Kept(p) => dev[d] = "admitted" /\ Entitled(d, p)
BY DEF Enforced, Evict, Admitted, Kept

(* The limits are numbers, and a ticket does not lower them.               *)
LEMMA Limits ==
  ASSUME NEW p \in BOOLEAN
  PROVE  /\ Limit(p) \in Nat /\ Limit(p) <= Limit(TRUE) /\ Limit(p) # 0
         /\ MaxPendingAgents \in Nat \ {0} /\ MaxPendingPhones \in Nat \ {0}
BY LimitsAssumption DEF Limit

-----------------------------------------------------------------------------
(* What a step does to the phones and to the numbers.                      *)

\* How a phone's wire moves from state v to state w once it has connected.
Moves(v, w) ==
  \/ w = v
  \/ v \in Present /\ w \in {"evicted", "gone"}
  \/ v = "evicted" /\ w = "gone"
  \/ v \in Waiting /\ w \in Waiting
  \/ v \in {"making", "open"} /\ w = "admitted"

(* A step moves every phone but the one that connects; only a frame of the  *)
(* agent admits one, and one is gone when its close is handled.            *)
LEMMA PhoneMoves ==
  ASSUME TypeOK, Next, NEW d \in PhoneWires,
         \A e \in PhoneWires, b \in BOOLEAN : ~PhoneConnects(e, b)
  PROVE  /\ Moves(dev[d], dev'[d])
         /\ dev'[d] = "admitted" => dev[d] = "admitted" \/ \E f \in toRoom : FromAgent(f)
         /\ dev'[d] = "gone" => dev[d] = "gone" \/ PhoneCloses(d)
         /\ num' = num
<1> DEFINE Goal == /\ Moves(dev[d], dev'[d])
                   /\ dev'[d] = "admitted" => dev[d] = "admitted" \/ \E f \in toRoom : FromAgent(f)
                   /\ dev'[d] = "gone" => dev[d] = "gone" \/ PhoneCloses(d)
                   /\ num' = num
<1> USE DEF Present, Waiting, Checked
<1>1. dev \in [PhoneWires -> Present \cup {"idle", "evicted", "gone"}] /\ plus \in BOOLEAN
  BY DEF TypeOK
<1>2. \A p \in BOOLEAN : Enforced(p)[d] = dev[d] \/ (dev[d] = "admitted" /\ Enforced(p)[d] = "evicted")
  BY Enforcing
<1>3. dev' = dev /\ num' = num => Goal
  BY DEF Moves
<1>4. dev' = CutAll /\ num' = num => Goal
  BY <1>1, Evicted DEF Moves, CutAll, Evict
<1>5. ASSUME NEW ds, ds \subseteq {e \in PhoneWires : dev[e] \in Present}, dev' = Evict(dev, ds), num' = num
      PROVE  Goal
  BY <1>1, <1>5, Evicted DEF Moves
<1>6. ASSUME NEW p \in BOOLEAN, dev' = Enforced(p), num' = num PROVE Goal
  BY <1>1, <1>2, <1>6 DEF Moves
<1>7. ASSUME NEW e \in PhoneWires, dev[e] \in Present, dev' = Evict(Enforced(plus), {e}), num' = num
      PROVE  Goal
  <2>1. dev'[d] = IF d = e THEN "evicted" ELSE Enforced(plus)[d]
    BY <1>7, Evicted
  <2> QED BY <1>1, <1>2, <1>7, <2>1 DEF Moves
<1>8. ASSUME NEW e \in PhoneWires, NEW w, dev' = [dev EXCEPT ![e] = w], num' = num,
             Moves(dev[e], w), w # "admitted", w = "gone" => PhoneCloses(e)
      PROVE  Goal
  BY <1>1, <1>8 DEF Moves
<1>9. ASSUME NEW f \in toRoom, FromAgent(f) PROVE Goal
  <2>1. num' = num /\ dev'[d] \in {Enforced(plus)[d], "evicted", "admitted"}
        /\ (dev'[d] = Enforced(plus)[d] \/ d \in WireOf(Enforced(plus), f.n))
        /\ (dev'[d] = "admitted" => dev'[d] = Enforced(plus)[d]
                                     \/ Enforced(plus)[d] \in {"making", "open"})
    BY <1>9 DEF FromAgent, Handled, devVars
  <2> QED BY <1>1, <1>2, <1>9, <2>1 DEF Moves, WireOf
<1> SUFFICES Goal
  OBVIOUS
<1> HIDE DEF Goal
<1>10. CASE \E a \in AgentWires : \/ AgentConnects(a) \/ AgentChallenged(a) \/ AgentProves(a)
                                  \/ AgentMisbehaves(a) \/ AgentCloses(a)
  BY <1>3, <1>4, <1>10 DEF AgentConnects, AgentChallenged, AgentProves, AgentMisbehaves, AgentCloses, devVars
<1>11. CASE \E a \in AgentWires, ok \in BOOLEAN : AgentVerified(a, ok) \/ Hear(a, ok)
  BY <1>3, <1>4, <1>11 DEF AgentVerified, Hear, devVars
<1>12. CASE \E a \in AgentWires, n \in Numbers : Speak(a, n) \/ GiveUp(a, n)
  BY <1>3, <1>12 DEF Speak, GiveUp, devVars
<1>13. CASE (\E p \in BOOLEAN : TicketSet(p)) \/ TicketExpires \/ TimePasses
  BY <1>3, <1>6, <1>13 DEF TicketSet, TicketExpires, TimePasses, devVars
<1>14. ASSUME NEW e \in PhoneWires,
              \/ PhoneChallenged(e) \/ PhoneTooSoon(e) \/ PhoneProves(e) \/ PhoneMisbehaves(e) \/ PhoneCloses(e)
       PROVE  Goal
  <2>1. CASE PhoneChallenged(e)
    BY <1>8, <2>1 DEF PhoneChallenged, Moves
  <2>2. CASE PhoneTooSoon(e)
    BY <1>7, <2>2 DEF PhoneTooSoon
  <2>3. CASE PhoneProves(e)
    BY <1>8, <2>3 DEF PhoneProves, Moves
  <2>4. CASE PhoneMisbehaves(e)
    BY <1>5, <2>4 DEF PhoneMisbehaves
  <2>5. CASE PhoneCloses(e)
    BY <1>8, <2>5 DEF PhoneCloses, Moves
  <2> QED BY <1>14, <2>1, <2>2, <2>3, <2>4, <2>5
<1>15. ASSUME NEW e \in PhoneWires, NEW b \in BOOLEAN,
              \/ PhoneHeld(e, b) \/ PhoneVerified(e, b) \/ LedgerAnswers(e, b)
              \/ FreeSlotLeaves(e, b) \/ PhoneSends(e, b)
       PROVE  Goal
  <2>1. CASE PhoneHeld(e, b)
    BY <1>3, <1>5, <2>1 DEF PhoneHeld
  <2>2. CASE PhoneVerified(e, b)
    BY <1>8, <2>2 DEF PhoneVerified, Moves
  <2>3. CASE LedgerAnswers(e, b)
    <3>1. num' = num /\ dev[e] = "asking"
          /\ (dev' = [dev EXCEPT ![e] = "open"] \/ dev' = Evict(dev, {e}))
      BY <2>3 DEF LedgerAnswers
    <3> QED BY <1>5, <1>8, <3>1 DEF Moves
  <2>4. CASE FreeSlotLeaves(e, b)
    BY <1>3, <1>5, <2>4 DEF FreeSlotLeaves
  <2>5. CASE PhoneSends(e, b)
    <3>1. num' = num /\ dev[e] \in {"open", "admitted"}
          /\ (dev' = Enforced(plus) \/ dev' = Evict(Enforced(plus), {e}))
      BY <2>5 DEF PhoneSends
    <3> QED BY <1>1, <1>6, <1>7, <3>1
  <2> QED BY <1>15, <2>1, <2>2, <2>3, <2>4, <2>5
<1> QED BY <1>9, <1>10, <1>11, <1>12, <1>13, <1>14, <1>15 DEF Next, Steps

(* Without a phone that connects the wires of phones only grow fewer.      *)
LEMMA PhonesGrowFewer ==
  ASSUME TypeOK, Next, \A e \in PhoneWires, b \in BOOLEAN : ~PhoneConnects(e, b)
  PROVE  /\ num' = num /\ Connected' = Connected /\ Here' \subseteq Here
         /\ \A d \in PhoneWires : /\ dev'[d] \in Waiting => dev[d] \in Waiting
                                  /\ dev'[d] \in Present => dev[d] \in Present
                                  /\ dev[d] = "gone" => dev'[d] = "gone"
<1> USE DEF Present, Waiting, Checked
<1>1. \A d \in PhoneWires : Moves(dev[d], dev'[d])
  BY PhoneMoves
<1>2. ASSUME NEW d \in PhoneWires
      PROVE  /\ dev'[d] = "idle" <=> dev[d] = "idle"
             /\ dev'[d] \in Present \cup {"evicted"} => dev[d] \in Present \cup {"evicted"}
             /\ dev'[d] \in Waiting => dev[d] \in Waiting
             /\ dev'[d] \in Present => dev[d] \in Present
             /\ dev[d] = "gone" => dev'[d] = "gone"
  BY <1>1 DEF Moves
<1>3. num' = num
  <2>1. CASE PhoneWires = {}
    BY <2>1 DEF Next, Steps, AgentConnects, AgentChallenged, AgentProves, AgentMisbehaves, AgentCloses,
                AgentVerified, Hear, Speak, GiveUp, TicketSet, TicketExpires, TimePasses, FromAgent, devVars
  <2>2. CASE PhoneWires # {}
    BY <2>2, PhoneMoves
  <2> QED BY <2>1, <2>2
<1>4. Connected' = Connected
  BY <1>2 DEF Connected
<1>5. Here' \subseteq Here
  BY <1>2 DEF Here
<1> QED BY <1>2, <1>3, <1>4, <1>5

(* The number of the next phone.                                           *)
LEMMA NextNumber ==
  ASSUME TypeOK, OneAgent, Numbered, NEW a \in Live, NEW d \in PhoneWires, dev[d] = "idle"
  PROVE  /\ Max({last[b] : b \in Live}) = last[a]
         /\ Cardinality(Connected \cup {d}) = Cardinality(Connected) + 1
         /\ last[a] + 1 \in Numbers /\ last[a] + 1 <= Cardinality(Connected) + 1
<1>1. last[a] \in Nat /\ Live = {a}
  <2>1. a \in AgentWires
    BY DEF Live
  <2>2. \A b \in Live : b = a
    BY DEF OneAgent
  <2>3. last[a] \in Numbers \cup {0}
    BY <2>1 DEF TypeOK
  <2>4. Live = {a}
    BY <2>2
  <2>5. Numbers \cup {0} \subseteq Nat
    BY NumbersAreNaturals
  <2>6. last[a] \in Nat
    BY <2>3, <2>5
  <2> QED BY <2>4, <2>6
<1>2. {last[b] : b \in Live} = {last[a]}
  BY <1>1
<1>3. Max({last[b] : b \in Live}) = last[a]
  BY <1>1, <1>2, MaxOfOne
<1>4. IsFiniteSet(Connected) /\ d \notin Connected /\ Connected \cup {d} \subseteq PhoneWires
  BY WireSets DEF Connected
<1>5. Cardinality(Connected \cup {d}) = Cardinality(Connected) + 1 /\ Cardinality(Connected) \in Nat
  BY <1>4, FS_AddElement, FS_CardinalityType
<1>6. Cardinality(Connected \cup {d}) <= Cardinality(PhoneWires) /\ Cardinality(PhoneWires) \in Nat
  BY <1>4, WireSets
<1>7. last[a] <= Cardinality(Connected)
  BY DEF Numbered, Live
<1> QED BY <1>1, <1>3, <1>5, <1>6, <1>7, NumbersAreNaturals

(* The number a new agent goes on from.                                    *)
LEMMA CarriedNumber ==
  ASSUME TypeOK, Numbered
  PROVE  /\ Carried \in Numbers \cup {0} /\ Carried <= Cardinality(Connected)
         /\ \A b \in AgentWires : last[b] <= Carried
         /\ \A d \in Here : num[d] <= Carried
<1> DEFINE S == {last[b] : b \in AgentWires} \cup {num[d] : d \in Here} \cup {0}
<1>1. Cardinality(Connected) \in Nat /\ S \subseteq Numbers \cup {0} /\ Numbers \subseteq Nat
  <2>1. {last[b] : b \in AgentWires} \subseteq Numbers \cup {0}
    BY DEF TypeOK
  <2>2. {num[d] : d \in Here} \subseteq Numbers \cup {0}
    BY DEF TypeOK, Here
  <2> QED BY <2>1, <2>2, WireSets, NumbersAreNaturals DEF Connected
<1>2. \A x \in S : x <= Cardinality(Connected)
  <2>1. \A b \in AgentWires : last[b] <= Cardinality(Connected)
    BY DEF Numbered
  <2>2. \A d \in Here : num[d] <= Cardinality(Connected)
    BY DEF Numbered, Here
  <2> QED BY <1>1, <2>1, <2>2
<1>3. Carried = Max(S)
  BY DEF Carried, Here
<1>4. (\A b \in AgentWires : last[b] \in S) /\ (\A d \in Here : num[d] \in S)
  OBVIOUS
<1> HIDE DEF S
<1>5. S \in SUBSET Nat /\ S # {}
  <2>1. 0 \in S
    BY DEF S
  <2> QED BY <1>1, <2>1
<1>6. Max(S) \in S /\ \A y \in S : y <= Max(S)
  BY <1>1, <1>2, <1>5, MaxOfBounded
<1> QED BY <1>1, <1>2, <1>3, <1>4, <1>6

\* A phone that connects is refused, or gets the next number of agent a; the
\* agent is told of it at once on a self-hosted relay.
Refused(d) == dev'[d] = "idle" /\ UNCHANGED <<last, num, toAgent>>
Opened(a, d) == [k |-> "opened", n |-> last[a] + 1, d |-> d, good |-> TRUE]
GetsNumber(d, a) ==
  /\ dev'[d] \in {"open", "making", "evicted"} /\ last[a] + 1 \in Numbers
  /\ num' = [num EXCEPT ![d] = last[a] + 1] /\ last' = [last EXCEPT ![a] = last[a] + 1]
  /\ \/ toAgent' = toAgent
     \/ selfHosted /\ dev'[d] = "open" /\ toAgent' = [toAgent EXCEPT ![a] = Append(@, Opened(a, d))]
Connects(d, a) ==
  /\ Live = {a} /\ ag' = ag /\ dev[d] = "idle" /\ toRoom' = toRoom /\ slot' = slot
  /\ \A e \in PhoneWires \ {d} : dev'[e] = dev[e] \/ (dev[e] \in Waiting /\ dev'[e] = "evicted")
  /\ Refused(d) \/ GetsNumber(d, a)

(* A phone that connects is refused or gets a number.                      *)
LEMMA Connecting ==
  ASSUME TypeOK, OneAgent, Numbered, NEW d \in PhoneWires, NEW b \in BOOLEAN, PhoneConnects(d, b)
  PROVE  \E a \in Live : Connects(d, a)
<1> DEFINE waiting == {e \in PhoneWires : dev[e] \in Waiting}
           swept   == {e \in waiting : late[e]}
           left    == waiting \ swept
           oldest  == IF Cardinality(left) < MaxPendingPhones THEN {}
                      ELSE {e \in left : \A f \in left : num[e] <= num[f]}
           refused == Cardinality(Admitted) >= Limit(plus)
<1>1. PICK a \in Live : TRUE
  BY DEF PhoneConnects
<1> DEFINE n == last[a] + 1
           out == IF selfHosted THEN "open" ELSE IF b THEN "making" ELSE "evicted"
<1>2. dev[d] = "idle" /\ ag' = ag /\ toRoom' = toRoom /\ slot' = slot
  BY DEF PhoneConnects
<1>3. Live = {a} /\ a \in AgentWires
  BY <1>1 DEF OneAgent, Live
<1>4. n \in Numbers /\ Max({last[c] : c \in Live}) = last[a]
  BY <1>1, <1>2, NextNumber
<1>5. IF refused
      THEN dev' = Evict(dev, swept) /\ UNCHANGED <<last, num, toAgent>>
      ELSE /\ dev' = [Evict(dev, swept \cup oldest) EXCEPT ![d] = out]
           /\ num' = [num EXCEPT ![d] = n]
           /\ last' = [c \in AgentWires |-> IF c \in Live THEN n ELSE last[c]]
           /\ Tell(IF selfHosted
                   THEN <<[k |-> "opened", n |-> n, d |-> d, good |-> TRUE]>> ELSE <<>>)
  BY <1>4 DEF PhoneConnects
<1>6. d \notin waiting /\ swept \subseteq waiting /\ oldest \subseteq waiting
  BY <1>2 DEF Waiting, Checked
<1>7. dev \in [PhoneWires -> Present \cup {"idle", "evicted", "gone"}]
      /\ last \in [AgentWires -> Numbers \cup {0}] /\ toAgent \in [AgentWires -> Seq(Frames)]
  BY DEF TypeOK
<1> HIDE DEF swept, left, oldest, refused, n
<1> SUFFICES Connects(d, a)
  BY <1>1
<1>8. CASE refused
  <2>1. /\ dev'[d] = dev[d]
        /\ \A e \in PhoneWires : dev'[e] = dev[e] \/ (dev[e] \in Waiting /\ dev'[e] = "evicted")
    BY <1>5, <1>6, <1>8, Evicted
  <2> QED BY <1>1, <1>2, <1>3, <1>5, <1>8, <2>1 DEF Connects, Refused
<1>9. CASE ~refused
  <2>1. \A e \in PhoneWires \ {d} : dev'[e] = dev[e] \/ (dev[e] \in Waiting /\ dev'[e] = "evicted")
    <3>1. \A e \in PhoneWires \ {d} : dev'[e] = Evict(dev, swept \cup oldest)[e]
      BY <1>5, <1>9 DEF Evict
    <3> QED BY <1>6, <3>1, Evicted
  <2>2. dev'[d] = out
    BY <1>5, <1>9 DEF Evict
  <2>3. last' = [last EXCEPT ![a] = n]
    BY <1>3, <1>5, <1>7, <1>9
  <2>4. CASE selfHosted
    <3> DEFINE f == [k |-> "opened", n |-> n, d |-> d, good |-> TRUE]
    <3>1. f \in Frames /\ f = Opened(a, d)
      BY <1>4 DEF Frames, n, Opened
    <3>2. Tell(<<f>>)
      BY <1>5, <1>9, <2>4
    <3> HIDE DEF f
    <3>3. toAgent[a] \o <<f>> = Append(toAgent[a], f)
      BY <1>3, <1>7, <3>1
    <3>4. toAgent' = [toAgent EXCEPT ![a] = Append(@, f)]
      BY <1>3, <1>7, <3>2, <3>3 DEF Tell
    <3> QED BY <1>1, <1>2, <1>3, <1>4, <1>5, <1>9, <2>1, <2>2, <2>3, <2>4, <3>1, <3>4 DEF n, Connects, GetsNumber
  <2>5. CASE ~selfHosted
    <3>1. Tell(<<>>)
      BY <1>5, <1>9, <2>5
    <3>2. toAgent' = toAgent
      BY <1>7, <3>1 DEF Tell
    <3> QED BY <1>1, <1>2, <1>3, <1>4, <1>5, <1>9, <2>1, <2>2, <2>3, <2>5, <3>2 DEF n, Connects, GetsNumber
  <2> QED BY <2>4, <2>5
<1> QED BY <1>8, <1>9

-----------------------------------------------------------------------------
(* Types.                                                                  *)

DevStates == Present \cup {"idle", "evicted", "gone"}

(* Types of the helpers on the wires of phones.                            *)
LEMMA DevTypes ==
  ASSUME NEW dv \in [PhoneWires -> DevStates]
  PROVE  /\ \A ds \in SUBSET PhoneWires : Evict(dv, ds) \in [PhoneWires -> DevStates]
         /\ \A f \in Replies : Handled(dv, f) \in [PhoneWires -> DevStates]
BY DEF Evict, Handled, DevStates, Present

(* Evicting and enforcing leave states of wires.                           *)
LEMMA EvictTypes ==
  ASSUME TypeOK
  PROVE  /\ dev \in [PhoneWires -> DevStates] /\ CutAll \in [PhoneWires -> DevStates]
         /\ \A p \in BOOLEAN : Enforced(p) \in [PhoneWires -> DevStates]
         /\ \A ds \in SUBSET PhoneWires : /\ Evict(dev, ds) \in [PhoneWires -> DevStates]
                                          /\ Evict(Enforced(plus), ds) \in [PhoneWires -> DevStates]
<1>1. dev \in [PhoneWires -> DevStates] /\ plus \in BOOLEAN
  BY DEF TypeOK, DevStates
<1>2. CutAll \in [PhoneWires -> DevStates]
  BY <1>1, DevTypes DEF CutAll
<1>3. \A p \in BOOLEAN : Enforced(p) \in [PhoneWires -> DevStates]
  BY <1>1, DevTypes DEF Enforced, Admitted
<1> QED BY <1>1, <1>2, <1>3, DevTypes

(* A frame of a wire that is here has a number, and a queue it joins stays *)
(* a queue of frames.                                                      *)
LEMMA FrameTypes ==
  ASSUME TypeOK, Numbered, NEW d \in Here, NEW k \in {"opened", "data", "closed"}, NEW g \in BOOLEAN
  PROVE  Frame(k, d, g) \in Frames
BY DEF TypeOK, Numbered, Here, Frame, Frames

(* What the agent is told joins queues of frames.                          *)
LEMMA TellTypes ==
  ASSUME TypeOK, NEW fs \in Seq(Frames), Tell(fs)
  PROVE  toAgent' \in [AgentWires -> Seq(Frames)]
BY DEF TypeOK, Tell

(* What the agent does at its end of a wire.                               *)
LEMMA AgentEndTypes ==
  ASSUME TypeOK, NEW a \in AgentWires, NEW n \in Numbers,
         (\E ok \in BOOLEAN : Hear(a, ok)) \/ Speak(a, n) \/ GiveUp(a, n)
  PROVE  /\ toAgent' \in [AgentWires -> Seq(Frames)] /\ toRoom' \subseteq Replies
         /\ slot' \in [AgentWires -> [Numbers -> Slots]]
<1>1. /\ toAgent \in [AgentWires -> Seq(Frames)] /\ toRoom \subseteq Replies
      /\ slot \in [AgentWires -> [Numbers -> Slots]]
  BY DEF TypeOK
<1>2. \A m \in Numbers, v \in Slots : SetSlot(a, m, v) => slot' \in [AgentWires -> [Numbers -> Slots]]
  BY <1>1 DEF SetSlot
<1>3. NoSlot \in Slots /\ \A m \in Numbers : slot[a][m] \in Slots
  BY <1>1 DEF Slots
<1>4. \A m \in Numbers, k \in {"data", "drop"} : slot[a][m] # NoSlot =>
        [a |-> a, k |-> k, n |-> m, to |-> slot[a][m].d] \in Replies
  BY <1>3, SlotFields DEF Replies
<1>5. ASSUME NEW ok \in BOOLEAN, Hear(a, ok)
      PROVE  /\ toAgent' \in [AgentWires -> Seq(Frames)] /\ toRoom' \subseteq Replies
             /\ slot' \in [AgentWires -> [Numbers -> Slots]]
  <2> DEFINE f == Head(toAgent[a])
             v == slot[a][f.n]
  <2>1. toAgent[a] # <<>> /\ toAgent' = [toAgent EXCEPT ![a] = Tail(@)]
        /\ (HearOpened(a, f) \/ HearClosed(a, f) \/ HearData(a, f, ok))
    BY <1>5 DEF Hear
  <2>2. f \in Frames /\ Tail(toAgent[a]) \in Seq(Frames)
    BY <1>1, <2>1
  <2>3. f.n \in Numbers /\ f.d \in PhoneWires
    BY <2>2 DEF Frames
  <2>4. toAgent' \in [AgentWires -> Seq(Frames)]
    BY <1>1, <2>1, <2>2
  <2> HIDE DEF f
  <2>5. CASE HearOpened(a, f)
    <3>1. [s |-> "fresh", d |-> f.d] \in Slots
      BY <2>3 DEF Slots
    <3> QED BY <1>1, <1>2, <2>3, <2>4, <2>5, <3>1 DEF HearOpened
  <2>6. CASE HearClosed(a, f)
    BY <1>1, <1>2, <1>3, <2>3, <2>4, <2>6 DEF HearClosed
  <2>7. CASE HearData(a, f, ok) /\ v.s \in {"fresh", "up"}
    <3> DEFINE w == [v EXCEPT !.s = IF ok THEN "up" ELSE "dead"]
               ks == (IF ok \/ v.s = "up" THEN {"data"} ELSE {}) \cup (IF ok THEN {} ELSE {"drop"})
    <3>1. v \in Slots /\ v # NoSlot
      BY <1>3, <2>3, <2>7, SlotFields
    <3>2. w \in Slots
      BY <3>1, SlotFields
    <3>3. ks \subseteq {"data", "drop"} /\ SetSlot(a, f.n, w)
          /\ toRoom' = toRoom \cup {[a |-> a, k |-> k, n |-> f.n, to |-> v.d] : k \in ks}
      BY <2>7 DEF HearData
    <3> HIDE DEF w, ks
    <3>4. {[a |-> a, k |-> k, n |-> f.n, to |-> v.d] : k \in ks} \subseteq Replies
      BY <1>4, <2>3, <3>1, <3>3
    <3> QED BY <1>1, <1>2, <2>3, <2>4, <3>2, <3>3, <3>4
  <2>8. CASE HearData(a, f, ok) /\ v.s \notin {"fresh", "up"}
    BY <1>1, <2>4, <2>8 DEF HearData
  <2> QED BY <2>1, <2>5, <2>6, <2>7, <2>8
<1>6. CASE Speak(a, n)
  <2>1. slot[a][n] # NoSlot
    BY <1>3, <1>6, SlotFields DEF Speak
  <2>2. [a |-> a, k |-> "data", n |-> n, to |-> slot[a][n].d] \in Replies
    BY <1>4, <2>1
  <2> QED BY <1>1, <1>6, <2>2 DEF Speak
<1>7. CASE GiveUp(a, n)
  <2>1. slot[a][n] # NoSlot
    BY <1>3, <1>7, SlotFields DEF GiveUp
  <2>2. [a |-> a, k |-> "drop", n |-> n, to |-> slot[a][n].d] \in Replies
        /\ [slot[a][n] EXCEPT !.s = "dead"] \in Slots
    BY <1>3, <1>4, <2>1, SlotFields
  <2> QED BY <1>1, <1>2, <1>7, <2>2 DEF GiveUp
<1> QED BY <1>5, <1>6, <1>7

-----------------------------------------------------------------------------
(* What is under way between the room and the agents' ends.                *)

\* The frames the agent is told at once about a phone that is here.
Tellings(d) ==
  {<<Frame("closed", d, TRUE)>>, <<Frame("opened", d, TRUE)>>,
   Append(<<Frame("opened", d, TRUE)>>, Frame("data", d, TRUE))} \cup
  {<<Frame("data", d, g)>> : g \in {h \in BOOLEAN : h \/ selfHosted}}

\* The step that tells the agent of phone d: its close, the ledger's answer under
\* the plan of that moment, or a message it sends.
TellsOf(d) ==
  \/ PhoneCloses(d)
  \/ dev[d] = "asking" /\ dev'[d] = "open" /\ (plus' \/ free'[d])
  \/ \E b \in BOOLEAN : PhoneSends(d, b)

(* A step that is not one of the agent's end, of a connecting phone or of  *)
(* a closing agent tells the agent of one phone, or nothing; a frame of    *)
(* the agent goes when it is handled.                                      *)
LEMMA Carrying ==
  ASSUME TypeOK, Numbered, Next
  PROVE  \/ /\ UNCHANGED <<toAgent, slot>> /\ toRoom' \subseteq toRoom
            /\ toRoom' = toRoom \/ \E f \in toRoom : FromAgent(f)
         \/ \E d \in Here : \E fs \in Tellings(d) :
              Tell(fs) /\ UNCHANGED <<toRoom, slot, ag, last>> /\ TellsOf(d)
         \/ \E a \in AgentWires, ok \in BOOLEAN : Hear(a, ok)
         \/ \E a \in AgentWires, n \in Numbers : Speak(a, n) \/ GiveUp(a, n)
         \/ \E a \in AgentWires : AgentCloses(a)
         \/ \E d \in PhoneWires, b \in BOOLEAN : PhoneConnects(d, b)
<1> DEFINE Still == /\ UNCHANGED <<toAgent, slot>> /\ toRoom' \subseteq toRoom
                    /\ toRoom' = toRoom \/ \E f \in toRoom : FromAgent(f)
           Telling == \E d \in Here : \E fs \in Tellings(d) :
                        Tell(fs) /\ UNCHANGED <<toRoom, slot, ag, last>> /\ TellsOf(d)
<1>1. CASE \E a \in AgentWires : \/ AgentConnects(a) \/ AgentChallenged(a) \/ AgentProves(a)
                                 \/ AgentMisbehaves(a)
  BY <1>1 DEF AgentConnects, AgentChallenged, AgentProves, AgentMisbehaves
<1>2. CASE \E a \in AgentWires, ok \in BOOLEAN : AgentVerified(a, ok)
  BY <1>2 DEF AgentVerified
<1>3. CASE (\E p \in BOOLEAN : TicketSet(p)) \/ TicketExpires \/ TimePasses \/ \E f \in toRoom : FromAgent(f)
  BY <1>3 DEF TicketSet, TicketExpires, TimePasses, FromAgent
<1>4. ASSUME NEW d \in PhoneWires,
             PhoneChallenged(d) \/ PhoneTooSoon(d) \/ PhoneProves(d) \/ PhoneMisbehaves(d)
      PROVE  Still
  BY <1>4 DEF PhoneChallenged, PhoneTooSoon, PhoneProves, PhoneMisbehaves
<1>5. ASSUME NEW d \in PhoneWires, PhoneCloses(d) PROVE Telling
  <2>1. d \in Here
    BY <1>5 DEF PhoneCloses, Here
  <2>2. TellsOf(d)
    BY <1>5 DEF TellsOf
  <2> QED BY <1>5, <2>1, <2>2 DEF PhoneCloses, agVars, Tellings
<1>6. ASSUME NEW d \in PhoneWires, NEW b \in BOOLEAN,
             PhoneHeld(d, b) \/ PhoneVerified(d, b) \/ FreeSlotLeaves(d, b)
      PROVE  Still
  BY <1>6 DEF PhoneHeld, PhoneVerified, FreeSlotLeaves
<1>7. ASSUME NEW d \in PhoneWires, NEW b \in BOOLEAN, LedgerAnswers(d, b)
      PROVE  Still \/ Telling
  <2>1. d \in Here
    BY <1>7 DEF LedgerAnswers, Here, Present, Waiting, Checked
  <2>2. UNCHANGED <<toRoom, slot, ag, last>>
    BY <1>7 DEF LedgerAnswers, agVars
  <2>3. \/ toAgent' = toAgent
        \/ TellsOf(d) /\ Tell(<<Frame("opened", d, TRUE)>> \o <<Frame("data", d, TRUE)>>)
        \/ TellsOf(d) /\ Tell(<<Frame("opened", d, TRUE)>> \o <<>>)
    <3>1. dev' = [dev EXCEPT ![d] = "open"] /\ free' = [free EXCEPT ![d] = ~plus] => TellsOf(d)
      <4>1. plus' = plus /\ plus \in BOOLEAN /\ dev[d] = "asking"
        BY <1>7 DEF LedgerAnswers, TypeOK, agVars
      <4> QED BY <4>1 DEF TellsOf, TypeOK
    <3> QED BY <1>7, <3>1 DEF LedgerAnswers
  <2>4. ASSUME NEW f \in Frames, NEW g \in Frames
        PROVE  <<f>> \o <<g>> = Append(<<f>>, g) /\ <<f>> \o <<>> = <<f>>
    <3>1. <<f>> \in Seq(Frames) /\ <<g>> \in Seq(Frames)
      OBVIOUS
    <3> QED BY <3>1, AppendIsConcat, ConcatEmptySeq
  <2>5. Frame("opened", d, TRUE) \in Frames /\ Frame("data", d, TRUE) \in Frames
    BY <2>1, FrameTypes
  <2> QED BY <2>1, <2>2, <2>3, <2>4, <2>5 DEF Tellings
<1>8. ASSUME NEW d \in PhoneWires, NEW b \in BOOLEAN, PhoneSends(d, b)
      PROVE  Still \/ Telling
  <2>1. d \in Here
    BY <1>8 DEF PhoneSends, Here, Present, Waiting
  <2>2. UNCHANGED <<toRoom, slot, ag, last>>
    BY <1>8 DEF PhoneSends, agVars
  <2>3. \/ toAgent' = toAgent
        \/ (selfHosted \/ bound[d] \/ b) /\ Tell(<<Frame("data", d, b \/ bound[d])>>)
    BY <1>8 DEF PhoneSends
  <2>4. bound[d] \in BOOLEAN /\ selfHosted \in BOOLEAN
    BY DEF TypeOK
  <2>5. TellsOf(d)
    BY <1>8 DEF TellsOf
  <2> QED BY <2>1, <2>2, <2>3, <2>4, <2>5 DEF Tellings
<1> QED BY <1>1, <1>2, <1>3, <1>4, <1>5, <1>6, <1>7, <1>8 DEF Next, Steps

(* Those frames are frames about that phone under its number, named by its *)
(* proven key.                                                             *)
LEMMA TellingFrames ==
  ASSUME TypeOK, Numbered, NEW d \in Here, NEW fs \in Tellings(d)
  PROVE  /\ fs \in Seq(Frames) /\ fs # <<>>
         /\ \A i \in 1..Len(fs) : /\ fs[i] \in About(num[d], d)
                                  /\ selfHosted \/ fs[i].good
<1>1. \A k \in {"opened", "data", "closed"}, g \in BOOLEAN :
        Frame(k, d, g) \in About(num[d], d) /\ Frame(k, d, g).good = g
  BY FrameTypes DEF Frame, About
<1>2. About(num[d], d) \subseteq Frames
  BY DEF About
<1>3. CASE fs = Append(<<Frame("opened", d, TRUE)>>, Frame("data", d, TRUE))
  <2> DEFINE f == Frame("opened", d, TRUE)
             g == Frame("data", d, TRUE)
  <2>1. f \in About(num[d], d) /\ g \in About(num[d], d) /\ f.good /\ g.good
    BY <1>1
  <2> HIDE DEF f, g
  <2>2. fs = Append(<<f>>, g)
    BY <1>3 DEF f, g
  <2>3. <<f>> \in Seq(Frames) /\ g \in Frames
    BY <1>2, <2>1
  <2>4. /\ fs \in Seq(Frames) /\ fs # <<>> /\ Len(fs) = 2 /\ fs[2] = g
        /\ fs[1] = f
    BY <2>2, <2>3, AppendProperties
  <2>5. \A i \in 1..Len(fs) : i = 1 \/ i = 2
    BY <2>4
  <2> QED BY <2>1, <2>4, <2>5
<1>4. ASSUME NEW k \in {"opened", "data", "closed"}, NEW g \in BOOLEAN, g \/ selfHosted, fs = <<Frame(k, d, g)>>
      PROVE  /\ fs \in Seq(Frames) /\ fs # <<>>
             /\ \A i \in 1..Len(fs) : /\ fs[i] \in About(num[d], d)
                                      /\ selfHosted \/ fs[i].good
  BY <1>1, <1>2, <1>4
<1> QED BY <1>3, <1>4 DEF Tellings

(* The room gets an agent by a proof only, and loses one with its phones.  *)
LEMMA AgentMoves ==
  ASSUME TypeOK, OneAgent, Next
  PROVE  \/ /\ last' = last /\ Live' \subseteq Live
            /\ \A a \in AgentWires : ag[a] \in {"live", "retired"} => ag'[a] \in {"live", "retired"}
            /\ \A a \in AgentWires : ag'[a] \in Proving => ag[a] \in Proving
                                                          \/ AgentConnects(a)
            /\ Live' # Live => \A d \in PhoneWires : dev'[d] \notin Present
         \/ \E a \in AgentWires : AgentVerified(a, TRUE)
         \/ \E a \in AgentWires : AgentCloses(a)
         \/ \E d \in PhoneWires, b \in BOOLEAN : PhoneConnects(d, b)
<1> DEFINE Fewer == /\ last' = last /\ Live' \subseteq Live
                    /\ \A a \in AgentWires : ag[a] \in {"live", "retired"} => ag'[a] \in {"live", "retired"}
                    /\ \A a \in AgentWires : ag'[a] \in Proving => ag[a] \in Proving
                                                                  \/ AgentConnects(a)
                    /\ Live' # Live => \A d \in PhoneWires : dev'[d] \notin Present
<1> SUFFICES \/ Fewer \/ \E a \in AgentWires : AgentVerified(a, TRUE)
             \/ \E a \in AgentWires : AgentCloses(a)
             \/ \E d \in PhoneWires, b \in BOOLEAN : PhoneConnects(d, b)
  OBVIOUS
<1>1. ag \in [AgentWires -> Proving \cup {"none", "live", "retired", "refused"}]
  BY DEF TypeOK
<1>2. ag' = ag /\ last' = last => Fewer
  BY DEF Live
<1>3. ASSUME NEW a \in AgentWires, NEW w, w \notin {"live", "retired"},
             w \in Proving => ag[a] \in Proving, ag[a] \notin {"live", "retired"},
             ag' = [ag EXCEPT ![a] = w], last' = last
      PROVE  Fewer
  BY <1>1, <1>3 DEF Live
<1>4. ASSUME NEW a \in AgentWires, AgentConnects(a) PROVE Fewer
  <2> DEFINE swept == {b \in Pending : agLate[b]}
  <2>1. /\ ag[a] = "none" /\ last' = last
        /\ \A b \in AgentWires : ag'[b] = IF b \in swept THEN "refused"
                                          ELSE IF b = a /\ Cardinality(Pending \ swept) < MaxPendingAgents
                                          THEN "reserving" ELSE ag[b]
    BY <1>4 DEF AgentConnects
  <2>2. \A b \in swept : ag[b] \in Proving
    BY DEF Pending
  <2> HIDE DEF swept
  <2>3. \A b \in AgentWires : /\ ag[b] \in {"live", "retired"} => ag'[b] = ag[b]
                              /\ ag'[b] = "live" => ag[b] = "live"
                              /\ ag'[b] \in Proving => b = a \/ ag[b] \in Proving
    BY <2>1, <2>2 DEF Proving
  <2> QED BY <1>4, <2>1, <2>3 DEF Live
<1>5. ASSUME NEW a \in AgentWires, AgentMisbehaves(a) PROVE Fewer
  <2>1. CASE ag[a] = "live"
    <3>1. dev' = CutAll /\ last' = last /\ ag' = [ag EXCEPT ![a] = "retired"]
      BY <1>5, <2>1 DEF AgentMisbehaves, Live
    <3>2. \A d \in PhoneWires : dev'[d] \notin Present
      BY <3>1, Evicted DEF CutAll, Present, Waiting, Checked
    <3> QED BY <1>1, <2>1, <3>1, <3>2 DEF Live, Proving
  <2>2. CASE ag[a] # "live"
    BY <1>3, <1>5, <2>2 DEF AgentMisbehaves, Proving
  <2> QED BY <2>1, <2>2
<1>6. ASSUME NEW a \in AgentWires,
             AgentChallenged(a) \/ AgentProves(a) \/ AgentVerified(a, FALSE)
      PROVE  Fewer
  <2>1. CASE AgentChallenged(a)
    BY <1>3, <2>1 DEF AgentChallenged, Proving
  <2>2. CASE AgentProves(a)
    BY <1>3, <2>2 DEF AgentProves, Proving
  <2>3. CASE AgentVerified(a, FALSE)
    BY <1>3, <2>3 DEF AgentVerified, Proving
  <2> QED BY <1>6, <2>1, <2>2, <2>3
<1>7. ASSUME \/ \E a \in AgentWires, ok \in BOOLEAN : Hear(a, ok)
             \/ \E a \in AgentWires, n \in Numbers : Speak(a, n) \/ GiveUp(a, n)
             \/ \E p \in BOOLEAN : TicketSet(p)
             \/ TicketExpires \/ TimePasses \/ \E f \in toRoom : FromAgent(f)
      PROVE  Fewer
  BY <1>2, <1>7 DEF Hear, Speak, GiveUp, TicketSet, TicketExpires, TimePasses, FromAgent, agVars
<1>8. ASSUME NEW d \in PhoneWires,
             PhoneChallenged(d) \/ PhoneTooSoon(d) \/ PhoneProves(d) \/ PhoneMisbehaves(d) \/ PhoneCloses(d)
      PROVE  Fewer
  BY <1>2, <1>8 DEF PhoneChallenged, PhoneTooSoon, PhoneProves, PhoneMisbehaves, PhoneCloses, agVars
<1>9. ASSUME NEW d \in PhoneWires, NEW b \in BOOLEAN,
             \/ PhoneHeld(d, b) \/ PhoneVerified(d, b) \/ LedgerAnswers(d, b)
             \/ FreeSlotLeaves(d, b) \/ PhoneSends(d, b)
      PROVE  Fewer
  BY <1>2, <1>9 DEF PhoneHeld, PhoneVerified, LedgerAnswers, FreeSlotLeaves, PhoneSends, agVars
<1>10. ASSUME NEW a \in AgentWires, NEW ok \in BOOLEAN, AgentVerified(a, ok)
       PROVE  Fewer \/ AgentVerified(a, TRUE)
  <2>1. CASE ok = TRUE
    BY <1>10, <2>1
  <2>2. CASE ok = FALSE
    BY <1>6, <1>10, <2>2
  <2> QED BY <2>1, <2>2
<1> HIDE DEF Fewer
<1>11. CASE \E a \in AgentWires : \/ AgentConnects(a) \/ AgentChallenged(a) \/ AgentProves(a)
                                  \/ AgentMisbehaves(a) \/ AgentCloses(a)
  BY <1>4, <1>5, <1>6, <1>11
<1>12. CASE \E a \in AgentWires, ok \in BOOLEAN : AgentVerified(a, ok) \/ Hear(a, ok)
  BY <1>7, <1>10, <1>12
<1>13. CASE \E d \in PhoneWires : \/ PhoneChallenged(d) \/ PhoneTooSoon(d)
                                  \/ PhoneProves(d) \/ PhoneMisbehaves(d) \/ PhoneCloses(d)
  BY <1>8, <1>13
<1>14. CASE \E d \in PhoneWires, b \in BOOLEAN :
              \/ PhoneConnects(d, b) \/ PhoneHeld(d, b) \/ PhoneVerified(d, b)
              \/ LedgerAnswers(d, b) \/ FreeSlotLeaves(d, b) \/ PhoneSends(d, b)
  BY <1>9, <1>14
<1> QED BY <1>7, <1>11, <1>12, <1>13, <1>14 DEF Next, Steps

(* Types hold at the start, and every step keeps them.                     *)
LEMMA TypesAtFirst == Init => TypeOK
<1> SUFFICES ASSUME Init PROVE TypeOK
  OBVIOUS
<1>1. /\ ag \in [AgentWires -> Proving \cup {"none", "live", "retired", "refused"}]
      /\ agLate \in [AgentWires -> BOOLEAN] /\ last \in [AgentWires -> Numbers \cup {0}]
      /\ plus \in BOOLEAN /\ selfHosted \in BOOLEAN
  BY DEF Init
<1>2. /\ dev \in [PhoneWires -> Present \cup {"idle", "evicted", "gone"}]
      /\ late \in [PhoneWires -> BOOLEAN] /\ num \in [PhoneWires -> Numbers \cup {0}]
      /\ free \in [PhoneWires -> BOOLEAN] /\ held \in [PhoneWires -> {"no", "good", "bad"}]
      /\ bound \in [PhoneWires -> BOOLEAN]
  BY DEF Init
<1>3. toAgent \in [AgentWires -> Seq(Frames)]
  BY DEF Init
<1>4. slot \in [AgentWires -> [Numbers -> Slots]] /\ toRoom \subseteq Replies
  BY DEF Init, Slots
<1> QED BY <1>1, <1>2, <1>3, <1>4 DEF TypeOK

(* Every step keeps the types of what is under way and of the slots.       *)
LEMMA QueueTypes ==
  ASSUME TypeOK, OneAgent, Numbered, Next
  PROVE  /\ toAgent' \in [AgentWires -> Seq(Frames)] /\ toRoom' \subseteq Replies
         /\ slot' \in [AgentWires -> [Numbers -> Slots]]
<1>1. /\ toAgent \in [AgentWires -> Seq(Frames)] /\ toRoom \subseteq Replies
      /\ slot \in [AgentWires -> [Numbers -> Slots]] /\ NoSlot \in Slots
  BY DEF TypeOK, Slots
<1>2. CASE \E d \in Here : \E fs \in Tellings(d) : Tell(fs) /\ UNCHANGED <<toRoom, slot, ag, last>>
  BY <1>1, <1>2, TellingFrames, TellTypes
<1>3. ASSUME NEW a \in AgentWires, NEW n \in Numbers,
             (\E ok \in BOOLEAN : Hear(a, ok)) \/ Speak(a, n) \/ GiveUp(a, n)
      PROVE  /\ toAgent' \in [AgentWires -> Seq(Frames)] /\ toRoom' \subseteq Replies
             /\ slot' \in [AgentWires -> [Numbers -> Slots]]
  BY <1>3, AgentEndTypes
<1>4. ASSUME NEW a \in AgentWires, NEW ok \in BOOLEAN, Hear(a, ok)
      PROVE  \E n \in Numbers : TRUE
  <2>1. toAgent[a] # <<>>
    BY <1>4 DEF Hear
  <2>2. Head(toAgent[a]) \in Frames
    BY <1>1, <2>1
  <2> QED BY <2>2 DEF Frames
<1>5. ASSUME NEW a \in AgentWires, AgentCloses(a)
      PROVE  /\ toAgent' \in [AgentWires -> Seq(Frames)] /\ toRoom' \subseteq Replies
             /\ slot' \in [AgentWires -> [Numbers -> Slots]]
  <2>1. <<>> \in Seq(Frames)
    OBVIOUS
  <2> QED BY <1>1, <1>5, <2>1 DEF AgentCloses
<1>6. ASSUME NEW d \in PhoneWires, NEW b \in BOOLEAN, PhoneConnects(d, b)
      PROVE  /\ toAgent' \in [AgentWires -> Seq(Frames)] /\ toRoom' \subseteq Replies
             /\ slot' \in [AgentWires -> [Numbers -> Slots]]
  <2>1. PICK a \in Live : Connects(d, a)
    BY <1>6, Connecting
  <2>2. UNCHANGED <<toRoom, slot>>
    BY <2>1 DEF Connects
  <2>3. CASE toAgent' = toAgent
    BY <1>1, <2>2, <2>3
  <2>4. CASE last[a] + 1 \in Numbers /\ toAgent' = [toAgent EXCEPT ![a] = Append(@, Opened(a, d))]
    <3>1. Opened(a, d) \in Frames
      BY <2>4 DEF Frames, Opened
    <3>2. a \in AgentWires
      BY DEF Live
    <3>3. Append(toAgent[a], Opened(a, d)) \in Seq(Frames)
      BY <1>1, <3>1, <3>2
    <3> QED BY <1>1, <2>2, <2>4, <3>3
  <2> QED BY <2>1, <2>3, <2>4 DEF Connects, Refused, GetsNumber
<1> QED BY <1>1, <1>2, <1>3, <1>4, <1>5, <1>6, Carrying

(* Every step keeps the types of the numbers.                              *)
LEMMA NumberTypes ==
  ASSUME TypeOK, OneAgent, Numbered, Next
  PROVE  num' \in [PhoneWires -> Numbers \cup {0}] /\ last' \in [AgentWires -> Numbers \cup {0}]
<1>1. num \in [PhoneWires -> Numbers \cup {0}] /\ last \in [AgentWires -> Numbers \cup {0}]
  BY DEF TypeOK
<1>2. ASSUME NEW d \in PhoneWires, NEW b \in BOOLEAN, PhoneConnects(d, b)
      PROVE  num' \in [PhoneWires -> Numbers \cup {0}] /\ last' \in [AgentWires -> Numbers \cup {0}]
  <2>1. PICK a \in Live : Connects(d, a)
    BY <1>2, Connecting
  <2> QED BY <1>1, <2>1 DEF Connects, Refused, GetsNumber
<1>3. ASSUME NEW a \in AgentWires, NEW ok \in BOOLEAN, AgentVerified(a, ok)
      PROVE  last' \in [AgentWires -> Numbers \cup {0}]
  BY <1>1, <1>3, CarriedNumber DEF AgentVerified
<1>4. ASSUME NEW a \in AgentWires, AgentCloses(a)
      PROVE  last' \in [AgentWires -> Numbers \cup {0}]
  BY <1>1, <1>4 DEF AgentCloses
<1>5. CASE \A e \in PhoneWires, b \in BOOLEAN : ~PhoneConnects(e, b)
  <2>1. num' = num
    BY <1>5, PhonesGrowFewer
  <2>2. \/ last' = last \/ (\E a \in AgentWires : AgentCloses(a))
        \/ \E a \in AgentWires : AgentVerified(a, TRUE)
    BY <1>5, AgentMoves
  <2> QED BY <1>1, <1>3, <1>4, <2>1, <2>2
<1> QED BY <1>2, <1>5

(* A proof makes its wire the one agent; a closing wire is none.           *)
LEMMA AgentChanges ==
  ASSUME TypeOK, NEW a \in AgentWires
  PROVE  /\ AgentVerified(a, TRUE) =>
              /\ Live' = {a} /\ a \notin Live /\ ag[a] = "verifying"
              /\ \A b \in AgentWires \ {a} : ag'[b] = ag[b] \/ (ag[b] = "live" /\ ag'[b] = "retired")
              /\ last' = [last EXCEPT ![a] = Carried]
              /\ UNCHANGED <<toAgent, toRoom, slot>>
         /\ AgentCloses(a) =>
              /\ Live' = Live \ {a} /\ ag' = [ag EXCEPT ![a] = "none"]
              /\ last' = [last EXCEPT ![a] = 0]
              /\ a \in Live => \A d \in PhoneWires : dev'[d] \notin Present
<1>1. ag \in [AgentWires -> Proving \cup {"none", "live", "retired", "refused"}]
  BY DEF TypeOK
<1>2. ASSUME AgentVerified(a, TRUE)
      PROVE  /\ Live' = {a} /\ a \notin Live /\ ag[a] = "verifying"
             /\ \A b \in AgentWires \ {a} : ag'[b] = ag[b] \/ (ag[b] = "live" /\ ag'[b] = "retired")
             /\ last' = [last EXCEPT ![a] = Carried]
             /\ UNCHANGED <<toAgent, toRoom, slot>>
  <2>1. /\ ag[a] = "verifying" /\ last' = [last EXCEPT ![a] = Carried] /\ UNCHANGED <<toAgent, toRoom, slot>>
        /\ ag' = [b \in AgentWires |-> IF b = a THEN "live" ELSE IF b \in Live THEN "retired" ELSE ag[b]]
    BY <1>2 DEF AgentVerified
  <2> QED BY <1>1, <2>1 DEF Live
<1>3. ASSUME AgentCloses(a)
      PROVE  /\ Live' = Live \ {a} /\ ag' = [ag EXCEPT ![a] = "none"]
             /\ last' = [last EXCEPT ![a] = 0]
             /\ a \in Live => \A d \in PhoneWires : dev'[d] \notin Present
  <2>1. /\ ag' = [ag EXCEPT ![a] = "none"] /\ last' = [last EXCEPT ![a] = 0]
        /\ a \in Live => dev' = CutAll
    BY <1>3 DEF AgentCloses
  <2>2. \A d \in PhoneWires : CutAll[d] \notin Present
    BY Evicted DEF CutAll, Present, Waiting, Checked
  <2> QED BY <1>1, <2>1, <2>2 DEF Live
<1> QED BY <1>2, <1>3

(* What a phone that gets its number changes.                              *)
LEMMA Joining ==
  ASSUME TypeOK, NEW d \in PhoneWires, NEW a, Connects(d, a)
  PROVE  /\ Live' = Live
         /\ Refused(d) => Connected' = Connected /\ Here' \subseteq Here
         /\ GetsNumber(d, a) => /\ Connected' = Connected \cup {d} /\ d \notin Connected
                                /\ Here' \subseteq Here \cup {d}
<1> USE DEF Present, Waiting, Checked
<1>1. \A e \in PhoneWires \ {d} : /\ dev'[e] = "idle" <=> dev[e] = "idle"
                                  /\ dev'[e] \in Present \cup {"evicted"} => dev[e] \in Present \cup {"evicted"}
  BY DEF Connects
<1>2. dev[d] = "idle" /\ Live' = Live
  BY DEF Connects, Live
<1>3. ASSUME Refused(d) PROVE Connected' = Connected /\ Here' \subseteq Here
  BY <1>1, <1>2, <1>3 DEF Refused, Connected, Here
<1>4. ASSUME GetsNumber(d, a)
      PROVE  /\ Connected' = Connected \cup {d} /\ d \notin Connected
             /\ Here' \subseteq Here \cup {d}
  <2>1. dev'[d] # "idle"
    BY <1>4 DEF GetsNumber
  <2> QED BY <1>1, <1>2, <2>1 DEF Connected, Here
<1> QED BY <1>2, <1>3, <1>4

(* Every step keeps the numbers in order.                                  *)
LEMMA NumberedStep ==
  ASSUME TypeOK, OneAgent, Numbered, Next
  PROVE  Numbered'
<1>1. /\ num \in [PhoneWires -> Nat] /\ last \in [AgentWires -> Nat] /\ Cardinality(Connected) \in Nat
      /\ Here \subseteq PhoneWires /\ Live \subseteq AgentWires
  <2>1. Numbers \cup {0} \subseteq Nat
    BY NumbersAreNaturals
  <2>2. num \in [PhoneWires -> Numbers \cup {0}] /\ last \in [AgentWires -> Numbers \cup {0}]
    BY DEF TypeOK
  <2>3. Cardinality(Connected) \in Nat
    BY WireSets DEF Connected
  <2> QED BY <2>1, <2>2, <2>3 DEF Here, Live
<1>2. CASE \A e \in PhoneWires, b \in BOOLEAN : ~PhoneConnects(e, b)
  <2>1. num' = num /\ Connected' = Connected /\ Here' \subseteq Here
    BY <1>2, PhonesGrowFewer
  <2>2. CASE last' = last /\ Live' \subseteq Live
    BY <1>1, <2>1, <2>2 DEF Numbered
  <2>3. ASSUME NEW a \in AgentWires, AgentVerified(a, TRUE) PROVE Numbered'
    <3>1. last' = [last EXCEPT ![a] = Carried] /\ Live' = {a}
      BY <2>3, AgentChanges
    <3>2. /\ Carried \in Numbers \cup {0} /\ Carried <= Cardinality(Connected)
          /\ \A b \in AgentWires : last[b] <= Carried
          /\ \A d \in Here : num[d] <= Carried
      BY CarriedNumber
    <3>3. Carried \in Nat
      <4>1. Numbers \cup {0} \subseteq Nat
        BY NumbersAreNaturals
      <4> QED BY <3>2, <4>1
    <3> QED BY <1>1, <2>1, <3>1, <3>2, <3>3 DEF Numbered
  <2>4. ASSUME NEW a \in AgentWires, AgentCloses(a) PROVE Numbered'
    <3>1. last' = [last EXCEPT ![a] = 0] /\ Live' = Live \ {a}
      BY <2>4, AgentChanges
    <3> QED BY <1>1, <2>1, <3>1 DEF Numbered
  <2> QED BY <1>2, <2>2, <2>3, <2>4, AgentMoves
<1>3. ASSUME NEW d \in PhoneWires, NEW b \in BOOLEAN, PhoneConnects(d, b) PROVE Numbered'
  <2>1. PICK a \in Live : Connects(d, a)
    BY <1>3, Connecting
  <2>2. CASE Refused(d)
    <3>1. last' = last /\ num' = num /\ Connected' = Connected /\ Here' \subseteq Here /\ Live' = Live
      BY <2>1, <2>2, Joining DEF Refused
    <3> QED BY <1>1, <3>1 DEF Numbered
  <2>3. CASE GetsNumber(d, a)
    <3> DEFINE n == last[a] + 1
    <3>1. /\ Connected' = Connected \cup {d} /\ Here' \subseteq Here \cup {d} /\ d \notin Here
          /\ Live' = {a} /\ Live = {a}
      BY <2>1, <2>3, Joining DEF Here, Connected, Connects, Present, Waiting, Checked
    <3>2. dev[d] = "idle"
      BY <2>1 DEF Connects
    <3>3. Cardinality(Connected') = Cardinality(Connected) + 1 /\ n <= Cardinality(Connected) + 1 /\ n \in Nat
      <4>1. Cardinality(Connected \cup {d}) = Cardinality(Connected) + 1 /\ n <= Cardinality(Connected) + 1
        BY <3>2, NextNumber
      <4>2. a \in AgentWires
        BY <1>1
      <4> QED BY <1>1, <3>1, <4>1, <4>2
    <3>4. num' = [num EXCEPT ![d] = n] /\ last' = [last EXCEPT ![a] = n]
      BY <2>3 DEF GetsNumber
    <3>5. \A c \in AgentWires : last'[c] <= Cardinality(Connected)'
      BY <1>1, <3>3, <3>4 DEF Numbered
    <3>6. \A e \in PhoneWires : num'[e] <= Cardinality(Connected)'
      BY <1>1, <3>3, <3>4 DEF Numbered
    <3>7. /\ \A c \in AgentWires : last[c] < n
          /\ \A e \in Here : num[e] < n
      BY <1>1, <3>1 DEF Numbered
    <3>8. \A c \in Live', e \in AgentWires : last'[e] <= last'[c]
      BY <1>1, <3>1, <3>3, <3>4, <3>7
    <3>9. \A e \in Here' : num'[e] <= n /\ num'[e] # 0 /\ (e # d => e \in Here /\ num'[e] = num[e] /\ num[e] < n)
      BY <1>1, <3>1, <3>3, <3>4, <3>7 DEF Numbered
    <3>10. \A c \in Live', e \in Here' : num'[e] <= last'[c]
      BY <1>1, <3>1, <3>4, <3>9
    <3>11. \A e, f \in Here' : num'[e] = num'[f] => e = f
      BY <1>1, <3>1, <3>3, <3>4, <3>9 DEF Numbered
    <3> HIDE DEF n
    <3> QED BY <3>5, <3>6, <3>8, <3>9, <3>10, <3>11 DEF Numbered
  <2> QED BY <2>1, <2>2, <2>3 DEF Connects
<1> QED BY <1>2, <1>3

-----------------------------------------------------------------------------
(* What is said of a number.                                               *)

(* Frames of one queue are about one number and phone each.                *)
LEMMA AboutOne ==
  ASSUME NEW n, NEW m, NEW d, NEW e, NEW f, f \in About(n, d), f \in About(m, e)
  PROVE  n = m /\ d = e
BY DEF About

(* The frames of Tell say nothing but what they are about.                 *)
LEMMA TellingMeans ==
  ASSUME TypeOK, Numbered, NEW e \in Here, NEW fs \in Tellings(e), Tell(fs), UNCHANGED <<toRoom, slot>>,
         NEW a \in AgentWires, NEW n \in Numbers, NEW d \in PhoneWires, Means(a, n, d)'
  PROVE  Means(a, n, d) \/ (a \in Live /\ d = e /\ n = num[e])
<1>1. toAgent[a] \in Seq(Frames) /\ fs \in Seq(Frames)
  BY TellingFrames DEF TypeOK
<1>2. toAgent'[a] = IF a \in Live THEN toAgent[a] \o fs ELSE toAgent[a]
  BY DEF Tell
<1>3. CASE slot'[a][n] # NoSlot /\ slot'[a][n].d = d
  BY <1>3 DEF Means
<1>4. CASE \E f \in toRoom' : f.a = a /\ f.n = n /\ f.to = d
  BY <1>4 DEF Means
<1>5. CASE Has(toAgent'[a], About(n, d))
  <2>1. CASE a \in Live
    <3>1. Has(toAgent[a], About(n, d)) \/ Has(fs, About(n, d))
      BY <1>1, <1>2, <1>5, <2>1, Behind
    <3>2. CASE Has(fs, About(n, d))
      BY <2>1, <3>2, TellingFrames, AboutOne DEF Has
    <3> QED BY <3>1, <3>2 DEF Means
  <2>2. CASE a \notin Live
    BY <1>2, <1>5, <2>2 DEF Means
  <2> QED BY <2>1, <2>2
<1> QED BY <1>3, <1>4, <1>5 DEF Means, About

(* The agent's end says of a number only what it was told of it.           *)
LEMMA AgentEndMeans ==
  ASSUME TypeOK, NEW b \in AgentWires, NEW m \in Numbers,
         (\E ok \in BOOLEAN : Hear(b, ok)) \/ Speak(b, m) \/ GiveUp(b, m),
         NEW a \in AgentWires, NEW n \in Numbers, NEW d \in PhoneWires, Means(a, n, d)'
  PROVE  Means(a, n, d)
<1>1. /\ toAgent \in [AgentWires -> Seq(Frames)] /\ toRoom \subseteq Replies
      /\ slot \in [AgentWires -> [Numbers -> Slots]]
  BY DEF TypeOK
<1>2. \A c \in Numbers : slot[b][c] \in Slots
  BY <1>1
<1>3. ASSUME NEW ok \in BOOLEAN, Hear(b, ok) PROVE Means(a, n, d)
  <2> DEFINE f == Head(toAgent[b])
             v == slot[b][f.n]
  <2>1. toAgent[b] # <<>> /\ toAgent' = [toAgent EXCEPT ![b] = Tail(@)]
        /\ (HearOpened(b, f) \/ HearClosed(b, f) \/ HearData(b, f, ok))
    BY <1>3 DEF Hear
  <2>2. f \in Frames
    BY <1>1, <2>1
  <2>3. f.n \in Numbers /\ f.d \in PhoneWires /\ f \in About(f.n, f.d)
    BY <2>2 DEF Frames, About
  <2>4. ASSUME Has(toAgent'[a], About(n, d)) PROVE Means(a, n, d)
    <3>1. CASE a = b
      <4>1. Has(Tail(toAgent[a]), About(n, d))
        BY <1>1, <2>1, <2>4, <3>1
      <4>2. Has(toAgent[a], About(n, d))
        BY <1>1, <2>1, <3>1, <4>1, Leaves
      <4> QED BY <4>2 DEF Means
    <3>2. CASE a # b
      BY <1>1, <2>1, <2>4, <3>2 DEF Means
    <3> QED BY <3>1, <3>2
  <2>5. Means(b, f.n, f.d)
    <3>1. toAgent[b] \in Seq(Frames)
      BY <1>1
    <3>2. Has(toAgent[b], About(f.n, f.d))
      <4> DEFINE F == About(f.n, f.d)
                 q == toAgent[b]
      <4>1. q \in Seq(Frames) /\ q # <<>> /\ Head(q) \in F
        BY <2>1, <2>3, <3>1
      <4> HIDE DEF F, q
      <4>2. Has(q, F)
        BY <4>1, Leaves
      <4> QED BY <4>2 DEF F, q
    <3> QED BY <3>2 DEF Means
  <2>6. ASSUME NEW w \in Slots, SetSlot(b, f.n, w), w # NoSlot => Means(b, f.n, w.d),
               slot'[a][n] # NoSlot, slot'[a][n].d = d
        PROVE  Means(a, n, d)
    <3>1. CASE a = b /\ n = f.n
      BY <1>1, <2>3, <2>6, <3>1 DEF SetSlot
    <3>2. CASE ~(a = b /\ n = f.n)
      <4>1. slot'[a][n] = slot[a][n]
        BY <1>1, <2>3, <2>6, <3>2 DEF SetSlot
      <4> QED BY <2>6, <4>1 DEF Means
    <3> QED BY <3>1, <3>2
  <2>7. ASSUME NEW r \in toRoom, r.a = a, r.n = n, r.to = d PROVE Means(a, n, d)
    BY <2>7 DEF Means
  <2> HIDE DEF f
  <2>8. CASE HearOpened(b, f)
    <3>1. [s |-> "fresh", d |-> f.d] \in Slots /\ [s |-> "fresh", d |-> f.d].d = f.d
      BY <2>3 DEF Slots
    <3> QED BY <2>4, <2>5, <2>6, <2>7, <2>8, <3>1 DEF HearOpened, Means
  <2>9. CASE HearClosed(b, f)
    <3>1. NoSlot \in Slots
      BY DEF Slots
    <3> QED BY <2>4, <2>6, <2>7, <2>9, <3>1 DEF HearClosed, Means
  <2>10. CASE HearData(b, f, ok) /\ v.s \in {"fresh", "up"}
    <3> DEFINE s == IF ok THEN "up" ELSE "dead"
               w == [v EXCEPT !.s = s]
               ks == (IF ok \/ v.s = "up" THEN {"data"} ELSE {}) \cup (IF ok THEN {} ELSE {"drop"})
    <3>1. v \in Slots /\ v # NoSlot /\ Means(b, f.n, v.d)
      BY <1>2, <2>3, <2>10, SlotFields DEF Means
    <3>2. w \in Slots /\ w.d = v.d
      <4>1. s \in {"up", "dead"}
        OBVIOUS
      <4> HIDE DEF s, v
      <4> QED BY <3>1, <4>1, SlotFields
    <3>3. SetSlot(b, f.n, w)
          /\ toRoom' = toRoom \cup {[a |-> b, k |-> k, n |-> f.n, to |-> v.d] : k \in ks}
      BY <2>10 DEF HearData
    <3> HIDE DEF w, ks, v
    <3>4. \A r \in toRoom' : r \in toRoom \/ (r.a = b /\ r.n = f.n /\ r.to = v.d)
      BY <3>3
    <3>5. CASE \E r \in toRoom' : r.a = a /\ r.n = n /\ r.to = d
      BY <2>7, <3>1, <3>4, <3>5
    <3> QED BY <2>4, <2>6, <3>1, <3>2, <3>3, <3>5 DEF Means
  <2>11. CASE HearData(b, f, ok) /\ v.s \notin {"fresh", "up"}
    <3>1. UNCHANGED <<slot, toRoom>>
      BY <2>11 DEF HearData
    <3> QED BY <2>4, <3>1 DEF Means
  <2> QED BY <2>1, <2>8, <2>9, <2>10, <2>11
<1>4. CASE Speak(b, m) \/ GiveUp(b, m)
  <2> DEFINE v == slot[b][m]
  <2>1. v \in Slots /\ v # NoSlot
    BY <1>2, <1>4, SlotFields DEF Speak, GiveUp
  <2>2. Means(b, m, v.d)
    BY <2>1 DEF Means
  <2>3. toAgent' = toAgent /\ \A r \in toRoom' : r \in toRoom \/ (r.a = b /\ r.n = m /\ r.to = v.d)
    BY <1>4 DEF Speak, GiveUp
  <2>4. slot' = slot \/ slot' = [slot EXCEPT ![b][m] = [v EXCEPT !.s = "dead"]]
    BY <1>4 DEF Speak, GiveUp, SetSlot
  <2>5. [v EXCEPT !.s = "dead"].d = v.d
    BY <2>1, SlotFields
  <2> HIDE DEF v
  <2>6. slot'[a][n].d = slot[a][n].d /\ (slot[a][n] = NoSlot => slot'[a][n] = NoSlot)
    <3>1. CASE slot'[a][n] = slot[a][n]
      BY <3>1
    <3>2. CASE slot'[a][n] # slot[a][n]
      <4>1. a = b /\ n = m /\ slot'[a][n] = [v EXCEPT !.s = "dead"]
        BY <1>1, <2>4, <3>2
      <4> QED BY <2>1, <2>5, <4>1 DEF v
    <3> QED BY <3>1, <3>2
  <2> QED BY <2>2, <2>3, <2>6 DEF Means
<1> QED BY <1>3, <1>4

(* A closing wire of an agent forgets, and the others stay as they are.    *)
LEMMA CloseMeans ==
  ASSUME TypeOK, NEW b \in AgentWires, AgentCloses(b),
         NEW a \in AgentWires, NEW n \in Numbers, NEW d \in PhoneWires, Means(a, n, d)'
  PROVE  a # b /\ Means(a, n, d)
<1>1. /\ toAgent \in [AgentWires -> Seq(Frames)] /\ slot \in [AgentWires -> [Numbers -> Slots]]
  BY DEF TypeOK
<1>2. /\ toAgent' = [toAgent EXCEPT ![b] = <<>>] /\ toRoom' = {f \in toRoom : f.a # b}
      /\ slot' = [slot EXCEPT ![b] = [c \in Numbers |-> NoSlot]]
  BY DEF AgentCloses
<1>3. CASE a = b
  <2>1. toAgent'[a] = <<>> /\ slot'[a][n] = NoSlot /\ ~\E f \in toRoom' : f.a = a
    BY <1>1, <1>2, <1>3
  <2> QED BY <2>1, EmptyQueue DEF Means
<1>4. CASE a # b
  <2>1. toAgent'[a] = toAgent[a] /\ slot'[a] = slot[a] /\ toRoom' \subseteq toRoom
    BY <1>1, <1>2, <1>4
  <2> QED BY <1>4, <2>1 DEF Means, About
<1> QED BY <1>3, <1>4

(* A phone that connects is what its new number means.                     *)
LEMMA ConnectMeans ==
  ASSUME TypeOK, NEW e \in PhoneWires, NEW b \in Live, Connects(e, b),
         NEW a \in AgentWires, NEW n \in Numbers, NEW d \in PhoneWires, Means(a, n, d)'
  PROVE  Means(a, n, d) \/ (GetsNumber(e, b) /\ a = b /\ d = e /\ n = last[b] + 1)
<1>1. toAgent \in [AgentWires -> Seq(Frames)] /\ b \in AgentWires
  BY DEF TypeOK, Live
<1>2. toRoom' = toRoom /\ slot' = slot
  BY DEF Connects
<1>3. CASE toAgent' = toAgent
  BY <1>2, <1>3 DEF Means, About
<1>4. CASE GetsNumber(e, b) /\ toAgent' = [toAgent EXCEPT ![b] = Append(@, Opened(b, e))]
  <2>1. Opened(b, e) \in Frames /\ Opened(b, e) \in About(last[b] + 1, e)
    BY <1>4 DEF Opened, Frames, GetsNumber, About
  <2>2. CASE a = b /\ Has(toAgent'[a], About(n, d))
    <3>1. toAgent'[a] = Append(toAgent[a], Opened(b, e)) /\ toAgent[a] \in Seq(Frames)
      BY <1>1, <1>4, <2>2
    <3>2. Has(toAgent[a], About(n, d)) \/ Opened(b, e) \in About(n, d)
      <4> DEFINE F == About(n, d)
                 f == Opened(b, e)
                 q == toAgent[a]
      <4>1. Has(Append(q, f), F) /\ f \in Frames /\ q \in Seq(Frames)
        BY <2>1, <2>2, <3>1
      <4> HIDE DEF F, f, q
      <4>2. Has(q, F) \/ f \in F
        BY <4>1, Joins
      <4> QED BY <4>2 DEF F, f, q
    <3> QED BY <1>4, <2>1, <2>2, <3>2, AboutOne DEF Means
  <2>3. CASE a # b
    <3>1. toAgent'[a] = toAgent[a]
      BY <1>1, <1>4, <2>3
    <3> QED BY <1>2, <3>1 DEF Means, About
  <2> QED BY <1>2, <2>2, <2>3 DEF Means, About
<1> QED BY <1>3, <1>4 DEF Connects, Refused, GetsNumber

\* What may be said of number n at a in the next moment, but by a new phone.
Known(a, n, d) == Means(a, n, d) \/ (a \in Live /\ d \in Here /\ n = num[d])

(* What may be said of a number is said of one phone.                      *)
LEMMA KnownOne ==
  ASSUME Numbered, OneMeaning, NEW a \in AgentWires, NEW n \in Numbers, NEW d \in PhoneWires, Known(a, n, d)
  PROVE  /\ d \in Connected /\ num[d] = n /\ n <= last[a]
         /\ \A e \in Here : num[e] = n => e = d
         /\ \A e \in PhoneWires : Known(a, n, e) => e = d
<1>1. Here \subseteq PhoneWires /\ Here \subseteq Connected
  BY DEF Here, Connected, Present, Waiting, Checked
<1>2. /\ \A e \in Here : a \in Live => num[e] <= last[a]
      /\ \A e, f \in Here : num[e] = num[f] => e = f
  BY DEF Numbered
<1>3. \A e \in PhoneWires : Means(a, n, e) =>
        /\ e \in Connected /\ num[e] = n /\ n <= last[a]
        /\ \A f \in Here : num[f] = n => f = e
        /\ \A f \in PhoneWires : Means(a, n, f) => f = e
  BY DEF OneMeaning
<1> QED BY <1>1, <1>2, <1>3 DEF Known

(* Whatever is said after a step without a new phone was known.            *)
LEMMA MeansKnown ==
  ASSUME TypeOK, OneAgent, Numbered, Next, \A e \in PhoneWires, b \in BOOLEAN : ~PhoneConnects(e, b),
         NEW a \in AgentWires, NEW n \in Numbers, NEW d \in PhoneWires, Means(a, n, d)'
  PROVE  Known(a, n, d) /\ ~AgentCloses(a)
<1>1. ASSUME UNCHANGED <<toAgent, slot>>, toRoom' \subseteq toRoom PROVE Known(a, n, d)
  BY <1>1 DEF Means, About, Known
<1>2. ASSUME NEW e \in Here, NEW fs \in Tellings(e), Tell(fs), UNCHANGED <<toRoom, slot, ag, last>>
      PROVE  Known(a, n, d)
  BY <1>2, TellingMeans DEF Known
<1>3. ASSUME NEW b \in AgentWires, NEW m \in Numbers,
             (\E ok \in BOOLEAN : Hear(b, ok)) \/ Speak(b, m) \/ GiveUp(b, m)
      PROVE  Known(a, n, d)
  BY <1>3, AgentEndMeans DEF Known
<1>4. ASSUME NEW b \in AgentWires, AgentCloses(b) PROVE Known(a, n, d) /\ a # b
  BY <1>4, CloseMeans DEF Known
<1>5. ~AgentCloses(a)
  BY <1>4
<1> QED BY <1>1, <1>2, <1>3, <1>4, <1>5, Carrying

(* Every step leaves each number one meaning.                              *)
LEMMA OneMeaningStep ==
  ASSUME TypeOK, OneAgent, Numbered, OneMeaning, Next
  PROVE  OneMeaning'
<1>1. /\ last \in [AgentWires -> Nat] /\ num \in [PhoneWires -> Nat] /\ Numbers \subseteq Nat
      /\ Here \subseteq PhoneWires /\ Live \subseteq AgentWires /\ Numbers' = Numbers
  <2>1. Numbers \cup {0} \subseteq Nat
    BY NumbersAreNaturals
  <2>2. num \in [PhoneWires -> Numbers \cup {0}] /\ last \in [AgentWires -> Numbers \cup {0}]
    BY DEF TypeOK
  <2> QED BY <2>1, <2>2 DEF Here, Live, Numbers
<1> SUFFICES ASSUME NEW a \in AgentWires, NEW n \in Numbers, NEW d \in PhoneWires, Means(a, n, d)'
             PROVE  /\ d \in Connected' /\ num'[d] = n /\ n <= last'[a]
                    /\ \A e \in Here' : num'[e] = n => e = d
                    /\ \A e \in PhoneWires : Means(a, n, e)' => e = d
  BY <1>1 DEF OneMeaning
<1>2. CASE \A e \in PhoneWires, b \in BOOLEAN : ~PhoneConnects(e, b)
  <2>1. num' = num /\ Connected' = Connected /\ Here' \subseteq Here
    BY <1>2, PhonesGrowFewer
  <2>2. Known(a, n, d) /\ ~AgentCloses(a) /\ \A e \in PhoneWires : Means(a, n, e)' => Known(a, n, e)
    BY <1>2, MeansKnown
  <2>3. last[a] <= last'[a]
    <3>1. last' = last \/ (\E b \in AgentWires : AgentVerified(b, TRUE)) \/ (\E b \in AgentWires : AgentCloses(b))
      BY <1>2, AgentMoves
    <3>2. ASSUME NEW b \in AgentWires, AgentVerified(b, TRUE) PROVE last[a] <= last'[a]
      <4>1. last' = [last EXCEPT ![b] = Carried] /\ last[a] <= Carried
        BY <3>2, AgentChanges, CarriedNumber
      <4> HIDE DEF Carried
      <4> QED BY <1>1, <4>1
    <3>3. ASSUME NEW b \in AgentWires, AgentCloses(b) PROVE last[a] <= last'[a]
      <4>1. last' = [last EXCEPT ![b] = 0]
        BY <3>3, AgentChanges
      <4>2. a # b
        BY <2>2, <3>3
      <4>3. last'[a] = last[a] /\ last[a] \in Nat
        BY <1>1, <4>1, <4>2
      <4> QED BY <4>3
    <3>4. CASE last' = last
      <4>1. last[a] \in Nat
        BY <1>1
      <4> QED BY <3>4, <4>1
    <3> QED BY <3>1, <3>2, <3>3, <3>4
  <2>4. /\ d \in Connected /\ num[d] = n /\ n <= last[a]
        /\ \A e \in Here : num[e] = n => e = d
        /\ \A e \in PhoneWires : Known(a, n, e) => e = d
    BY <2>2, KnownOne
  <2>5. n <= last'[a]
    <3>1. last'[a] \in Nat
      <4>1. Numbers \cup {0} \subseteq Nat
        BY NumbersAreNaturals
      <4>2. last'[a] \in Numbers \cup {0}
        BY NumberTypes
      <4> QED BY <4>1, <4>2
    <3> QED BY <1>1, <2>3, <2>4, <3>1
  <2> QED BY <2>1, <2>2, <2>4, <2>5
<1>3. ASSUME NEW c \in PhoneWires, NEW b \in BOOLEAN, PhoneConnects(c, b)
      PROVE  /\ d \in Connected' /\ num'[d] = n /\ n <= last'[a]
             /\ \A e \in Here' : num'[e] = n => e = d
             /\ \A e \in PhoneWires : Means(a, n, e)' => e = d
  <2>1. PICK l \in Live : Connects(c, l)
    BY <1>3, Connecting
  <2>2. \A e \in PhoneWires : Means(a, n, e)' =>
          Means(a, n, e) \/ (GetsNumber(c, l) /\ a = l /\ e = c /\ n = last[l] + 1)
    BY <2>1, ConnectMeans
  <2>3. \A e \in PhoneWires : Means(a, n, e) =>
        /\ e \in Connected /\ num[e] = n /\ n <= last[a]
        /\ \A f \in Here : num[f] = n => f = e
        /\ \A f \in PhoneWires : Means(a, n, f) => f = e
    BY DEF OneMeaning
  <2>4. CASE Refused(c)
    <3>1. last' = last /\ num' = num /\ Connected' = Connected /\ Here' \subseteq Here
      BY <2>1, <2>4, Joining DEF Refused
    <3>2. ~GetsNumber(c, l)
      BY <2>4 DEF Refused, GetsNumber
    <3> QED BY <2>2, <2>3, <3>1, <3>2
  <2>5. CASE GetsNumber(c, l)
    <3>1. /\ Connected' = Connected \cup {c} /\ c \notin Connected /\ Here' \subseteq Here \cup {c}
          /\ num' = [num EXCEPT ![c] = last[l] + 1] /\ last' = [last EXCEPT ![l] = last[l] + 1]
      BY <2>1, <2>5, Joining DEF GetsNumber
    <3>2. last[a] <= last[l] /\ \A e \in Here : num[e] <= last[l]
      BY DEF Numbered
    <3>3. CASE Means(a, n, d)
      <4>1. n < last[l] + 1 /\ d # c /\ num'[d] = n /\ n <= last'[a]
        BY <1>1, <2>3, <3>1, <3>2, <3>3
      <4> QED BY <1>1, <2>2, <2>3, <3>1, <3>3, <4>1
    <3>4. CASE a = l /\ d = c /\ n = last[l] + 1
      <4>1. num'[d] = n /\ last'[a] = n /\ d \in Connected'
        BY <1>1, <3>1, <3>4
      <4>2. \A e \in Here' : num'[e] = n => e = d
        BY <1>1, <3>1, <3>2, <3>4
      <4>3. \A e \in PhoneWires : ~Means(a, n, e)
        BY <1>1, <2>3, <3>2, <3>4
      <4> QED BY <1>1, <2>2, <3>4, <4>1, <4>2, <4>3
    <3> QED BY <2>2, <3>3, <3>4
  <2> QED BY <2>1, <2>4, <2>5 DEF Connects
<1> QED BY <1>2, <1>3

-----------------------------------------------------------------------------
(* The agent.                                                              *)

(* Every step leaves one agent at most, and nobody without it.             *)
LEMMA OneAgentStep ==
  ASSUME TypeOK, OneAgent, Numbered, Next
  PROVE  OneAgent'
<1>1. /\ \A a, b \in Live : a = b
      /\ Live = {} => \A d \in PhoneWires : dev[d] \notin Present
      /\ \A a \in AgentWires, n \in Numbers, d \in PhoneWires : Means(a, n, d) => ag[a] \in {"live", "retired"}
  BY DEF OneAgent
<1>2. \A a \in Live : ag[a] \in {"live", "retired"}
  BY DEF Live
<1>3. /\ Numbers' = Numbers
      /\ \A a \in Live', b \in Live' : a = b
      /\ Live' = {} => \A d \in PhoneWires : dev'[d] \notin Present
      /\ \A a \in AgentWires, n \in Numbers, d \in PhoneWires : Means(a, n, d)' => ag'[a] \in {"live", "retired"}
      => OneAgent'
  BY DEF OneAgent
<1>4. Numbers' = Numbers
  BY DEF Numbers
<1>5. CASE \A e \in PhoneWires, b \in BOOLEAN : ~PhoneConnects(e, b)
  <2>1. \A d \in PhoneWires : dev'[d] \in Present => dev[d] \in Present
    BY <1>5, PhonesGrowFewer
  <2>2. \A a \in AgentWires, n \in Numbers, d \in PhoneWires : Means(a, n, d)' =>
          ag[a] \in {"live", "retired"} /\ ~AgentCloses(a)
    BY <1>1, <1>2, <1>5, MeansKnown DEF Known
  <2>3. CASE /\ Live' \subseteq Live
             /\ \A a \in AgentWires : ag[a] \in {"live", "retired"} => ag'[a] \in {"live", "retired"}
             /\ Live' # Live => \A d \in PhoneWires : dev'[d] \notin Present
    BY <1>1, <1>3, <1>4, <2>1, <2>2, <2>3
  <2>4. ASSUME NEW a \in AgentWires, AgentVerified(a, TRUE) PROVE OneAgent'
    <3>1. /\ Live' = {a}
          /\ \A b \in AgentWires \ {a} : ag'[b] = ag[b] \/ (ag[b] = "live" /\ ag'[b] = "retired")
      BY <2>4, AgentChanges
    <3>2. ag'[a] = "live"
      BY <3>1 DEF Live
    <3>3. \A b \in AgentWires : ag[b] \in {"live", "retired"} => ag'[b] \in {"live", "retired"}
      BY <3>1, <3>2
    <3> QED BY <1>3, <1>4, <2>2, <3>1, <3>3
  <2>5. ASSUME NEW a \in AgentWires, AgentCloses(a) PROVE OneAgent'
    <3>1. /\ Live' = Live \ {a} /\ ag' = [ag EXCEPT ![a] = "none"]
          /\ a \in Live => \A d \in PhoneWires : dev'[d] \notin Present
      BY <2>5, AgentChanges
    <3>2. Live' = {} => \A d \in PhoneWires : dev'[d] \notin Present
      BY <1>1, <2>1, <3>1
    <3>3. \A b \in AgentWires, n \in Numbers, d \in PhoneWires : Means(b, n, d)' =>
            ag'[b] = ag[b] /\ ag[b] \in {"live", "retired"}
      BY <2>2, <2>5, <3>1 DEF TypeOK
    <3> QED BY <1>1, <1>3, <1>4, <3>1, <3>2, <3>3
  <2> QED BY <1>5, <2>3, <2>4, <2>5, AgentMoves
<1>6. ASSUME NEW c \in PhoneWires, NEW b \in BOOLEAN, PhoneConnects(c, b) PROVE OneAgent'
  <2>1. PICK l \in Live : Connects(c, l)
    BY <1>6, Connecting
  <2>2. ag' = ag /\ Live' = {l} /\ Live = {l}
    BY <2>1, Joining DEF Connects
  <2>3. \A a \in AgentWires, n \in Numbers, d \in PhoneWires : Means(a, n, d)' => Means(a, n, d) \/ a = l
    BY <2>1, ConnectMeans
  <2> QED BY <1>1, <1>2, <1>3, <1>4, <2>2, <2>3
<1> QED BY <1>5, <1>6

(* Without self-hosting the agent hears only under proven keys.            *)
LEMMA NamesProvenKeyStep ==
  ASSUME TypeOK, OneAgent, Numbered, NamesProvenKey, Next
  PROVE  NamesProvenKey'
<1>1. selfHosted' = selfHosted /\ toAgent \in [AgentWires -> Seq(Frames)]
  BY DEF Next, TypeOK
<1>2. CASE selfHosted
  BY <1>1, <1>2 DEF NamesProvenKey
<1>3. CASE ~selfHosted
  <2>1. \A a \in AgentWires : \A i \in 1..Len(toAgent[a]) : toAgent[a][i].good
    BY <1>3 DEF NamesProvenKey
  <2> SUFFICES ASSUME NEW a \in AgentWires, NEW i \in 1..Len(toAgent'[a]) PROVE toAgent'[a][i].good
    BY DEF NamesProvenKey
  <2>2. CASE toAgent' = toAgent
    BY <2>1, <2>2
  <2>3. ASSUME NEW e \in Here, NEW fs \in Tellings(e), Tell(fs) PROVE toAgent'[a][i].good
    <3>1. fs \in Seq(Frames) /\ \A j \in 1..Len(fs) : fs[j].good
      BY <1>3, TellingFrames
    <3>2. CASE a \in Live
      <4> DEFINE q == toAgent[a]
      <4>1. toAgent'[a] = q \o fs /\ q \in Seq(Frames)
        BY <1>1, <2>3, <3>2 DEF Tell
      <4>2. \A j \in 1..Len(q) : q[j].good
        BY <2>1
      <4> HIDE DEF q
      <4>3. i \in 1..(Len(q) + Len(fs)) /\ Len(q) \in Nat /\ Len(fs) \in Nat
        BY <3>1, <4>1
      <4>4. CASE i <= Len(q)
        <5>1. (q \o fs)[i] = q[i] /\ i \in 1..Len(q)
          BY <3>1, <4>1, <4>3, <4>4
        <5> QED BY <4>1, <4>2, <5>1
      <4>5. CASE i > Len(q)
        <5>1. (q \o fs)[i] = fs[i - Len(q)] /\ i - Len(q) \in 1..Len(fs)
          BY <3>1, <4>1, <4>3, <4>5
        <5> QED BY <3>1, <4>1, <5>1
      <4> QED BY <4>3, <4>4, <4>5
    <3>3. CASE a \notin Live
      BY <2>1, <2>3, <3>3 DEF Tell
    <3> QED BY <3>2, <3>3
  <2>4. ASSUME NEW b \in AgentWires, NEW ok \in BOOLEAN, Hear(b, ok) PROVE toAgent'[a][i].good
    <3>1. toAgent' = [toAgent EXCEPT ![b] = Tail(@)] /\ toAgent[b] # <<>>
      BY <2>4 DEF Hear
    <3>2. CASE a = b
      <4>1. toAgent'[a] = Tail(toAgent[a]) /\ toAgent[a] \in Seq(Frames) /\ toAgent[a] # <<>>
        BY <1>1, <3>1, <3>2
      <4>2. toAgent'[a][i] = toAgent[a][i + 1] /\ i + 1 \in 1..Len(toAgent[a])
        BY <4>1
      <4> QED BY <2>1, <4>2
    <3>3. CASE a # b
      BY <1>1, <2>1, <3>1, <3>3
    <3> QED BY <3>2, <3>3
  <2>5. ASSUME NEW b \in AgentWires, AgentCloses(b) PROVE toAgent'[a][i].good
    <3>1. toAgent' = [toAgent EXCEPT ![b] = <<>>]
      BY <2>5 DEF AgentCloses
    <3>2. toAgent'[a] = toAgent[a]
      BY <1>1, <3>1
    <3> QED BY <2>1, <3>2
  <2>6. ASSUME NEW c \in PhoneWires, NEW b \in BOOLEAN, PhoneConnects(c, b) PROVE toAgent' = toAgent
    BY <1>3, <2>6, Connecting DEF Connects, Refused, GetsNumber
  <2> QED BY <2>2, <2>3, <2>4, <2>5, <2>6, Carrying DEF Speak, GiveUp
<1> QED BY <1>2, <1>3

-----------------------------------------------------------------------------
(* Slots of phones that are gone.                                          *)

(* What a frame that is heard does to a slot.                              *)
LEMMA HearSlot ==
  ASSUME TypeOK, NEW a \in AgentWires, NEW ok \in BOOLEAN, Hear(a, ok), NEW n \in Numbers
  PROVE  LET f == Head(toAgent[a]) IN
         /\ toAgent[a] # <<>> /\ toAgent' = [toAgent EXCEPT ![a] = Tail(@)] /\ f \in Frames
         /\ \A b \in AgentWires \ {a} : slot'[b] = slot[b]
         /\ \/ slot'[a][n] = slot[a][n] /\ ~(f.k = "closed" /\ f.n = n)
            \/ f.k = "closed" /\ f.n = n /\ slot'[a][n] = NoSlot
            \/ f.k = "opened" /\ f.n = n /\ slot'[a][n].d = f.d
            \/ f.k = "data" /\ slot[a][n] # NoSlot /\ slot'[a][n].d = slot[a][n].d
<1> DEFINE f == Head(toAgent[a])
           v == slot[a][f.n]
<1>1. /\ toAgent \in [AgentWires -> Seq(Frames)] /\ slot \in [AgentWires -> [Numbers -> Slots]]
  BY DEF TypeOK
<1>2. /\ toAgent[a] # <<>> /\ toAgent' = [toAgent EXCEPT ![a] = Tail(@)]
      /\ (HearOpened(a, f) \/ HearClosed(a, f) \/ HearData(a, f, ok))
  BY DEF Hear
<1>3. f \in Frames /\ f.n \in Numbers
  <2>1. f \in Frames
    BY <1>1, <1>2
  <2> QED BY <2>1 DEF Frames
<1> HIDE DEF f
<1>4. \A w : SetSlot(a, f.n, w) =>
        /\ \A b \in AgentWires \ {a} : slot'[b] = slot[b]
        /\ slot'[a][n] = IF f.n = n THEN w ELSE slot[a][n]
  BY <1>1, <1>3 DEF SetSlot
<1> DEFINE Goal == /\ \A b \in AgentWires \ {a} : slot'[b] = slot[b]
                   /\ \/ slot'[a][n] = slot[a][n] /\ ~(f.k = "closed" /\ f.n = n)
                      \/ f.k = "closed" /\ f.n = n /\ slot'[a][n] = NoSlot
                      \/ f.k = "opened" /\ f.n = n /\ slot'[a][n].d = f.d
                      \/ f.k = "data" /\ slot[a][n] # NoSlot /\ slot'[a][n].d = slot[a][n].d
<1>5. CASE HearOpened(a, f)
  <2> DEFINE w == [s |-> "fresh", d |-> f.d]
  <2>1. f.k = "opened" /\ SetSlot(a, f.n, w) /\ w.d = f.d
    BY <1>5 DEF HearOpened
  <2> HIDE DEF w
  <2>2. Goal
    BY <1>4, <2>1
  <2> QED BY <1>2, <1>3, <2>2 DEF f
<1>6. CASE HearClosed(a, f)
  <2>1. f.k = "closed" /\ SetSlot(a, f.n, NoSlot)
    BY <1>6 DEF HearClosed
  <2>2. Goal
    BY <1>4, <2>1
  <2> QED BY <1>2, <1>3, <2>2 DEF f
<1>7. CASE HearData(a, f, ok) /\ v.s \in {"fresh", "up"}
  <2> DEFINE s == IF ok THEN "up" ELSE "dead"
             w == [v EXCEPT !.s = s]
  <2>1. f.k = "data" /\ SetSlot(a, f.n, w)
    BY <1>7 DEF HearData
  <2>2. v \in Slots /\ v # NoSlot
    <3>1. v \in Slots
      BY <1>1, <1>3
    <3>2. v.s # "none"
      BY <1>7
    <3> HIDE DEF v
    <3> QED BY <3>1, <3>2, SlotFields
  <2>3. w.d = v.d
    <3>1. s \in {"up", "dead"}
      OBVIOUS
    <3> HIDE DEF s, v
    <3> QED BY <2>2, <3>1, SlotFields
  <2> HIDE DEF w
  <2>4. CASE f.n = n
    <3>1. slot'[a][n] = w /\ slot[a][n] = v
      BY <1>4, <2>1, <2>4
    <3>2. Goal
      BY <1>4, <2>1, <2>2, <2>3, <3>1
    <3> QED BY <1>2, <1>3, <3>2 DEF f
  <2>5. CASE f.n # n
    <3>1. Goal
      BY <1>4, <2>1, <2>5
    <3> QED BY <1>2, <1>3, <3>1 DEF f
  <2> QED BY <2>4, <2>5
<1>8. CASE HearData(a, f, ok) /\ v.s \notin {"fresh", "up"}
  <2>1. f.k = "data" /\ slot' = slot
    BY <1>8 DEF HearData
  <2>2. Goal
    BY <2>1
  <2> QED BY <1>2, <1>3, <2>2 DEF f
<1> QED BY <1>2, <1>5, <1>6, <1>7, <1>8

(* A frame that is no part of the meaning of a number does not change what *)
(* follows there.                                                          *)
LEMMA NotAbout ==
  ASSUME NEW n, NEW m, NEW d, NEW e, NEW f \in About(m, e), d # e
  PROVE  f \notin Opens(n, d)
BY DEF Opens, About

(* While a phone is gone, frames of other phones keep its end in place.    *)
LEMMA TellingCloses ==
  ASSUME TypeOK, Numbered, NEW e \in Here, NEW fs \in Tellings(e), Tell(fs),
         NEW a \in Live, NEW n \in Numbers, NEW d \in PhoneWires, d # e
  PROVE  /\ Followed(toAgent[a], Opens(n, d), Closes(n)) => Followed(toAgent'[a], Opens(n, d), Closes(n))
         /\ Has(toAgent[a], Closes(n)) => Has(toAgent'[a], Closes(n))
<1> DEFINE q == toAgent[a]
           F == Opens(n, d)
           G == Closes(n)
<1>1. q \in Seq(Frames) /\ fs \in Seq(Frames) /\ toAgent'[a] = q \o fs
  BY TellingFrames DEF TypeOK, Live, Tell
<1>2. ~Has(fs, F)
  BY TellingFrames, NotAbout DEF Has
<1> HIDE DEF q, F, G
<1>3. Followed(q, F, G) => Followed(q \o fs, F, G)
  BY <1>1, <1>2, StillFollowed
<1>4. Has(q, G) => Has(q \o fs, G)
  BY <1>1, Behind
<1> QED BY <1>1, <1>3, <1>4 DEF q, F, G

(* The close of a phone's wire is told to the agent.                       *)
LEMMA ToldClosed ==
  ASSUME TypeOK, Numbered, OneMeaning, NEW d \in PhoneWires, PhoneCloses(d), NEW a \in Live, NEW n \in Numbers
  PROVE  /\ Followed(toAgent'[a], Opens(n, d), Closes(n))
         /\ slot'[a][n] # NoSlot /\ slot'[a][n].d = d => Has(toAgent'[a], Closes(n))
<1> DEFINE q == toAgent[a]
           f == Frame("closed", d, TRUE)
           F == Opens(n, d)
           G == Closes(n)
<1>1. d \in Here /\ a \in AgentWires
  BY DEF PhoneCloses, Here, Live
<1>2. f \in Frames /\ f.k = "closed" /\ f.n = num[d]
  BY <1>1, FrameTypes DEF Frame
<1>3. q \in Seq(Frames) /\ slot' = slot
  BY <1>1 DEF TypeOK, PhoneCloses
<1>4. toAgent'[a] = q \o <<f>>
  BY <1>1 DEF PhoneCloses, Tell
<1>5. f \notin F
  BY <1>2 DEF Opens
<1>6. num[d] = n => f \in G
  BY <1>2 DEF Closes
<1>7. num[d] # n => ~Has(q, F) /\ ~(slot[a][n] # NoSlot /\ slot[a][n].d = d)
  <2>1. num[d] # n => ~Means(a, n, d)
    BY <1>1 DEF OneMeaning
  <2> QED BY <2>1 DEF Means, Opens, Has
<1> HIDE DEF q, f, F, G
<1>8. q \o <<f>> = Append(q, f)
  BY <1>2, <1>3, AppendIsConcat
<1>9. ~Has(q, F) => Followed(q, F, G)
  BY DEF Has, Followed
<1>10. Followed(Append(q, f), F, G)
  BY <1>2, <1>3, <1>5, <1>6, <1>7, <1>9, Joins
<1>11. num[d] = n => Has(Append(q, f), G)
  BY <1>2, <1>3, <1>6, Joins
<1> QED BY <1>3, <1>4, <1>7, <1>8, <1>10, <1>11 DEF q, f, F, G

(* What the agent hears leaves an end behind each phone that is gone.      *)
LEMMA HearCloses ==
  ASSUME TypeOK, NEW a \in AgentWires, NEW ok \in BOOLEAN, Hear(a, ok), NEW n \in Numbers, NEW d \in PhoneWires,
         Followed(toAgent[a], Opens(n, d), Closes(n)),
         slot[a][n] # NoSlot /\ slot[a][n].d = d => Has(toAgent[a], Closes(n))
  PROVE  /\ Followed(toAgent'[a], Opens(n, d), Closes(n))
         /\ slot'[a][n] # NoSlot /\ slot'[a][n].d = d => Has(toAgent'[a], Closes(n))
<1> DEFINE q == toAgent[a]
           f == Head(q)
           F == Opens(n, d)
           G == Closes(n)
<1>1. /\ q # <<>> /\ q \in Seq(Frames) /\ toAgent'[a] = Tail(q) /\ f \in Frames
      /\ \/ slot'[a][n] = slot[a][n] /\ ~(f.k = "closed" /\ f.n = n)
         \/ f.k = "closed" /\ f.n = n /\ slot'[a][n] = NoSlot
         \/ f.k = "opened" /\ f.n = n /\ slot'[a][n].d = f.d
         \/ f.k = "data" /\ slot[a][n] # NoSlot /\ slot'[a][n].d = slot[a][n].d
  BY HearSlot DEF TypeOK
<1>2. f \in G <=> f.k = "closed" /\ f.n = n
  BY <1>1 DEF Closes
<1>3. f.k = "opened" /\ f.n = n /\ f.d = d => f \in F
  BY <1>1 DEF Opens, About
<1>4. Followed(q, F, G) /\ (slot[a][n] # NoSlot /\ slot[a][n].d = d => Has(q, G))
  OBVIOUS
<1> DEFINE h == Head(q)
<1> HIDE DEF q, F, G
<1>5. /\ Has(q, G) => h \in G \/ Has(Tail(q), G)
      /\ Followed(Tail(q), F, G) /\ (h \in F => Has(Tail(q), G))
  BY <1>1, <1>4, Leaves
<1>6. slot'[a][n] # NoSlot /\ slot'[a][n].d = d => Has(Tail(q), G)
  BY <1>1, <1>2, <1>3, <1>4, <1>5
<1> QED BY <1>1, <1>5, <1>6 DEF q, F, G

(* Every step leaves an end behind each phone that is gone.                *)
LEMMA ClosedLaterStep ==
  ASSUME TypeOK, OneAgent, Numbered, OneMeaning, ClosedLater, Next
  PROVE  ClosedLater'
<1>1. /\ toAgent \in [AgentWires -> Seq(Frames)] /\ slot \in [AgentWires -> [Numbers -> Slots]]
      /\ Live \subseteq AgentWires /\ Numbers' = Numbers
  BY DEF TypeOK, Live, Numbers
<1> DEFINE Kept2(a, n, d) ==
             /\ Followed(toAgent'[a], Opens(n, d), Closes(n))
             /\ slot'[a][n] # NoSlot /\ slot'[a][n].d = d => Has(toAgent'[a], Closes(n))
<1> SUFFICES ASSUME NEW a \in Live', NEW n \in Numbers, NEW d \in PhoneWires, dev'[d] = "gone"
             PROVE  Kept2(a, n, d)
  BY <1>1 DEF ClosedLater, Opens, Closes, About
<1>2. a \in AgentWires
  BY DEF Live
<1>3. a \in Live /\ dev[d] = "gone" =>
        /\ Followed(toAgent[a], Opens(n, d), Closes(n))
        /\ slot[a][n] # NoSlot /\ slot[a][n].d = d => Has(toAgent[a], Closes(n))
  BY DEF ClosedLater
<1>4. CASE \A e \in PhoneWires, b \in BOOLEAN : ~PhoneConnects(e, b)
  <2>1. CASE PhoneCloses(d)
    <3>1. Live' = Live
      BY <2>1 DEF PhoneCloses, agVars, Live
    <3> QED BY <2>1, <3>1, ToldClosed
  <2>2. CASE ~PhoneCloses(d)
    <3>1. dev[d] = "gone"
      BY <1>4, <2>2, PhoneMoves
    <3>2. ASSUME AgentVerified(a, TRUE) PROVE Kept2(a, n, d)
      <4>1. ag[a] = "verifying" /\ UNCHANGED <<toAgent, slot>>
        BY <1>2, <3>2, AgentChanges
      <4>2. ~Means(a, n, d)
        BY <1>2, <4>1 DEF OneAgent
      <4>3. ~Has(toAgent[a], Opens(n, d)) /\ ~(slot[a][n] # NoSlot /\ slot[a][n].d = d)
        BY <4>2 DEF Means, Has, Opens
      <4> QED BY <4>1, <4>3 DEF Followed, Has
    <3>3. ASSUME a \in Live PROVE Kept2(a, n, d)
      <4>1. CASE UNCHANGED <<toAgent, slot>>
        BY <1>3, <3>1, <3>3, <4>1
      <4>2. ASSUME NEW e \in Here, NEW fs \in Tellings(e), Tell(fs), slot' = slot PROVE Kept2(a, n, d)
        <5>1. d # e
          BY <3>1 DEF Here, Present, Waiting, Checked
        <5> QED BY <1>3, <3>1, <3>3, <4>2, <5>1, TellingCloses
      <4>3. ASSUME NEW b \in AgentWires, NEW ok \in BOOLEAN, Hear(b, ok) PROVE Kept2(a, n, d)
        <5>1. CASE a = b
          BY <1>2, <1>3, <3>1, <3>3, <4>3, <5>1, HearCloses
        <5>2. CASE a # b
          <6>1. slot'[a] = slot[a] /\ toAgent'[a] = toAgent[a]
            BY <1>1, <1>2, <4>3, <5>2, HearSlot
          <6> QED BY <1>3, <3>1, <3>3, <6>1
        <5> QED BY <5>1, <5>2
      <4>4. ASSUME NEW b \in AgentWires, NEW m \in Numbers, Speak(b, m) \/ GiveUp(b, m) PROVE Kept2(a, n, d)
        <5> DEFINE v == slot[b][m]
        <5>1. v \in Slots /\ v # NoSlot
          <6>1. v \in Slots
            BY <1>1
          <6>2. v.s # "none"
            BY <4>4 DEF Speak, GiveUp
          <6> HIDE DEF v
          <6> QED BY <6>1, <6>2, SlotFields
        <5>2. toAgent' = toAgent /\ (slot' = slot \/ slot' = [slot EXCEPT ![b][m] = [v EXCEPT !.s = "dead"]])
          BY <4>4 DEF Speak, GiveUp, SetSlot
        <5>3. [v EXCEPT !.s = "dead"].d = v.d
          <6> HIDE DEF v
          <6> QED BY <5>1, SlotFields
        <5>4. slot'[a][n].d = slot[a][n].d /\ (slot[a][n] = NoSlot => slot'[a][n] = NoSlot)
          <6>1. CASE slot'[a][n] = slot[a][n]
            BY <6>1
          <6>2. CASE slot'[a][n] # slot[a][n]
            <7> DEFINE w == [v EXCEPT !.s = "dead"]
            <7>1. a = b /\ n = m /\ slot'[a][n] = w
              <8>1. slot' = [slot EXCEPT ![b][m] = w]
                BY <5>2, <6>2
              <8> HIDE DEF w, v
              <8> QED BY <1>1, <1>2, <6>2, <8>1
            <7> QED BY <5>1, <5>3, <7>1
          <6> QED BY <6>1, <6>2
        <5> QED BY <1>3, <3>1, <3>3, <5>2, <5>4
      <4>5. ASSUME NEW b \in AgentWires, AgentCloses(b) PROVE Kept2(a, n, d)
        <5>1. a # b
          BY <4>5, AgentChanges
        <5>2. toAgent'[a] = toAgent[a] /\ slot'[a] = slot[a]
          BY <1>1, <1>2, <4>5, <5>1 DEF AgentCloses
        <5> QED BY <1>3, <3>1, <3>3, <5>2
      <4> QED BY <1>4, <4>1, <4>2, <4>3, <4>4, <4>5, Carrying
    <3>4. a \in Live \/ AgentVerified(a, TRUE)
      <4>1. ASSUME NEW b \in AgentWires, AgentVerified(b, TRUE) PROVE AgentVerified(a, TRUE)
        <5>1. Live' = {b}
          BY <4>1, AgentChanges
        <5>2. a = b
          BY <5>1
        <5> QED BY <4>1, <5>2
      <4>2. ASSUME NEW b \in AgentWires, AgentCloses(b) PROVE a \in Live
        BY <4>2, AgentChanges
      <4> QED BY <1>4, <4>1, <4>2, AgentMoves
    <3> QED BY <3>2, <3>3, <3>4
  <2> QED BY <2>1, <2>2
<1>5. ASSUME NEW c \in PhoneWires, NEW b \in BOOLEAN, PhoneConnects(c, b) PROVE Kept2(a, n, d)
  <2>1. PICK l \in Live : Connects(c, l)
    BY <1>5, Connecting
  <2>2. Live' = Live /\ slot' = slot /\ l \in AgentWires
    BY <1>1, <2>1, Joining DEF Connects
  <2>3. d # c /\ dev[d] = "gone"
    BY <2>1 DEF Connects, Refused, GetsNumber
  <2>4. CASE toAgent' = toAgent
    BY <1>3, <2>2, <2>3, <2>4
  <2>5. CASE GetsNumber(c, l) /\ toAgent' = [toAgent EXCEPT ![l] = Append(@, Opened(l, c))]
    <3> DEFINE q == toAgent[l]
               f == Opened(l, c)
               F == Opens(n, d)
               G == Closes(n)
    <3>1. f \in Frames /\ f \in About(last[l] + 1, c) /\ q \in Seq(Frames)
      BY <1>1, <2>2, <2>5 DEF Opened, Frames, GetsNumber, About
    <3>2. f \notin F
      BY <2>3, <3>1, NotAbout
    <3>3. toAgent'[l] = Append(q, f) /\ \A e \in AgentWires \ {l} : toAgent'[e] = toAgent[e]
      BY <1>1, <2>2, <2>5
    <3> HIDE DEF q, f, F, G
    <3>4. /\ Followed(q, F, G) => Followed(Append(q, f), F, G)
          /\ Has(q, G) => Has(Append(q, f), G)
      BY <3>1, <3>2, Joins
    <3>5. CASE a = l
      BY <1>3, <2>2, <2>3, <3>3, <3>4, <3>5 DEF q, F, G
    <3>6. CASE a # l
      BY <1>2, <1>3, <2>2, <2>3, <3>3, <3>6
    <3> QED BY <3>5, <3>6
  <2> QED BY <2>1, <2>4, <2>5 DEF Connects, Refused, GetsNumber
<1> QED BY <1>4, <1>5

-----------------------------------------------------------------------------
(* The tags.                                                               *)

\* What the agent's wires and the phones' wires are made of.
AgentTags ==
  /\ ag \in [AgentWires -> Proving \cup {"none", "live", "retired", "refused"}]
  /\ agLate \in [AgentWires -> BOOLEAN] /\ plus \in BOOLEAN
PhoneTags ==
  /\ dev \in [PhoneWires -> DevStates]
  /\ late \in [PhoneWires -> BOOLEAN] /\ free \in [PhoneWires -> BOOLEAN]
  /\ held \in [PhoneWires -> {"no", "good", "bad"}] /\ bound \in [PhoneWires -> BOOLEAN]

(* The types, agents and phones apart.                                     *)
LEMMA TypeParts ==
  TypeOK <=> /\ AgentTags /\ PhoneTags /\ selfHosted \in BOOLEAN
             /\ num \in [PhoneWires -> Numbers \cup {0}] /\ last \in [AgentWires -> Numbers \cup {0}]
             /\ toAgent \in [AgentWires -> Seq(Frames)] /\ toRoom \subseteq Replies
             /\ slot \in [AgentWires -> [Numbers -> Slots]]
BY DEF TypeOK, AgentTags, PhoneTags, DevStates

(* Every step keeps the tags of the right kind.                            *)
LEMMA TagTypes ==
  ASSUME TypeOK, Next
  PROVE  AgentTags' /\ PhoneTags'
<1> USE DEF Proving
<1>1. /\ AgentTags /\ PhoneTags /\ CutAll \in [PhoneWires -> DevStates]
      /\ \A p \in BOOLEAN : Enforced(p) \in [PhoneWires -> DevStates]
      /\ \A ds \in SUBSET PhoneWires : /\ Evict(dev, ds) \in [PhoneWires -> DevStates]
                                       /\ Evict(Enforced(plus), ds) \in [PhoneWires -> DevStates]
  BY TypeParts, EvictTypes
<1>2. ASSUME UNCHANGED devVars PROVE PhoneTags'
  BY <1>1, <1>2 DEF PhoneTags, devVars
<1>3. ASSUME UNCHANGED agVars PROVE AgentTags'
  BY <1>1, <1>3 DEF AgentTags, agVars
<1>4. ASSUME UNCHANGED <<late, free, held, bound>>, dev' \in [PhoneWires -> DevStates] PROVE PhoneTags'
  BY <1>1, <1>4 DEF PhoneTags
<1>5. ASSUME NEW a \in AgentWires, AgentConnects(a) PROVE AgentTags' /\ PhoneTags'
  BY <1>1, <1>2, <1>5 DEF AgentConnects, AgentTags
<1>6. ASSUME NEW a \in AgentWires, AgentChallenged(a) \/ AgentProves(a) PROVE AgentTags' /\ PhoneTags'
  BY <1>1, <1>2, <1>6 DEF AgentChallenged, AgentProves, AgentTags
<1>7. ASSUME NEW a \in AgentWires, NEW ok \in BOOLEAN, AgentVerified(a, ok) PROVE AgentTags' /\ PhoneTags'
  <2>1. dev' = CutAll \/ dev' = dev
    BY <1>7 DEF AgentVerified
  <2>2. UNCHANGED <<late, free, held, bound>> /\ dev' \in [PhoneWires -> DevStates]
    BY <1>1, <1>7, <2>1 DEF AgentVerified, PhoneTags
  <2>3. AgentTags'
    BY <1>1, <1>7 DEF AgentVerified, AgentTags
  <2> QED BY <1>4, <2>2, <2>3
<1>8. ASSUME NEW a \in AgentWires, AgentMisbehaves(a) \/ AgentCloses(a) PROVE AgentTags' /\ PhoneTags'
  <2>1. dev' = CutAll \/ dev' = dev
    BY <1>8 DEF AgentMisbehaves, AgentCloses
  <2>2. UNCHANGED <<late, free, held, bound>> /\ dev' \in [PhoneWires -> DevStates]
    BY <1>1, <1>8, <2>1 DEF AgentMisbehaves, AgentCloses, PhoneTags
  <2>3. AgentTags'
    BY <1>1, <1>8 DEF AgentMisbehaves, AgentCloses, AgentTags
  <2> QED BY <1>4, <2>2, <2>3
<1>9. CASE \/ \E a \in AgentWires, ok \in BOOLEAN : Hear(a, ok)
           \/ \E a \in AgentWires, n \in Numbers : Speak(a, n) \/ GiveUp(a, n)
  BY <1>2, <1>3, <1>9 DEF Hear, Speak, GiveUp
<1>10. CASE (\E p \in BOOLEAN : TicketSet(p)) \/ TicketExpires
  BY <1>1, <1>2, <1>4, <1>10 DEF TicketSet, TicketExpires, AgentTags
<1>11. CASE TimePasses
  BY <1>1, <1>11 DEF TimePasses, AgentTags, PhoneTags
<1>12. ASSUME NEW f \in toRoom, FromAgent(f) PROVE AgentTags' /\ PhoneTags'
  <2>1. f \in Replies
    BY DEF TypeOK
  <2>2. Handled(Enforced(plus), f) \in [PhoneWires -> DevStates]
    BY <1>1, <2>1, DevTypes DEF AgentTags
  <2> QED BY <1>3, <1>4, <1>12, <2>2 DEF FromAgent
<1>13. ASSUME NEW d \in PhoneWires,
              PhoneChallenged(d) \/ PhoneTooSoon(d) \/ PhoneProves(d) \/ PhoneMisbehaves(d) \/ PhoneCloses(d)
       PROVE  AgentTags' /\ PhoneTags'
  <2>1. UNCHANGED agVars /\ UNCHANGED <<late, free, held, bound>>
    BY <1>13 DEF PhoneChallenged, PhoneTooSoon, PhoneProves, PhoneMisbehaves, PhoneCloses
  <2>2. \A w \in DevStates : [dev EXCEPT ![d] = w] \in [PhoneWires -> DevStates]
    BY <1>1 DEF PhoneTags
  <2>3. {"challenged", "verifying", "evicted", "gone"} \subseteq DevStates /\ {d} \in SUBSET PhoneWires
    BY DEF DevStates, Present, Waiting, Checked
  <2>4. \/ \E w \in {"challenged", "verifying", "evicted", "gone"} : dev' = [dev EXCEPT ![d] = w]
        \/ dev' = Evict(dev, {d}) \/ dev' = Evict(Enforced(plus), {d})
    BY <1>13 DEF PhoneChallenged, PhoneTooSoon, PhoneProves, PhoneMisbehaves, PhoneCloses
  <2>5. dev' \in [PhoneWires -> DevStates]
    BY <1>1, <2>2, <2>3, <2>4
  <2> QED BY <1>3, <1>4, <2>1, <2>5
<1>14. ASSUME NEW d \in PhoneWires, NEW b \in BOOLEAN,
              \/ PhoneConnects(d, b) \/ PhoneHeld(d, b) \/ PhoneVerified(d, b)
              \/ LedgerAnswers(d, b) \/ FreeSlotLeaves(d, b) \/ PhoneSends(d, b)
       PROVE  AgentTags' /\ PhoneTags'
  <2>1. \A w \in DevStates, ds \in SUBSET PhoneWires :
          [Evict(dev, ds) EXCEPT ![d] = w] \in [PhoneWires -> DevStates]
          /\ [dev EXCEPT ![d] = w] \in [PhoneWires -> DevStates]
    BY <1>1 DEF PhoneTags
  <2>2. {"open", "making", "asking", "evicted"} \subseteq DevStates /\ {d} \in SUBSET PhoneWires
    BY DEF DevStates, Present, Waiting, Checked
  <2>3. CASE PhoneConnects(d, b)
    <3> DEFINE waiting == {e \in PhoneWires : dev[e] \in Waiting}
               swept   == {e \in waiting : late[e]}
               left    == waiting \ swept
               oldest  == IF Cardinality(left) < MaxPendingPhones THEN {}
                          ELSE {e \in left : \A f \in left : num[e] <= num[f]}
               out == IF selfHosted THEN "open" ELSE IF b THEN "making" ELSE "evicted"
    <3>1. swept \in SUBSET PhoneWires /\ swept \cup oldest \in SUBSET PhoneWires
      OBVIOUS
    <3>2. dev' = Evict(dev, swept) \/ dev' = [Evict(dev, swept \cup oldest) EXCEPT ![d] = out]
      BY <2>3 DEF PhoneConnects
    <3>3. out \in {"open", "making", "asking", "evicted"}
      OBVIOUS
    <3> HIDE DEF swept, oldest, out
    <3>4. dev' \in [PhoneWires -> DevStates]
      BY <1>1, <2>1, <2>2, <3>1, <3>2, <3>3
    <3>5. UNCHANGED <<ag, agLate, plus, late, free, held, bound>>
      BY <2>3 DEF PhoneConnects
    <3> QED BY <1>1, <1>4, <3>4, <3>5 DEF AgentTags
  <2>4. CASE PhoneHeld(d, b)
    <3>1. held' \in [PhoneWires -> {"no", "good", "bad"}] /\ dev' \in [PhoneWires -> DevStates]
      BY <1>1, <2>2, <2>4 DEF PhoneHeld, PhoneTags
    <3> QED BY <1>1, <1>3, <2>4, <3>1 DEF PhoneHeld, PhoneTags
  <2>5. CASE PhoneVerified(d, b)
    BY <1>3, <1>4, <2>1, <2>2, <2>5 DEF PhoneVerified
  <2>6. CASE LedgerAnswers(d, b)
    <3>1. dev' \in [PhoneWires -> DevStates]
      BY <1>1, <2>1, <2>2, <2>6 DEF LedgerAnswers
    <3>2. /\ free' \in [PhoneWires -> BOOLEAN] /\ bound' \in [PhoneWires -> BOOLEAN]
          /\ held' \in [PhoneWires -> {"no", "good", "bad"}]
      BY <1>1, <2>6 DEF LedgerAnswers, PhoneTags, AgentTags
    <3> QED BY <1>1, <1>3, <2>6, <3>1, <3>2 DEF LedgerAnswers, PhoneTags
  <2>7. CASE FreeSlotLeaves(d, b)
    <3>1. dev' \in [PhoneWires -> DevStates] /\ free' \in [PhoneWires -> BOOLEAN]
      BY <1>1, <2>2, <2>7 DEF FreeSlotLeaves, PhoneTags
    <3> QED BY <1>1, <1>3, <2>7, <3>1 DEF FreeSlotLeaves, PhoneTags
  <2>8. CASE PhoneSends(d, b)
    <3>1. dev' \in [PhoneWires -> DevStates]
      BY <1>1, <2>2, <2>8 DEF PhoneSends, AgentTags
    <3>2. bound' \in [PhoneWires -> BOOLEAN]
      BY <1>1, <2>8 DEF PhoneSends, PhoneTags
    <3> QED BY <1>1, <1>3, <2>8, <3>1, <3>2 DEF PhoneSends, PhoneTags
  <2> QED BY <1>14, <2>3, <2>4, <2>5, <2>6, <2>7, <2>8
<1> QED BY <1>5, <1>6, <1>7, <1>8, <1>9, <1>10, <1>11, <1>12, <1>13, <1>14 DEF Next, Steps

(* Every step keeps the types.                                             *)
LEMMA TypeStep ==
  ASSUME TypeOK, OneAgent, Numbered, Next
  PROVE  TypeOK'
<1>1. AgentTags' /\ PhoneTags' /\ selfHosted' \in BOOLEAN
  BY TagTypes, TypeParts DEF Next
<1>2. /\ num' \in [PhoneWires -> Numbers \cup {0}] /\ last' \in [AgentWires -> Numbers \cup {0}]
      /\ toAgent' \in [AgentWires -> Seq(Frames)] /\ toRoom' \subseteq Replies
      /\ slot' \in [AgentWires -> [Numbers -> Slots]]
  BY QueueTypes, NumberTypes
<1> QED BY <1>1, <1>2 DEF TypeOK, AgentTags, PhoneTags, DevStates, Numbers, Frames, Replies, Slots

-----------------------------------------------------------------------------
(* The invariant, and what follows from it.                                *)

(* The invariant holds at the start.                                       *)
LEMMA RoomInvAtFirst == Init => RoomInv
<1> SUFFICES ASSUME Init PROVE RoomInv
  OBVIOUS
<1>1. TypeOK
  BY TypesAtFirst
<1>2. \A a \in AgentWires : ag[a] = "none" /\ last[a] = 0 /\ toAgent[a] = <<>> /\ \A n \in Numbers : slot[a][n] = NoSlot
  BY DEF Init
<1>3. (\A d \in PhoneWires : dev[d] = "idle" /\ num[d] = 0) /\ toRoom = {}
  BY DEF Init
<1>4. Live = {} /\ Here = {} /\ Connected = {}
  BY <1>2, <1>3 DEF Live, Here, Connected, Present, Waiting, Checked
<1>5. \A a \in AgentWires, n \in Numbers, d \in PhoneWires : ~Means(a, n, d)
  BY <1>2, <1>3, EmptyQueue DEF Means
<1>6. OneAgent
  BY <1>3, <1>4, <1>5 DEF OneAgent, Present, Waiting, Checked
<1>7. Numbered
  <2>1. Cardinality(Connected) = 0
    BY <1>4, FS_EmptySet
  <2> QED BY <1>2, <1>3, <1>4, <2>1 DEF Numbered
<1>8. OneMeaning
  BY <1>5 DEF OneMeaning
<1>9. ClosedLater
  BY <1>4 DEF ClosedLater
<1>10. NamesProvenKey
  <2>1. \A a \in AgentWires : Len(toAgent[a]) = 0
    BY <1>2
  <2> QED BY <2>1 DEF NamesProvenKey
<1> QED BY <1>1, <1>6, <1>7, <1>8, <1>9, <1>10 DEF RoomInv

(* Every step, and a stuttering one, keeps it.                             *)
LEMMA RoomInvStep ==
  ASSUME RoomInv, [Next]_vars
  PROVE  RoomInv'
<1>1. CASE Next
  BY <1>1, TypeStep, OneAgentStep, NumberedStep, OneMeaningStep, ClosedLaterStep, NamesProvenKeyStep DEF RoomInv
<1>2. CASE UNCHANGED vars
  <2>1. TypeOK'
    BY <1>2 DEF RoomInv, TypeOK, vars, agVars, devVars, Numbers, Frames, Replies, Slots
  <2>2. Live' = Live /\ Here' = Here /\ Connected' = Connected /\ Numbers' = Numbers
    BY <1>2 DEF vars, agVars, devVars, Live, Here, Connected, Numbers
  <2>3. \A a \in AgentWires, n \in Numbers, d \in PhoneWires : Means(a, n, d)' <=> Means(a, n, d)
    BY <1>2 DEF vars, Means, About
  <2>4. OneAgent' /\ Numbered'
    BY <1>2, <2>2, <2>3 DEF RoomInv, OneAgent, Numbered, vars, agVars, devVars
  <2>5. OneMeaning'
    BY <1>2, <2>2, <2>3 DEF RoomInv, OneMeaning, vars, agVars, devVars
  <2>6. ClosedLater'
    BY <1>2, <2>2 DEF RoomInv, ClosedLater, Opens, Closes, About, vars, agVars, devVars
  <2>7. NamesProvenKey'
    BY <1>2 DEF RoomInv, NamesProvenKey, vars
  <2> QED BY <2>1, <2>4, <2>5, <2>6, <2>7 DEF RoomInv
<1> QED BY <1>1, <1>2

(* The inductive invariant holds in every state of a room.                 *)
THEOREM RoomInvariant == Spec => []RoomInv
<1>1. Init => RoomInv
  BY RoomInvAtFirst
<1>2. RoomInv /\ [Next]_vars => RoomInv'
  BY RoomInvStep
<1> QED BY <1>1, <1>2, PTL DEF Spec

(* The tags of the room's sockets, what is on its way between the room and *)
(* its agents, and the agents' tables keep their types.                    *)
THEOREM TypeCorrect == Spec => []TypeOK
<1>1. RoomInv => TypeOK
  BY DEF RoomInv
<1> QED BY <1>1, RoomInvariant, PTL

(* Whatever an agent sends under a number reaches the phone it was meant   *)
(* for or nobody, and whatever it hears of one concerns the phone its slot *)
(* was opened for (room.ts: numbers only grow, and are carried over).      *)
THEOREM CarriedAsMeantHolds == Spec => []CarriedAsMeant
<1>1. RoomInv => CarriedAsMeant
  <2> SUFFICES ASSUME RoomInv PROVE RoutedAsMeant /\ HeardAsMeant
    BY DEF CarriedAsMeant
  <2>1. /\ toAgent \in [AgentWires -> Seq(Frames)] /\ toRoom \subseteq Replies
        /\ slot \in [AgentWires -> [Numbers -> Slots]]
    BY DEF RoomInv, TypeOK
  <2>2. \A a \in AgentWires, n \in Numbers, d \in PhoneWires : Means(a, n, d) =>
          /\ \A e \in Here : num[e] = n => e = d
          /\ \A e \in PhoneWires : Means(a, n, e) => e = d
    BY DEF RoomInv, OneMeaning
  <2>3. ASSUME NEW f \in toRoom PROVE WireOf(dev, f.n) \subseteq {f.to}
    <3>1. f.a \in AgentWires /\ f.n \in Numbers /\ f.to \in PhoneWires
      BY <2>1 DEF Replies
    <3>2. Means(f.a, f.n, f.to)
      BY DEF Means
    <3> QED BY <2>2, <3>1, <3>2 DEF WireOf, Here
  <2>4. ASSUME NEW a \in AgentWires, toAgent[a] # <<>>,
               slot[a][Head(toAgent[a]).n] # NoSlot
        PROVE  slot[a][Head(toAgent[a]).n].d = Head(toAgent[a]).d
    <3> DEFINE q == toAgent[a]
               f == Head(q)
               v == slot[a][f.n]
    <3>1. q \in Seq(Frames) /\ q # <<>>
      BY <2>1, <2>4
    <3>2. f \in Frames
      BY <3>1
    <3>3. f.n \in Numbers /\ f.d \in PhoneWires /\ f \in About(f.n, f.d)
      BY <3>2 DEF Frames, About
    <3>4. v \in Slots /\ v # NoSlot
      BY <2>1, <2>4, <3>3
    <3>5. v.d \in PhoneWires
      <4> HIDE DEF v
      <4> QED BY <3>4, SlotFields
    <3>6. Means(a, f.n, v.d)
      BY <3>4 DEF Means
    <3>7. Has(q, About(f.n, f.d))
      <4> DEFINE F == About(f.n, f.d)
                 h == Head(q)
      <4>1. h \in F
        BY <3>3
      <4> HIDE DEF F, q
      <4>2. Has(q, F)
        BY <3>1, <4>1, Leaves
      <4> QED BY <4>2 DEF F
    <3>8. Means(a, f.n, f.d)
      BY <3>7 DEF Means
    <3> HIDE DEF f, v
    <3>9. v.d = f.d
      BY <2>2, <3>3, <3>5, <3>6, <3>8
    <3> QED BY <3>9 DEF f, v
  <2> QED BY <2>3, <2>4 DEF RoutedAsMeant, HeardAsMeant
<1> QED BY <1>1, RoomInvariant, PTL

(* No phone leaves an orphan slot at the agent: each slot is of a wire     *)
(* that exists, or its "closed" is on its way (room.ts onClose).           *)
THEOREM NoOrphanSlotHolds == Spec => []NoOrphanSlot
<1>1. RoomInv => NoOrphanSlot
  <2> SUFFICES ASSUME RoomInv, NEW a \in Live, NEW n \in Numbers, slot[a][n] # NoSlot, dev[slot[a][n].d] = "gone"
               PROVE  \E i \in 1..Len(toAgent[a]) : toAgent[a][i].k = "closed" /\ toAgent[a][i].n = n
    BY DEF NoOrphanSlot
  <2> DEFINE v == slot[a][n]
  <2>1. v \in Slots /\ v # NoSlot
    BY DEF RoomInv, TypeOK, Live
  <2>2. v.d \in PhoneWires
    <3> HIDE DEF v
    <3> QED BY <2>1, SlotFields
  <2>3. Has(toAgent[a], Closes(n))
    BY <2>1, <2>2 DEF RoomInv, ClosedLater
  <2> QED BY <2>3 DEF Has, Closes
<1> QED BY <1>1, RoomInvariant, PTL

(* The first message the agent gets of a phone is a handshake that names   *)
(* the key the phone's wire has proved (room.ts #binds).                   *)
THEOREM NamesProvenKeyHolds == Spec => []NamesProvenKey
<1>1. RoomInv => NamesProvenKey
  BY DEF RoomInv
<1> QED BY <1>1, RoomInvariant, PTL

-----------------------------------------------------------------------------
(* Limits: no more wires wait, and no more phones are admitted, than there *)
(* is room for, and whatever passes through passes under the plan in force.*)

LimitsInv == WaitingRooms /\ AdmittedBounded

WaitingPhones == {d \in PhoneWires : dev[d] \in Waiting}

-----------------------------------------------------------------------------
(* The plan.                                                               *)

(* One wire more than fewer than a limit is within the limit.              *)
LEMMA OneMore ==
  ASSUME NEW S, NEW T, S \subseteq PhoneWires \/ S \subseteq AgentWires, NEW x, T \subseteq S \cup {x},
         NEW m \in Nat, Cardinality(S) < m
  PROVE  Cardinality(T) <= m
<1>1. IsFiniteSet(S) /\ Cardinality(S) \in Nat
  BY WireSets
<1>2. /\ IsFiniteSet(S \cup {x})
      /\ Cardinality(S \cup {x}) = IF x \in S THEN Cardinality(S) ELSE Cardinality(S) + 1
  BY <1>1, FS_AddElement
<1>3. Cardinality(T) <= Cardinality(S \cup {x}) /\ Cardinality(T) \in Nat
  BY <1>2, FS_Subset, FS_CardinalityType
<1> QED BY <1>1, <1>2, <1>3

(* #enforce keeps no more phones than the plan allows: numbers differ.     *)
LEMMA KeptLimit ==
  ASSUME TypeOK, Numbered, NEW p \in BOOLEAN
  PROVE  Cardinality(Kept(p)) <= Limit(p)
<1> DEFINE entitled == {d \in Admitted : Entitled(d, p)}
           K == Kept(p)
           below(d) == {e \in entitled : num[e] < num[d]}
<1>1. /\ K \subseteq entitled /\ entitled \subseteq Here /\ Here \subseteq PhoneWires
      /\ \A d \in K : Cardinality(below(d)) < Limit(p)
  BY DEF Kept, Admitted, Here, Present
<1>2. Limit(p) \in Nat
  BY Limits
<1>3. CASE K = {}
  BY <1>2, <1>3, FS_EmptySet
<1>4. CASE K # {}
  <2> DEFINE N == {num[d] : d \in K}
  <2>1. N \in SUBSET Nat /\ N # {} /\ \A d \in PhoneWires : num[d] \in Nat
    <3>1. Numbers \cup {0} \subseteq Nat
      BY NumbersAreNaturals
    <3>2. num \in [PhoneWires -> Numbers \cup {0}]
      BY DEF TypeOK
    <3> HIDE DEF K
    <3> QED BY <1>1, <1>4, <3>1, <3>2
  <2>2. Cardinality(Connected) \in Nat /\ \A x \in N : x <= Cardinality(Connected)
    <3>1. Cardinality(Connected) \in Nat
      BY WireSets DEF Connected
    <3>2. \A d \in K : num[d] <= Cardinality(Connected)
      BY <1>1 DEF Numbered
    <3> HIDE DEF K
    <3> QED BY <3>1, <3>2
  <2>3. Max(N) \in N /\ \A y \in N : y <= Max(N)
    <3> HIDE DEF N
    <3> QED BY <2>1, <2>2, MaxOfBounded
  <2>4. PICK d \in K : \A e \in K : num[e] <= num[d]
    <3> HIDE DEF K
    <3> QED BY <2>3
  <2>5. \A e \in K \ {d} : num[e] < num[d]
    <3>1. \A e \in K \ {d} : num[e] # num[d]
      BY <1>1, <2>4 DEF Numbered
    <3> HIDE DEF K
    <3> QED BY <1>1, <2>1, <2>4, <3>1
  <2>6. K \subseteq below(d) \cup {d}
    BY <1>1, <2>5
  <2>7. below(d) \subseteq PhoneWires /\ Cardinality(below(d)) < Limit(p)
    BY <1>1, <2>4
  <2> HIDE DEF K, below
  <2> QED BY <1>2, <2>6, <2>7, OneMore DEF K
<1> QED BY <1>3, <1>4

\* The phones that are admitted after the step, and whether plan p, with the
\* marks of that moment, lets them all be.
Now == {d \in PhoneWires : dev'[d] = "admitted"}
PlanHolds ==
  /\ Cardinality(Now) <= Limit(plus')
  /\ \A d \in Now : selfHosted \/ plus' \/ free'[d]

(* It holds whenever only phones are left that #enforce has kept.          *)
LEMMA KeptNow ==
  ASSUME TypeOK, Numbered, UNCHANGED <<plus, free>>, Now \subseteq Kept(plus)
  PROVE  PlanHolds
<1>1. plus \in BOOLEAN
  BY DEF TypeOK
<1>2. Kept(plus) \subseteq PhoneWires
  BY DEF Kept, Admitted
<1>3. Cardinality(Now) <= Cardinality(Kept(plus)) /\ Cardinality(Kept(plus)) \in Nat /\ Cardinality(Now) \in Nat
  BY <1>2, WireSets DEF Now
<1>4. Limit(plus) \in Nat /\ Cardinality(Kept(plus)) <= Limit(plus)
  BY <1>1, KeptLimit, Limits
<1>5. \A d \in Now : selfHosted \/ plus' \/ free'[d]
  BY <1>1, Enforcing DEF Entitled, Now
<1> QED BY <1>3, <1>4, <1>5 DEF PlanHolds

(* A frame of the agent admits one phone at most, if there is room for it. *)
LEMMA FrameAdmits ==
  ASSUME TypeOK, Numbered, NEW f \in toRoom, FromAgent(f)
  PROVE  PlanHolds /\ plus' = plus
<1> DEFINE dv == Enforced(plus)
<1>1. plus \in BOOLEAN /\ UNCHANGED <<plus, free>> /\ dev' = Handled(dv, f)
  BY DEF TypeOK, FromAgent, agVars
<1>2. \A d \in PhoneWires : dv[d] = IF dev[d] = "admitted" /\ d \notin Kept(plus) THEN "evicted" ELSE dev[d]
  BY <1>1, Enforcing
<1>3. Kept(plus) = {d \in PhoneWires : dv[d] = "admitted"}
  BY <1>1, <1>2, Enforcing DEF Kept, Admitted
<1> HIDE DEF dv
<1>4. \A d \in Now : \/ d \in Kept(plus)
                     \/ d \in WireOf(dv, f.n) /\ Promotes(dv, d)
  BY <1>1, <1>3 DEF Now, Handled
<1>5. CASE Now \subseteq Kept(plus)
  BY <1>1, <1>5, KeptNow
<1>6. CASE ~(Now \subseteq Kept(plus))
  <2>1. PICK t \in Now : t \in WireOf(dv, f.n) /\ Promotes(dv, t)
    BY <1>4, <1>6
  <2>2. \A d \in WireOf(dv, f.n) : d \in Here /\ num[d] = f.n
    BY <1>2 DEF WireOf, Here, Present
  <2>3. \A d \in WireOf(dv, f.n) : d = t
    BY <2>1, <2>2 DEF Numbered
  <2>4. Now \subseteq Kept(plus) \cup {t}
    BY <1>4, <2>3
  <2>5. Cardinality(Kept(plus)) < Limit(plus) /\ Entitled(t, plus)
    BY <1>3, <2>1 DEF Promotes
  <2>6. Kept(plus) \subseteq PhoneWires /\ Limit(plus) \in Nat
    BY <1>1, Limits DEF Kept, Admitted
  <2>7. Cardinality(Now) <= Limit(plus)
    BY <2>4, <2>5, <2>6, OneMore
  <2>8. \A d \in Now : Entitled(d, plus)
    BY <1>1, <2>4, <2>5, Enforcing DEF Now
  <2> QED BY <1>1, <2>7, <2>8 DEF PlanHolds, Entitled
<1> QED BY <1>1, <1>5, <1>6

(* A phone's message leaves only phones that #enforce has kept.            *)
LEMMA MessageAdmits ==
  ASSUME TypeOK, Numbered, NEW d \in PhoneWires, NEW b \in BOOLEAN, PhoneSends(d, b)
  PROVE  PlanHolds
<1>1. plus \in BOOLEAN
  BY DEF TypeOK
<1>2. UNCHANGED <<plus, free>> /\ (dev' = Enforced(plus) \/ dev' = Evict(Enforced(plus), {d}))
  BY DEF PhoneSends, agVars
<1>3. \A e \in Now : Enforced(plus)[e] = "admitted"
  BY <1>2, Evicted DEF Now
<1>4. Now \subseteq Kept(plus)
  BY <1>1, <1>3, Enforcing DEF Now
<1> QED BY <1>2, <1>4, KeptNow

-----------------------------------------------------------------------------
(* The limits.                                                             *)

(* No more phones are admitted than any plan allows.                       *)
LEMMA AdmittedStep ==
  ASSUME TypeOK, OneAgent, Numbered, AdmittedBounded, Next
  PROVE  Cardinality(Admitted') <= Limit(TRUE)'
<1> DEFINE m == Limit(TRUE)
<1>1. m' = m
  BY DEF Next, Limit
<1>2. m \in Nat /\ Cardinality(Admitted) <= m /\ \A p \in BOOLEAN : Limit(p) \in Nat /\ Limit(p) <= m
  BY Limits DEF AdmittedBounded
<1> SUFFICES Cardinality(Admitted') <= m
  BY <1>1
<1> HIDE DEF m
<1>3. Admitted \subseteq PhoneWires /\ Admitted' \subseteq PhoneWires
  BY DEF Admitted
<1>4. ASSUME Admitted' \subseteq Admitted PROVE Cardinality(Admitted') <= m
  <2>1. Cardinality(Admitted') <= Cardinality(Admitted)
    BY <1>3, <1>4, WireSets
  <2>2. Cardinality(Admitted) \in Nat /\ Cardinality(Admitted') \in Nat
    BY <1>3, WireSets
  <2> QED BY <1>2, <2>1, <2>2
<1>5. CASE \E d \in PhoneWires, b \in BOOLEAN : PhoneConnects(d, b)
  <2>1. PICK d \in PhoneWires, b \in BOOLEAN : PhoneConnects(d, b)
    BY <1>5
  <2>2. PICK a \in Live : Connects(d, a)
    BY <2>1, Connecting
  <2>3. dev'[d] # "admitted" /\ \A e \in PhoneWires \ {d} : dev'[e] = "admitted" => dev[e] = "admitted"
    BY <2>2 DEF Connects, Refused, GetsNumber
  <2>4. Admitted' \subseteq Admitted
    BY <2>3 DEF Admitted
  <2> QED BY <1>4, <2>4
<1>6. CASE \E f \in toRoom : FromAgent(f)
  <2>1. PlanHolds /\ plus' \in BOOLEAN
    BY <1>6, FrameAdmits DEF TypeOK
  <2>2. Limit(plus') \in Nat /\ Limit(plus') <= m
    BY <1>2, <2>1
  <2>3. Admitted' = Now /\ Cardinality(Now) \in Nat
    BY <1>3, WireSets DEF Admitted, Now
  <2> QED BY <1>2, <2>1, <2>2, <2>3 DEF PlanHolds
<1>7. CASE /\ \A d \in PhoneWires, b \in BOOLEAN : ~PhoneConnects(d, b)
           /\ ~\E f \in toRoom : FromAgent(f)
  <2>1. \A d \in PhoneWires : dev'[d] = "admitted" => dev[d] = "admitted"
    BY <1>7, PhoneMoves
  <2>2. Admitted' \subseteq Admitted
    BY <2>1 DEF Admitted
  <2> QED BY <1>4, <2>2
<1> QED BY <1>5, <1>6, <1>7

(* No more wires of agents wait for their proof than there is room for.    *)
LEMMA PendingStep ==
  ASSUME TypeOK, OneAgent, Numbered, Cardinality(Pending) <= MaxPendingAgents, Next
  PROVE  Cardinality(Pending') <= MaxPendingAgents
<1>1. MaxPendingAgents \in Nat /\ Pending \subseteq AgentWires /\ Pending' \subseteq AgentWires
  BY LimitsAssumption DEF Pending
<1>2. Pending' \subseteq Pending => Cardinality(Pending') <= MaxPendingAgents
  <2>1. Pending' \subseteq Pending => Cardinality(Pending') <= Cardinality(Pending)
    BY <1>1, WireSets
  <2>2. Cardinality(Pending) \in Nat /\ Cardinality(Pending') \in Nat
    BY <1>1, WireSets
  <2> QED BY <1>1, <2>1, <2>2
<1>3. ASSUME NEW a \in AgentWires, AgentConnects(a) PROVE Cardinality(Pending') <= MaxPendingAgents
  <2> DEFINE swept == {b \in Pending : agLate[b]}
             left  == Pending \ swept
  <2>1. \A b \in AgentWires : ag'[b] = IF b \in swept THEN "refused"
                                       ELSE IF b = a /\ Cardinality(left) < MaxPendingAgents
                                       THEN "reserving" ELSE ag[b]
    BY <1>3 DEF AgentConnects
  <2>2. swept \subseteq Pending /\ left \subseteq AgentWires
    BY <1>1
  <2> HIDE DEF swept
  <2>3. CASE Cardinality(left) < MaxPendingAgents
    <3>1. Pending' \subseteq left \cup {a}
      BY <2>1, <2>3 DEF Pending, Proving
    <3> HIDE DEF left
    <3> QED BY <1>1, <2>2, <2>3, <3>1, OneMore
  <2>4. CASE ~(Cardinality(left) < MaxPendingAgents)
    <3>1. Pending' \subseteq Pending
      BY <2>1, <2>4 DEF Pending, Proving
    <3> QED BY <1>2, <3>1
  <2> QED BY <2>3, <2>4
<1>4. ASSUME NEW a \in AgentWires, AgentVerified(a, TRUE) PROVE Pending' \subseteq Pending
  <2>1. /\ Live' = {a} /\ ag[a] = "verifying"
        /\ \A b \in AgentWires \ {a} : ag'[b] = ag[b] \/ (ag[b] = "live" /\ ag'[b] = "retired")
    BY <1>4, AgentChanges
  <2> QED BY <2>1 DEF Pending, Proving
<1>5. ASSUME NEW a \in AgentWires, AgentCloses(a) PROVE Pending' \subseteq Pending
  <2>1. ag' = [ag EXCEPT ![a] = "none"]
    BY <1>5, AgentChanges
  <2> QED BY <2>1 DEF Pending, Proving, TypeOK
<1>6. ASSUME NEW d \in PhoneWires, NEW b \in BOOLEAN, PhoneConnects(d, b) PROVE Pending' \subseteq Pending
  BY <1>6 DEF PhoneConnects, Pending
<1>7. ASSUME \A a \in AgentWires : ag'[a] \in Proving => ag[a] \in Proving \/ AgentConnects(a)
      PROVE  Cardinality(Pending') <= MaxPendingAgents
  <2>1. CASE \E a \in AgentWires : AgentConnects(a)
    BY <1>3, <2>1
  <2>2. CASE ~\E a \in AgentWires : AgentConnects(a)
    <3>1. Pending' \subseteq Pending
      BY <1>7, <2>2 DEF Pending
    <3> QED BY <1>2, <3>1
  <2> QED BY <2>1, <2>2
<1> QED BY <1>2, <1>4, <1>5, <1>6, <1>7, AgentMoves

(* No more phones wait to be admitted than there is room for.              *)
LEMMA WaitingStep ==
  ASSUME TypeOK, OneAgent, Numbered, Cardinality(WaitingPhones) <= MaxPendingPhones, Next
  PROVE  Cardinality(WaitingPhones') <= MaxPendingPhones
<1>1. /\ MaxPendingPhones \in Nat \ {0}
      /\ WaitingPhones \subseteq PhoneWires /\ WaitingPhones' \subseteq PhoneWires
  BY LimitsAssumption DEF WaitingPhones
<1>2. Cardinality(WaitingPhones) \in Nat /\ Cardinality(WaitingPhones') \in Nat
  BY <1>1, WireSets
<1>3. ASSUME WaitingPhones' \subseteq WaitingPhones PROVE Cardinality(WaitingPhones') <= MaxPendingPhones
  <2>1. Cardinality(WaitingPhones') <= Cardinality(WaitingPhones)
    BY <1>1, <1>3, WireSets
  <2> QED BY <1>1, <1>2, <2>1
<1>4. CASE \A d \in PhoneWires, b \in BOOLEAN : ~PhoneConnects(d, b)
  <2>1. WaitingPhones' \subseteq WaitingPhones
    BY <1>4, PhonesGrowFewer DEF WaitingPhones
  <2> QED BY <1>3, <2>1
<1>5. ASSUME NEW d \in PhoneWires, NEW b \in BOOLEAN, PhoneConnects(d, b)
      PROVE  Cardinality(WaitingPhones') <= MaxPendingPhones
  <2> DEFINE waiting == {e \in PhoneWires : dev[e] \in Waiting}
             swept   == {e \in waiting : late[e]}
             left    == waiting \ swept
             oldest  == IF Cardinality(left) < MaxPendingPhones THEN {}
                        ELSE {e \in left : \A f \in left : num[e] <= num[f]}
             out     == IF selfHosted THEN "open" ELSE IF b THEN "making" ELSE "evicted"
  <2>1. PICK a \in Live : Connects(d, a)
    BY <1>5, Connecting
  <2>2. CASE Refused(d)
    <3>1. WaitingPhones' \subseteq WaitingPhones
      BY <2>1, <2>2 DEF Connects, Refused, WaitingPhones, Waiting, Checked
    <3> QED BY <1>3, <3>1
  <2>3. CASE dev' = [Evict(dev, swept \cup oldest) EXCEPT ![d] = out]
    <3>1. WaitingPhones' \subseteq (left \ oldest) \cup {d}
      <4>1. \A e \in PhoneWires \ {d} : dev'[e] = IF e \in swept \cup oldest THEN "evicted" ELSE dev[e]
        BY <2>3, Evicted DEF Evict
      <4>2. \A e \in PhoneWires \ {d} : dev'[e] \in Waiting => dev[e] \in Waiting /\ e \notin swept \cup oldest
        BY <4>1 DEF Waiting, Checked
      <4> QED BY <4>2 DEF WaitingPhones
    <3>2. left \subseteq WaitingPhones
      BY DEF WaitingPhones
    <3> HIDE DEF left, swept
    <3>3. /\ IsFiniteSet(left) /\ Cardinality(left) \in Nat /\ left \ oldest \subseteq PhoneWires
          /\ Cardinality(left) <= Cardinality(WaitingPhones)
      BY <1>1, <3>2, WireSets
    <3>4. Cardinality(left \ oldest) < MaxPendingPhones
      <4>1. CASE Cardinality(left) < MaxPendingPhones
        BY <4>1
      <4>2. CASE ~(Cardinality(left) < MaxPendingPhones)
        <5> DEFINE N == {num[e] : e \in left}
        <5>1. left # {}
          BY <1>1, <4>2, FS_EmptySet
        <5>2. N \in SUBSET Nat /\ N # {}
          <6>1. Numbers \cup {0} \subseteq Nat
            BY NumbersAreNaturals
          <6>2. num \in [PhoneWires -> Numbers \cup {0}] /\ left \subseteq PhoneWires
            BY <1>1, <3>2 DEF TypeOK
          <6> QED BY <5>1, <6>1, <6>2
        <5>3. \E x \in N : \A y \in N : x <= y
          <6> HIDE DEF N
          <6> QED BY <5>2, Least
        <5>4. PICK e \in left : \A f \in left : num[e] <= num[f]
          BY <5>3
        <5>5. e \in oldest /\ left \ oldest \subseteq left \ {e}
          BY <4>2, <5>4
        <5> HIDE DEF oldest
        <5>6. Cardinality(left \ {e}) = Cardinality(left) - 1 /\ left \ {e} \subseteq PhoneWires
          BY <1>1, <3>2, <3>3, <5>4, FS_RemoveElement
        <5>7. Cardinality(left \ oldest) <= Cardinality(left \ {e}) /\ Cardinality(left \ oldest) \in Nat
          BY <3>3, <5>5, <5>6, WireSets
        <5> QED BY <1>1, <1>2, <3>3, <5>6, <5>7
      <4> QED BY <4>1, <4>2
    <3> HIDE DEF oldest
    <3> QED BY <1>1, <3>1, <3>3, <3>4, OneMore
  <2>4. Refused(d) \/ dev' = [Evict(dev, swept \cup oldest) EXCEPT ![d] = out]
    <3>1. CASE Cardinality(Admitted) >= Limit(plus)
      <4>1. dev' = Evict(dev, swept) /\ UNCHANGED <<last, num, toAgent>> /\ dev[d] = "idle"
        BY <1>5, <3>1 DEF PhoneConnects
      <4>2. dev'[d] = "idle"
        BY <4>1, Evicted DEF Waiting, Checked
      <4> QED BY <4>1, <4>2 DEF Refused
    <3>2. CASE ~(Cardinality(Admitted) >= Limit(plus))
      BY <1>5, <3>2 DEF PhoneConnects
    <3> QED BY <3>1, <3>2
  <2> QED BY <2>2, <2>3, <2>4
<1> QED BY <1>4, <1>5

(* The limits hold at the start.                                           *)
LEMMA LimitsAtFirst == Init => LimitsInv
<1> SUFFICES ASSUME Init PROVE LimitsInv
  OBVIOUS
<1>1. /\ Live = {} /\ Admitted = {} /\ {a \in AgentWires : ag[a] \in Proving} = {}
      /\ {d \in PhoneWires : dev[d] \in Waiting} = {} /\ \A d \in PhoneWires : dev[d] \notin Present
  BY DEF Init, Live, Admitted, Proving, Present, Waiting, Checked
<1>2. Limit(TRUE) \in Nat /\ MaxPendingAgents \in Nat /\ MaxPendingPhones \in Nat
  BY Limits
<1> DEFINE m == Limit(TRUE)
<1>3. m \in Nat
  BY <1>2
<1> HIDE DEF m
<1>4. Cardinality(Admitted) <= m
  BY <1>1, <1>3, FS_EmptySet
<1>5. WaitingRooms
  BY <1>1, <1>2, FS_EmptySet DEF WaitingRooms
<1>6. AdmittedBounded
  BY <1>1, <1>4 DEF AdmittedBounded, m
<1> QED BY <1>5, <1>6 DEF LimitsInv

(* Every step keeps within the limits.                                     *)
LEMMA LimitsStep ==
  ASSUME RoomInv, RoomInv', LimitsInv, [Next]_vars
  PROVE  LimitsInv'
<1>1. CASE Next
  <2>1. Pending = {a \in AgentWires : ag[a] \in Proving} /\ Cardinality(Pending) <= MaxPendingAgents
    BY DEF Pending, LimitsInv, WaitingRooms
  <2>2. Cardinality(WaitingPhones) <= MaxPendingPhones
    BY DEF WaitingPhones, LimitsInv, WaitingRooms
  <2>3. Cardinality(Pending') <= MaxPendingAgents /\ Cardinality(WaitingPhones') <= MaxPendingPhones
    BY <1>1, <2>1, <2>2, PendingStep, WaitingStep DEF RoomInv
  <2>4. Cardinality(Live') <= 1
    <3>1. \A a, b \in Live' : a = b
      BY DEF RoomInv, OneAgent
    <3>2. CASE Live' = {}
      BY <3>2, FS_EmptySet
    <3>3. CASE Live' # {}
      <4>1. PICK a \in Live' : TRUE
        BY <3>3
      <4>2. Live' = {a}
        BY <3>1, <4>1
      <4> QED BY <4>2, FS_Singleton
    <3> QED BY <3>2, <3>3
  <2>5. Cardinality(Admitted') <= Limit(TRUE)'
    BY <1>1, AdmittedStep DEF RoomInv, LimitsInv
  <2>6. Live' = {} => \A d \in PhoneWires : dev'[d] \notin Present
    BY DEF RoomInv, OneAgent
  <2> QED BY <2>3, <2>4, <2>5, <2>6 DEF LimitsInv, WaitingRooms, AdmittedBounded, Pending, WaitingPhones
<1>2. CASE UNCHANGED vars
  BY <1>2 DEF LimitsInv, WaitingRooms, AdmittedBounded, Live, Admitted, Limit, vars, agVars, devVars
<1> QED BY <1>1, <1>2

-----------------------------------------------------------------------------
(* What is carried.                                                        *)

\* The step handles a frame of an agent, or passes on a message of a phone that is
\* past its check; or the message that was held while it was checked.
Carries ==
  /\ ag' = ag
  /\ \/ \E f \in toRoom : f \notin toRoom'
     \/ \E d \in PhoneWires : PassedOn(d) /\ dev[d] # "asking"
HeldPassedOn(d) == ag' = ag /\ PassedOn(d) /\ dev[d] = "asking"

(* A step that passes a message on adds frames to a queue, the message last. *)
LEMMA LastTold ==
  ASSUME TypeOK, Numbered, NEW d \in Here, NEW fs \in Tellings(d), Tell(fs),
         NEW e \in PhoneWires, PassedOn(e)
  PROVE  e = d /\ ~PhoneCloses(d)
<1>1. PICK a \in Live : toAgent'[a][Len(toAgent'[a])].k = "data" /\ toAgent'[a][Len(toAgent'[a])].d = e
  BY DEF PassedOn
<1> DEFINE q == toAgent[a]
<1>2. q \in Seq(Frames) /\ toAgent'[a] = q \o fs
  BY DEF TypeOK, Tell, Live
<1>3. fs \in Seq(Frames) /\ fs # <<>> /\ \A i \in 1..Len(fs) : fs[i] \in About(num[d], d)
  BY TellingFrames
<1> HIDE DEF q
<1>4. toAgent'[a][Len(toAgent'[a])] = fs[Len(fs)] /\ Len(fs) \in 1..Len(fs)
  <2>1. Len(fs) \in Nat /\ Len(q) \in Nat /\ Len(fs) # 0
    BY <1>2, <1>3, EmptySeq
  <2>2. Len(q \o fs) = Len(q) + Len(fs) /\ (q \o fs)[Len(q) + Len(fs)] = fs[Len(fs)]
    BY <1>2, <1>3, <2>1, ConcatProperties
  <2> QED BY <1>2, <2>1, <2>2
<1>5. e = d
  BY <1>1, <1>3, <1>4 DEF About
<1>6. ~PhoneCloses(d)
  <2> SUFFICES ASSUME PhoneCloses(d) PROVE FALSE
    OBVIOUS
  <2> DEFINE f == Frame("closed", d, TRUE)
  <2>1. f \in Frames /\ f.k = "closed" /\ toAgent'[a] = q \o <<f>>
    BY FrameTypes DEF PhoneCloses, Tell, Frame, q, Live, TypeOK
  <2> HIDE DEF f
  <2>2. toAgent'[a] = Append(q, f)
    BY <1>2, <2>1, AppendIsConcat
  <2>3. toAgent'[a][Len(toAgent'[a])] = f
    BY <1>2, <2>1, <2>2, AppendProperties
  <2> QED BY <1>1, <2>1, <2>3
<1> QED BY <1>5, <1>6

(* Whatever is carried is carried under the plan of that moment.           *)
LEMMA EnforcedStep ==
  ASSUME TypeOK, OneAgent, Numbered, Next, Carries \/ \E e \in PhoneWires : HeldPassedOn(e)
  PROVE  /\ Carries => PlanHolds
         /\ \A e \in PhoneWires : HeldPassedOn(e) => dev'[e] = "open" /\ (plus' \/ free'[e])
<1> DEFINE Goal == /\ Carries => PlanHolds
                   /\ \A e \in PhoneWires : HeldPassedOn(e) => dev'[e] = "open" /\ (plus' \/ free'[e])
<1> SUFFICES Goal
  OBVIOUS
<1>1. toAgent \in [AgentWires -> Seq(Frames)] /\ Live \subseteq AgentWires
  BY DEF TypeOK, Live
<1>2. \A a \in Live : Len(toAgent[a]) \in Nat /\ ~(Len(toAgent[a]) > Len(toAgent[a]))
  <2>1. \A a \in Live : Len(toAgent[a]) \in Nat
    BY <1>1
  <2> QED BY <2>1
<1>3. CASE UNCHANGED toAgent /\ (toRoom' = toRoom \/ \E f \in toRoom : FromAgent(f))
  BY <1>2, <1>3, FrameAdmits DEF Carries, HeldPassedOn, PassedOn
<1>4. ASSUME NEW d \in Here, NEW fs \in Tellings(d), Tell(fs), UNCHANGED toRoom, TellsOf(d)
      PROVE  Goal
  <2>1. PICK e \in PhoneWires : PassedOn(e)
    BY <1>4 DEF Carries, HeldPassedOn
  <2>2. d \in PhoneWires /\ ~PhoneCloses(d) /\ \A c \in PhoneWires : PassedOn(c) => c = d
    BY <1>4, <2>1, LastTold DEF Here
  <2>3. CASE dev[d] = "asking" /\ dev'[d] = "open" /\ (plus' \/ free'[d])
    <3>1. ~Carries
      BY <1>4, <2>2, <2>3 DEF Carries
    <3> QED BY <2>2, <2>3, <3>1 DEF HeldPassedOn
  <2>4. CASE \E b \in BOOLEAN : PhoneSends(d, b)
    <3>1. PlanHolds
      BY <2>2, <2>4, MessageAdmits
    <3>2. dev[d] # "asking"
      BY <2>4 DEF PhoneSends
    <3> QED BY <2>2, <3>1, <3>2 DEF HeldPassedOn
  <2> QED BY <1>4, <2>2, <2>3, <2>4 DEF TellsOf
<1>5. ASSUME NEW a \in AgentWires, NEW ok \in BOOLEAN, Hear(a, ok) PROVE Goal
  <2>1. toAgent[a] # <<>> /\ toAgent' = [toAgent EXCEPT ![a] = Tail(@)] /\ toRoom \subseteq toRoom'
    BY <1>5 DEF Hear, HearOpened, HearClosed, HearData
  <2>2. \A b \in Live : ~(Len(toAgent'[b]) > Len(toAgent[b]))
    <3> SUFFICES ASSUME NEW b \in Live PROVE ~(Len(toAgent'[b]) > Len(toAgent[b]))
      OBVIOUS
    <3>1. CASE b = a
      <4> DEFINE q == toAgent[a]
      <4>1. q \in Seq(Frames) /\ q # <<>> /\ toAgent'[b] = Tail(q)
        BY <1>1, <2>1, <3>1
      <4> HIDE DEF q
      <4>2. Len(Tail(q)) = Len(q) - 1 /\ Len(q) \in Nat
        BY <4>1
      <4> QED BY <3>1, <4>1, <4>2 DEF q
    <3>2. CASE b # a
      BY <1>1, <1>2, <2>1, <3>2
    <3> QED BY <3>1, <3>2
  <2> QED BY <2>1, <2>2 DEF Carries, HeldPassedOn, PassedOn
<1>6. ASSUME NEW a \in AgentWires, NEW n \in Numbers, Speak(a, n) \/ GiveUp(a, n) PROVE Goal
  <2>1. toAgent' = toAgent /\ toRoom \subseteq toRoom'
    BY <1>6 DEF Speak, GiveUp
  <2> QED BY <1>2, <2>1 DEF Carries, HeldPassedOn, PassedOn
<1>7. ASSUME NEW a \in AgentWires, AgentCloses(a) PROVE Goal
  <2>1. ag[a] # "none" /\ ag' = [ag EXCEPT ![a] = "none"] /\ ag' = ag
    BY <1>7 DEF AgentCloses, Carries, HeldPassedOn
  <2> QED BY <2>1 DEF TypeOK
<1>8. ASSUME NEW d \in PhoneWires, NEW b \in BOOLEAN, PhoneConnects(d, b) PROVE Goal
  <2>1. PICK l \in Live : Connects(d, l)
    BY <1>8, Connecting
  <2>2. PICK a \in Live : /\ Len(toAgent'[a]) > Len(toAgent[a])
                          /\ toAgent'[a][Len(toAgent'[a])].k = "data"
    BY <2>1 DEF Connects, Carries, HeldPassedOn, PassedOn
  <2>3. toAgent' # toAgent
    BY <1>2, <2>2
  <2>4. a = l
    BY DEF OneAgent
  <2>5. last[l] + 1 \in Numbers /\ toAgent' = [toAgent EXCEPT ![l] = Append(@, Opened(l, d))]
    BY <2>1, <2>3 DEF Connects, Refused, GetsNumber
  <2> DEFINE q == toAgent[l]
             f == Opened(l, d)
  <2>6. q \in Seq(Frames) /\ f \in Frames /\ f.k = "opened" /\ toAgent'[a] = Append(q, f)
    BY <1>1, <2>4, <2>5 DEF Opened, Frames
  <2> HIDE DEF q, f
  <2>7. toAgent'[a][Len(toAgent'[a])] = f
    BY <2>6, AppendProperties
  <2> QED BY <2>2, <2>6, <2>7
<1> QED BY <1>3, <1>4, <1>5, <1>6, <1>7, <1>8, Carrying

-----------------------------------------------------------------------------
(* In every state no more wires wait, and no more phones are admitted,     *)
(* than the limits allow; and when something was carried, the plan of that *)
(* moment holds for all who are admitted, even if the ticket ran out while *)
(* nothing happened - or, if it was a message held during the check, for   *)
(* the phone that it is of (room.ts #enforce, #admit; limits.ts).          *)
THEOREM WithinLimitsHolds == Spec => WithinLimits
<1>1. Spec => []LimitsInv
  <2>1. Init => LimitsInv
    BY LimitsAtFirst
  <2>2. RoomInv /\ RoomInv' /\ LimitsInv /\ [Next]_vars => LimitsInv'
    BY LimitsStep
  <2> QED BY <2>1, <2>2, RoomInvariant, PTL DEF Spec
<1>2. LimitsInv => WaitingRooms /\ AdmittedBounded
  BY DEF LimitsInv
<1>3. RoomInv /\ [Next]_vars => [CarriesEnforced]_vars
  BY EnforcedStep DEF RoomInv, CarriesEnforced, Carries, HeldPassedOn, PlanHolds, Now
<1>4. Spec => EnforcedWhenCarrying
  BY <1>3, RoomInvariant, PTL DEF Spec, EnforcedWhenCarrying
<1> QED BY <1>1, <1>2, <1>4, PTL DEF WithinLimits

=============================================================================
