---------------------------- MODULE TunnelProofs ----------------------------
(***************************************************************************)
(* Proofs about the tunnel, for any number of requests, subscriptions,     *)
(* lines and registrations, and whatever acts a scene allows.              *)
(***************************************************************************)
EXTENDS Tunnel, FiniteSetTheorems, SequenceTheorems, TLAPS

-----------------------------------------------------------------------------
(* Queues of messages: whether a queue holds a message of a kind, whether  *)
(* it holds at most one, and whether one kind is always followed by another;*)
(* and what the operations of a queue do to that.                          *)

\* The queue s holds a message of F.
Has(s, F) == \E i \in 1..Len(s) : s[i] \in F
\* It holds at most one.
Once(s, F) == \A i, j \in 1..Len(s) : s[i] \in F /\ s[j] \in F => i = j
\* Behind each message of F there is one of G.
Followed(s, F, G) ==
  \A i \in 1..Len(s) : s[i] \in F => \E j \in 1..Len(s) : i < j /\ s[j] \in G

(* An empty queue holds nothing.                                           *)
LEMMA EmptyQueue ==
  ASSUME NEW F, NEW G
  PROVE  ~Has(<<>>, F) /\ Once(<<>>, F) /\ Followed(<<>>, F, G)
BY DEF Has, Once, Followed

(* A message that joins a queue.                                           *)
LEMMA Joins ==
  ASSUME NEW S, NEW s \in Seq(S), NEW f \in S, NEW F, NEW G
  PROVE  /\ Append(s, f) \in Seq(S)
         /\ Has(Append(s, f), F) <=> (Has(s, F) \/ f \in F)
         /\ Once(s, F) /\ (f \notin F \/ ~Has(s, F)) => Once(Append(s, f), F)
         /\ (Followed(s, F, G) \/ f \in G) /\ f \notin F => Followed(Append(s, f), F, G)
<1> DEFINE t == Append(s, f)
<1>1. /\ t \in Seq(S) /\ Len(t) = Len(s) + 1 /\ t[Len(s) + 1] = f
      /\ \A i \in 1..Len(s) : t[i] = s[i]
  BY AppendProperties
<1>2. Len(s) \in Nat
  OBVIOUS
<1> HIDE DEF t
<1>3. Has(t, F) <=> (Has(s, F) \/ f \in F)
  BY <1>1, <1>2 DEF Has
<1>4. Once(s, F) /\ (f \notin F \/ ~Has(s, F)) => Once(t, F)
  BY <1>1, <1>2 DEF Has, Once
<1>5. (Followed(s, F, G) \/ f \in G) /\ f \notin F => Followed(t, F, G)
  <2> SUFFICES ASSUME Followed(s, F, G) \/ f \in G, f \notin F,
                      NEW i \in 1..Len(t), t[i] \in F
               PROVE  \E j \in 1..Len(t) : i < j /\ t[j] \in G
    BY DEF Followed
  <2>1. i \in 1..Len(s) /\ s[i] \in F
    BY <1>1, <1>2
  <2>2. CASE f \in G
    BY <2>1, <2>2, <1>1, <1>2
  <2>3. CASE Followed(s, F, G)
    <3>1. PICK j \in 1..Len(s) : i < j /\ s[j] \in G
      BY <2>1, <2>3 DEF Followed
    <3> QED
      BY <3>1, <1>1, <1>2
  <2> QED
    BY <2>2, <2>3
<1> QED
  BY <1>1, <1>3, <1>4, <1>5 DEF t

(* The first message leaves a queue.                                       *)
LEMMA Leaves ==
  ASSUME NEW S, NEW s \in Seq(S), s # <<>>, NEW F, NEW G
  PROVE  /\ Head(s) \in S /\ Tail(s) \in Seq(S)
         /\ Has(s, F) <=> (Head(s) \in F \/ Has(Tail(s), F))
         /\ Once(s, F) => Once(Tail(s), F) /\ (Head(s) \in F => ~Has(Tail(s), F))
         /\ Followed(s, F, G) => Followed(Tail(s), F, G) /\ (Head(s) \in F => Has(Tail(s), G))
<1> DEFINE t == Tail(s)
           h == Head(s)
<1>1. /\ h \in S /\ t \in Seq(S) /\ Len(t) = Len(s) - 1
      /\ \A i \in 1..Len(t) : t[i] = s[i + 1]
  BY HeadTailProperties
<1>2. Len(s) \in Nat \ {0} /\ h = s[1]
  BY EmptySeq
<1> HIDE DEF t, h
<1>3. \A i \in 1..Len(s) : i = 1 \/ (i - 1 \in 1..Len(t) /\ t[i - 1] = s[i])
  BY <1>1, <1>2
<1>4. Has(s, F) <=> (h \in F \/ Has(t, F))
  <2>1. Has(s, F) => h \in F \/ Has(t, F)
    BY <1>2, <1>3 DEF Has
  <2>2. h \in F => Has(s, F)
    BY <1>2 DEF Has
  <2>3. Has(t, F) => Has(s, F)
    <3> SUFFICES ASSUME NEW i \in 1..Len(t), t[i] \in F PROVE Has(s, F)
      BY DEF Has
    <3>1. i + 1 \in 1..Len(s) /\ s[i + 1] \in F
      BY <1>1, <1>2
    <3> QED
      BY <3>1 DEF Has
  <2> QED
    BY <2>1, <2>2, <2>3
<1>5. Once(s, F) => Once(t, F)
  <2> SUFFICES ASSUME Once(s, F), NEW i \in 1..Len(t), NEW j \in 1..Len(t), t[i] \in F, t[j] \in F
               PROVE i = j
    BY DEF Once
  <2>1. /\ i + 1 \in 1..Len(s) /\ j + 1 \in 1..Len(s)
        /\ s[i + 1] \in F /\ s[j + 1] \in F
    BY <1>1, <1>2
  <2>2. i + 1 = j + 1
    BY <2>1 DEF Once
  <2> QED
    BY <2>2
<1>6. ASSUME Once(s, F), h \in F PROVE ~Has(t, F)
  <2> SUFFICES ASSUME NEW i \in 1..Len(t), t[i] \in F PROVE FALSE
    BY DEF Has
  <2>1. i + 1 \in 1..Len(s) /\ s[i + 1] \in F /\ 1 \in 1..Len(s) /\ s[1] \in F
    BY <1>1, <1>2, <1>6
  <2>2. i + 1 = 1
    BY <2>1, <1>6 DEF Once
  <2> QED
    BY <2>2
<1>7. ASSUME Followed(s, F, G), NEW i \in 0..Len(t), s[i + 1] \in F
      PROVE  \E j \in 1..Len(t) : i < j /\ t[j] \in G
  <2>1. i + 1 \in 1..Len(s)
    BY <1>1, <1>2
  <2>2. PICK j \in 1..Len(s) : i + 1 < j /\ s[j] \in G
    BY <2>1, <1>7 DEF Followed
  <2>3. j - 1 \in 1..Len(t) /\ t[j - 1] \in G /\ i < j - 1
    BY <2>2, <1>3
  <2> QED
    BY <2>3
<1>8. Followed(s, F, G) => Followed(t, F, G)
  BY <1>1, <1>7 DEF Followed
<1>9. Followed(s, F, G) /\ h \in F => Has(t, G)
  BY <1>1, <1>2, <1>7 DEF Has
<1> QED
  BY <1>1, <1>4, <1>5, <1>6, <1>8, <1>9 DEF t, h

(* One queue behind another.                                               *)
LEMMA Behind ==
  ASSUME NEW S, NEW s \in Seq(S), NEW u \in Seq(S), NEW F
  PROVE  /\ s \o u \in Seq(S)
         /\ Has(s \o u, F) <=> (Has(s, F) \/ Has(u, F))
         /\ Once(s, F) /\ Once(u, F) /\ ~(Has(s, F) /\ Has(u, F)) => Once(s \o u, F)
<1> DEFINE t == s \o u
<1>1. /\ t \in Seq(S) /\ Len(t) = Len(s) + Len(u)
      /\ \A i \in 1..Len(s) + Len(u) : t[i] = IF i <= Len(s) THEN s[i] ELSE u[i - Len(s)]
  BY ConcatProperties
<1>2. Len(s) \in Nat /\ Len(u) \in Nat
  OBVIOUS
<1> HIDE DEF t
<1>3. \A i \in 1..Len(t) : \/ i \in 1..Len(s) /\ t[i] = s[i]
                           \/ i > Len(s) /\ i - Len(s) \in 1..Len(u) /\ t[i] = u[i - Len(s)]
  BY <1>1, <1>2
<1>4. \A i \in 1..Len(s) : i \in 1..Len(t) /\ t[i] = s[i]
  BY <1>1, <1>2
<1>5. \A i \in 1..Len(u) : Len(s) + i \in 1..Len(t) /\ t[Len(s) + i] = u[i]
  <2> TAKE i \in 1..Len(u)
  <2>1. Len(s) + i \in 1..Len(s) + Len(u) /\ ~(Len(s) + i <= Len(s)) /\ (Len(s) + i) - Len(s) = i
    BY <1>2
  <2> QED
    BY <2>1, <1>1
<1>6. Has(t, F) <=> (Has(s, F) \/ Has(u, F))
  <2>1. Has(t, F) => Has(s, F) \/ Has(u, F)
    BY <1>3 DEF Has
  <2>2. Has(s, F) => Has(t, F)
    BY <1>4 DEF Has
  <2>3. Has(u, F) => Has(t, F)
    <3> SUFFICES ASSUME NEW i \in 1..Len(u), u[i] \in F PROVE Has(t, F)
      BY DEF Has
    <3>1. Len(s) + i \in 1..Len(t) /\ t[Len(s) + i] \in F
      BY <1>5
    <3> QED
      BY <3>1 DEF Has
  <2> QED
    BY <2>1, <2>2, <2>3
<1>7. ASSUME Once(s, F), Once(u, F), ~(Has(s, F) /\ Has(u, F)),
             NEW i \in 1..Len(t), NEW j \in 1..Len(t), t[i] \in F, t[j] \in F
      PROVE  i = j
  <2>1. CASE i \in 1..Len(s) /\ t[i] = s[i] /\ j \in 1..Len(s) /\ t[j] = s[j]
    BY <1>7, <2>1 DEF Once
  <2>2. CASE i > Len(s) /\ i - Len(s) \in 1..Len(u) /\ t[i] = u[i - Len(s)]
             /\ j > Len(s) /\ j - Len(s) \in 1..Len(u) /\ t[j] = u[j - Len(s)]
    <3>1. i - Len(s) = j - Len(s)
      BY <1>7, <2>2 DEF Once
    <3> QED
      BY <3>1, <1>2
  <2>3. ~(Has(s, F) /\ Has(u, F))
    BY <1>7
  <2> QED
    BY <2>1, <2>2, <2>3, <1>3, <1>7 DEF Has
<1>8. Once(s, F) /\ Once(u, F) /\ ~(Has(s, F) /\ Has(u, F)) => Once(t, F)
  BY <1>7 DEF Once
<1> QED
  BY <1>1, <1>6, <1>8 DEF t

(* The beginning of a queue.                                               *)
LEMMA Beginning ==
  ASSUME NEW S, NEW s \in Seq(S), NEW n \in 0..Len(s), NEW F
  PROVE  /\ SubSeq(s, 1, n) \in Seq(S)
         /\ Has(SubSeq(s, 1, n), F) => Has(s, F)
         /\ Once(s, F) => Once(SubSeq(s, 1, n), F)
<1> DEFINE t == SubSeq(s, 1, n)
<1>1. \A i \in 1..n : s[i] \in S
  OBVIOUS
<1>2. n \in Int /\ 1 \in Int /\ n <= Len(s) /\ Len(s) \in Nat
  OBVIOUS
<1>3. /\ t \in Seq(S) /\ Len(t) = IF 1 <= n THEN n - 1 + 1 ELSE 0
      /\ \A i \in 1..n - 1 + 1 : t[i] = s[1 + i - 1]
  BY <1>1, <1>2, SubSeqProperties
<1> HIDE DEF t
<1>4. \A i \in 1..Len(t) : i \in 1..Len(s) /\ t[i] = s[i]
  BY <1>2, <1>3
<1> QED
  <2>1. Has(t, F) => Has(s, F)
    BY <1>4 DEF Has
  <2>2. Once(s, F) => Once(t, F)
    BY <1>4 DEF Once
  <2> QED
    BY <1>3, <2>1, <2>2 DEF t

(* The messages of a finite set, one after the other.                      *)
LEMMA InSomeOrder ==
  ASSUME NEW S, IsFiniteSet(S), NEW F, NEW f
  PROVE  /\ SetToSeq(S) \in Seq(S)
         /\ Has(SetToSeq(S), F) <=> S \cap F # {}
         /\ Once(SetToSeq(S), {f})
<1> DEFINE n == Cardinality(S)
           t == SetToSeq(S)
<1>1. n \in Nat
  BY FS_CardinalityType
<1>2. PICK g \in [1..n -> S] : IsInjective(g)
  <2>1. ExistsBijection(1..n, S)
    BY FS_CardinalityType
  <2>2. PICK g \in Bijection(1..n, S) : TRUE
    BY <2>1 DEF ExistsBijection
  <2> QED
    BY <2>2 DEF Bijection, Injection, IsInjective
<1>3. t \in [1..n -> S] /\ IsInjective(t)
  BY <1>2 DEF SetToSeq
<1> HIDE DEF t
<1>4. t \in Seq(S) /\ Len(t) = n
  BY <1>1, <1>3
<1>5. \A x \in S : \E i \in 1..n : t[i] = x
  <2>1. t \in Injection(1..n, S)
    BY <1>3 DEF IsInjective, Injection
  <2>2. IsFiniteSet(1..n) /\ Cardinality(1..n) = n
    BY <1>1, FS_Interval
  <2>3. t \in Surjection(1..n, S)
    BY <2>1, <2>2, FS_Injection
  <2> QED
    BY <2>3 DEF Surjection
<1>6. Has(t, F) <=> S \cap F # {}
  BY <1>3, <1>4, <1>5 DEF Has
<1>7. Once(t, {f})
  BY <1>3, <1>4 DEF Once, IsInjective
<1> QED
  BY <1>4, <1>6, <1>7 DEF t

-----------------------------------------------------------------------------
(* The frames.                                                             *)

Request(x) == Of("request", x)
Close(x) == Of("close", x)

(* The frames are what they are called.                                    *)
LEMMA FrameFacts ==
  /\ \A t \in Bare : Frame(t) \in Frames /\ Frame(t).t = t
  /\ \A x \in Things : Request(x) \in Frames /\ Close(x) \in Frames /\ Of("event", x) \in Frames
  /\ \A x \in Things, ok \in BOOLEAN : Reply(x, ok) \in Frames
  /\ \A f \in Frames : f.t \in {"request", "close", "event"} => f.x \in Things /\ f = Of(f.t, f.x)
  /\ \A f \in Frames : f.t = "response" => f.x \in Things /\ f.ok \in BOOLEAN /\ f = Reply(f.x, f.ok)
  /\ \A f \in Frames : f.t \in Bare => f = Frame(f.t)
BY DEF Frames, Frame, Of, Reply, Request, Close, Bare

(* A field of the record of a line may take any value of its type.         *)
LEMMA PhoneFields ==
  ASSUME NEW p \in Phones
  PROVE  /\ \A v \in {"none", "reply", "confirm", "open", "dead"} : [p EXCEPT !.phase = v] \in Phones
         /\ \A v \in Seq(Frames) : [p EXCEPT !.out = v] \in Phones
         /\ \A v \in SUBSET Subs : [p EXCEPT !.stops = v] \in Phones
         /\ \A v \in SUBSET Subs : [p EXCEPT !.subs = v] \in Phones
         /\ \A v \in SUBSET Subs : [p EXCEPT !.conf = v] \in Phones
         /\ p.out \in Seq(Frames)
         /\ p.stops \in SUBSET Subs /\ p.subs \in SUBSET Subs /\ p.conf \in SUBSET Subs
BY DEF Phones

LEMMA SlotFields ==
  ASSUME NEW a \in Slots
  PROVE  /\ \A v \in {"none", "fresh", "open", "dead"} : [a EXCEPT !.slot = v] \in Slots
         /\ \A v \in BOOLEAN : [a EXCEPT !.gone = v] \in Slots
         /\ \A v \in Seq(Frames) : [a EXCEPT !.jobs = v] \in Slots
         /\ \A v \in Frames : [a EXCEPT !.cur = v] \in Slots
         /\ \A v \in BOOLEAN : [a EXCEPT !.shut = v] \in Slots
         /\ \A v \in SUBSET Subs : [a EXCEPT !.streams = v] \in Slots
         /\ \A v \in Seq(Frames) : [a EXCEPT !.sends = v] \in Slots
         /\ \A v \in 0..PairingOnly : [a EXCEPT !.gen = v] \in Slots
         /\ \A v \in Nat : [a EXCEPT !.served = v] \in Slots
         /\ a.jobs \in Seq(Frames) /\ a.sends \in Seq(Frames) /\ a.cur \in Frames
         /\ a.streams \in SUBSET Subs /\ a.served \in Nat /\ a.gen \in 0..PairingOnly
         /\ a.slot \in {"none", "fresh", "open", "dead"} /\ a.gone \in BOOLEAN /\ a.shut \in BOOLEAN
BY DEF Slots

(* Queues of frames stay queues of frames.                                 *)
LEMMA QueueType ==
  ASSUME NEW q \in Seq(Frames)
  PROVE  /\ <<>> \in Seq(Frames)
         /\ \A f \in Frames : Append(q, f) \in Seq(Frames) /\ <<f>> \in Seq(Frames)
         /\ \A f, g \in Frames : q \o <<f, g>> \in Seq(Frames) /\ <<f, g>> \in Seq(Frames)
         /\ q # <<>> => Head(q) \in Frames /\ Tail(q) \in Seq(Frames)
         /\ \A n \in 0..Len(q) : SubSeq(q, 1, n) \in Seq(Frames)
<1>1. \A n \in 0..Len(q) : SubSeq(q, 1, n) \in Seq(Frames)
  BY Beginning
<1>2. q # <<>> => Head(q) \in Frames /\ Tail(q) \in Seq(Frames)
  BY Leaves
<1>3. \A f, g \in Frames : <<f, g>> \in Seq(Frames)
  OBVIOUS
<1>4. \A f, g \in Frames : q \o <<f, g>> \in Seq(Frames)
  BY <1>3, ConcatProperties
<1> QED
  BY <1>1, <1>2, <1>3, <1>4

(* Requests that go out together, in some order: each once.                *)
LEMMA RequestsSent ==
  ASSUME NEW S \in SUBSET Things, NEW F
  PROVE  /\ Requests(S) \in Seq(Frames)
         /\ Has(Requests(S), F) <=> \E x \in S : Request(x) \in F
         /\ \A f : Once(Requests(S), {f})
<1> DEFINE T == {Request(x) : x \in S}
<1>1. IsFiniteSet(T)
  <2>1. IsFiniteSet(AllReqs)
    BY TunnelAssumption, FS_AddElement DEF AllReqs
  <2>2. IsFiniteSet(Things)
    BY <2>1, TunnelAssumption, FS_Union DEF Things
  <2>3. IsFiniteSet(S)
    BY <2>2, FS_Subset
  <2>4. [x \in S |-> Request(x)] \in Surjection(S, T)
    BY DEF Surjection
  <2> QED
    BY <2>3, <2>4, FS_Surjection
<1>2. T \subseteq Frames
  BY FrameFacts
<1>3. T \cap F # {} <=> \E x \in S : Request(x) \in F
  OBVIOUS
<1>4. Requests(S) = SetToSeq(T)
  BY DEF Requests, Request
<1> HIDE DEF T
<1>5. Requests(S) \in Seq(T) /\ (Has(Requests(S), F) <=> T \cap F # {})
  BY <1>1, <1>4, InSomeOrder
<1>6. \A f : Once(Requests(S), {f})
  BY <1>1, <1>4, InSomeOrder
<1>7. Requests(S) \in Seq(Frames)
  BY <1>2, <1>5
<1> QED
  BY <1>3, <1>5, <1>6, <1>7

(* Before anything is asked, all is of its type.                           *)
LEMMA InitType == Init => TypeOK
<1> SUFFICES ASSUME Init PROVE TypeOK
  OBVIOUS
<1>1. FreshPhone \in Phones
  BY DEF FreshPhone, Phones
<1>2. FreshSlot \in Slots
  <2>1. Nothing \in Frames
    BY DEF Nothing, Frames, Bare
  <2>2. 0 \in 0..PairingOnly
    BY TunnelAssumption DEF PairingOnly
  <2>3. <<>> \in Seq(Frames) /\ {} \in SUBSET Subs
    OBVIOUS
  <2> QED
    BY <2>1, <2>2, <2>3 DEF FreshSlot, Slots
<1>3. valid \in BOOLEAN /\ token \in BOOLEAN /\ gen \in 0..MaxGen /\ (token => gen < MaxGen)
  <2>1. \/ gen = 0 /\ valid = FALSE /\ token = TRUE
        \/ gen = 1 /\ valid = TRUE /\ token = FALSE
    BY DEF Init
  <2>2. (gen = 0 \/ gen = 1) /\ (token => gen = 0)
    BY <2>1
  <2>3. valid \in BOOLEAN /\ token \in BOOLEAN
    BY <2>1
  <2> QED
    BY <2>2, <2>3, TunnelAssumption
<1>4. closed \in BOOLEAN /\ takeover \in BOOLEAN
  BY DEF Init
<1>5. ph \in [Lines -> Phones] /\ ag \in [Lines -> Slots]
  BY <1>1, <1>2 DEF Init
<1>6. cut \subseteq Lines /\ up \in [Lines -> Seq(Frames)] /\ dn \in [Lines -> Seq(Frames)]
  BY DEF Init
<1>7. live \in 0..MaxLine /\ opening \in 0..MaxLine /\ made \in 0..MaxLine
  BY TunnelAssumption DEF Init
<1>8. /\ req \in [AllReqs -> {"idle", "waiting", "sent", "ok", "refused", "failed"}]
      /\ on \in [AllReqs -> 0..MaxLine] /\ screen \in [Subs -> {"new", "on", "off"}]
      /\ ran \in [AllReqs -> SUBSET Lines]
  BY TunnelAssumption DEF Init
<1> QED
  BY <1>3, <1>4, <1>5, <1>6, <1>7, <1>8 DEF TypeOK

(* A line given up keeps the types.                                        *)
LEMMA DeadType ==
  ASSUME TypeOK, NEW l \in Lines, Dead(l), UNCHANGED closed
  PROVE  TypeOK'
<1> USE DEF TypeOK
<1>1. ph' \in [Lines -> Phones]
  <2>1. [ph[l] EXCEPT !.phase = "dead", !.out = <<>>, !.stops = {}] \in Phones
    BY PhoneFields, QueueType
  <2> QED
    BY <2>1 DEF Dead
<1>2. up' \in [Lines -> Seq(Frames)] /\ cut' \subseteq Lines
  <2>1. Frame("closed") \in Frames
    BY FrameFacts DEF Bare
  <2> QED
    BY <2>1, QueueType DEF Dead, Closed
<1> QED
  BY <1>1, <1>2, TunnelAssumption DEF Dead, Ended, regVars

(* So does a line that is opened because something is asked for.           *)
LEMMA EnsureType ==
  ASSUME TypeOK, Ensure
  PROVE  /\ opening' \in 0..MaxLine /\ made' \in 0..MaxLine /\ takeover' \in BOOLEAN
         /\ ph' \in [Lines -> Phones] /\ ag' \in [Lines -> Slots] /\ up' \in [Lines -> Seq(Frames)]
<1>1. CASE live # 0 \/ opening # 0
  BY <1>1 DEF TypeOK, Ensure
<1>2. CASE ~(live # 0 \/ opening # 0)
  <2>1. made + 1 \in Lines /\ Frame("init") \in Frames
    BY <1>2, TunnelAssumption, FrameFacts DEF TypeOK, Ensure, Lines, Bare
  <2>2. <<Frame("init")>> \in Seq(Frames)
    BY <2>1
  <2>3. /\ [ph[made + 1] EXCEPT !.phase = "reply"] \in Phones
        /\ [ag[made + 1] EXCEPT !.slot = "fresh"] \in Slots
    BY <2>1, PhoneFields, SlotFields DEF TypeOK
  <2>4. /\ opening' = made + 1 /\ made' = made + 1 /\ takeover' = FALSE
        /\ ph' = [ph EXCEPT ![made + 1].phase = "reply"]
        /\ ag' = [ag EXCEPT ![made + 1].slot = "fresh"]
        /\ up' = [up EXCEPT ![made + 1] = <<Frame("init")>>]
    BY <1>2 DEF Ensure, Used
  <2>5. opening' \in 0..MaxLine /\ made' \in 0..MaxLine
    BY <2>1, <2>4, TunnelAssumption DEF Lines
  <2>6. takeover' \in BOOLEAN
    BY <2>4
  <2>7. ph' \in [Lines -> Phones] /\ ag' \in [Lines -> Slots] /\ up' \in [Lines -> Seq(Frames)]
    BY <2>1, <2>2, <2>3, <2>4 DEF TypeOK
  <2> QED
    BY <2>5, <2>6, <2>7
<1> QED
  BY <1>1, <1>2

(* So does a line that is open.                                            *)
LEMMA OpenedType ==
  ASSUME TypeOK, NEW l \in Lines, Opened(l), UNCHANGED closed, dn' \in [Lines -> Seq(Frames)]
  PROVE  TypeOK'
<1> USE DEF TypeOK
<1>1. Requests(Wanted) \in Seq(Frames) /\ Requests(Waiting) \in Seq(Frames)
  BY RequestsSent DEF Wanted, Waiting, Things
<1>2. Requests(Wanted) \o Requests(Waiting) \in Seq(Frames)
  BY <1>1, ConcatProperties
<1>3. [ph[l] EXCEPT !.phase = "open", !.stops = Wanted, !.subs = Wanted,
                    !.out = Requests(Wanted) \o Requests(Waiting)] \in Phones
  BY <1>2, PhoneFields DEF Wanted
<1>4. ph' = [ph EXCEPT ![l].phase = "open", ![l].stops = Wanted, ![l].subs = Wanted,
                       ![l].out = Requests(Wanted) \o Requests(Waiting)]
  BY DEF Opened, Resubscribed
<1>5. ph' = [ph EXCEPT ![l] = [ph[l] EXCEPT !.phase = "open", !.stops = Wanted, !.subs = Wanted,
                                            !.out = Requests(Wanted) \o Requests(Waiting)]]
  BY <1>4
<1>6. ph' \in [Lines -> Phones]
  BY <1>3, <1>5
<1>7. /\ req' \in [AllReqs -> {"idle", "waiting", "sent", "ok", "refused", "failed"}]
      /\ on' \in [AllReqs -> 0..MaxLine]
  BY TunnelAssumption DEF Opened, Lines
<1>8. live' = l /\ opening' = 0 /\ UNCHANGED <<made, takeover, screen, cut, up, ag, regVars, ran, scene>>
  BY DEF Opened
<1>9. live' \in 0..MaxLine /\ opening' \in 0..MaxLine
  BY <1>8, TunnelAssumption DEF Lines
<1> QED
  BY <1>6, <1>7, <1>8, <1>9 DEF regVars

(* So does a slot whose line has ended.                                    *)
LEMMA GoneType ==
  ASSUME NEW a \in Slots
  PROVE  Gone(a) \in Slots
<1> DEFINE b == [a EXCEPT !.gone = TRUE]
<1>1. b \in Slots
  BY SlotFields
<1>2. Frame("abandon") \in Frames
  BY FrameFacts DEF Bare
<1> HIDE DEF b
<1>3. [b EXCEPT !.jobs = Append(@, Frame("abandon"))] \in Slots
  BY <1>1, <1>2, SlotFields, QueueType
<1> QED
  BY <1>3 DEF b, Gone

(* So do a line that the agent closes, its next job, and its next frame.   *)
LEMMA DroppedType ==
  ASSUME TypeOK, NEW l \in Lines, NEW a \in Slots, Dropped(l, a)
  PROVE  /\ ag' \in [Lines -> Slots] /\ up' \in [Lines -> Seq(Frames)] /\ dn' \in [Lines -> Seq(Frames)]
         /\ cut' \subseteq Lines
<1>1. Frame("closed") \in Frames /\ Frame("end") \in Frames
  BY FrameFacts DEF Bare
<1>2. Append(up[l], Frame("closed")) \in Seq(Frames) /\ Append(dn[l], Frame("end")) \in Seq(Frames)
  BY <1>1, QueueType DEF TypeOK
<1> QED
  BY <1>2 DEF TypeOK, Dropped

LEMMA JobType ==
  ASSUME TypeOK, NEW l \in Lines, Job(l)
  PROVE  /\ ag' \in [Lines -> Slots] /\ up' \in [Lines -> Seq(Frames)] /\ dn' \in [Lines -> Seq(Frames)]
         /\ cut' \subseteq Lines /\ ran' \in [AllReqs -> SUBSET Lines]
<1> DEFINE f == Head(ag[l].jobs)
           a == [ag[l] EXCEPT !.jobs = Tail(@)]
<1>1. ag[l] \in Slots /\ ag[l].jobs \in Seq(Frames) /\ ag[l].jobs # <<>>
  BY SlotFields DEF TypeOK, Job
<1>2. f \in Frames /\ a \in Slots
  BY <1>1, SlotFields, QueueType
<1>3. Frame("closeall") \in Frames /\ Frame("drop") \in Frames
  BY FrameFacts DEF Bare
<1>4. Pass(l, f, a) \/ Handshake(l, f, a) \/ Fatal(l, f, a) \/ DropStream(l, f, a) \/ Begin(l, f, a)
  BY DEF Job
<1> HIDE DEF a, f
<1>5. CASE Pass(l, f, a)
  <2>1. Abandoned(a) \in Slots
    BY <1>2, SlotFields DEF Abandoned
  <2> QED
    BY <1>2, <1>5, <2>1 DEF Pass, TypeOK, netVars
<1>6. CASE Handshake(l, f, a)
  <2>1. CASE f.t = "init" /\ Accepted # 0
    <3>1. Accepted \in 0..PairingOnly
      <4>1. gen \in 0..MaxGen
        BY DEF TypeOK
      <4> QED
        BY <4>1, TunnelAssumption DEF Accepted, PairingOnly
    <3>2. [a EXCEPT !.cur = f, !.gen = Accepted] \in Slots
      BY <1>2, <3>1, SlotFields
    <3> QED
      BY <1>6, <2>1, <3>2 DEF Handshake, TypeOK, netVars
  <2>2. CASE ~(f.t = "init" /\ Accepted # 0)
    <3>1. [a EXCEPT !.slot = "dead"] \in Slots
      BY <1>2, SlotFields
    <3>2. Dropped(l, [a EXCEPT !.slot = "dead"]) /\ UNCHANGED ran
      BY <1>6, <2>2 DEF Handshake
    <3>3. ran' \in [AllReqs -> SUBSET Lines]
      BY <3>2 DEF TypeOK
    <3> QED
      BY <3>1, <3>2, <3>3, DroppedType
  <2> QED
    BY <2>1, <2>2
<1>7. CASE Fatal(l, f, a)
  <2>1. [a EXCEPT !.slot = "dead", !.sends = @ \o <<Frame("closeall"), Frame("drop")>>] \in Slots
    BY <1>2, <1>3, SlotFields, QueueType
  <2> QED
    BY <1>7, <2>1 DEF Fatal, TypeOK, netVars
<1>8. CASE DropStream(l, f, a)
  <2>1. [a EXCEPT !.streams = @ \ {f.x}] \in Slots
    BY <1>2, SlotFields
  <2> QED
    BY <1>8, <2>1 DEF DropStream, TypeOK, netVars
<1>9. CASE Begin(l, f, a)
  <2>1. MayRun(l, f.x) \in BOOLEAN
    BY DEF MayRun, LiveReg
  <2>2. Reply(f.x, MayRun(l, f.x)) \in Frames
    BY <1>2, <1>9, <2>1, FrameFacts DEF Begin
  <2>3. [a EXCEPT !.cur = Reply(f.x, MayRun(l, f.x)),
                  !.served = IF a.gen = PairingOnly THEN @ + 1 ELSE @] \in Slots
    <3> DEFINE b == [a EXCEPT !.cur = Reply(f.x, MayRun(l, f.x))]
    <3>1. b \in Slots
      BY <1>2, <2>2, SlotFields
    <3>2. b.served \in Nat
      BY <3>1, SlotFields
    <3> HIDE DEF b
    <3>3. (IF a.gen = PairingOnly THEN b.served + 1 ELSE b.served) \in Nat
      BY <3>2
    <3>4. [b EXCEPT !.served = IF a.gen = PairingOnly THEN @ + 1 ELSE @] \in Slots
      BY <3>1, <3>3, SlotFields
    <3> QED
      BY <3>4 DEF b
  <2>4. ag' \in [Lines -> Slots]
    BY <1>9, <2>3 DEF Begin, TypeOK
  <2>5. ran' \in [AllReqs -> SUBSET Lines]
    BY <1>9 DEF Begin, TypeOK
  <2> QED
    BY <1>9, <2>4, <2>5 DEF Begin, TypeOK, netVars
<1> QED
  BY <1>4, <1>5, <1>6, <1>7, <1>8, <1>9

LEMMA SealedType ==
  ASSUME TypeOK, NEW l \in Lines, Sealed(l)
  PROVE  /\ ag' \in [Lines -> Slots] /\ up' \in [Lines -> Seq(Frames)] /\ dn' \in [Lines -> Seq(Frames)]
         /\ cut' \subseteq Lines
<1> DEFINE f == Head(ag[l].sends)
           a == [ag[l] EXCEPT !.sends = Tail(@)]
<1>1. ag[l] \in Slots /\ ag[l].sends \in Seq(Frames) /\ ag[l].sends # <<>>
  BY SlotFields DEF TypeOK, Sealed
<1>2. f \in Frames /\ a \in Slots
  BY <1>1, SlotFields, QueueType
<1>3. NoEvent(l, f, a) \/ Answers(l, f, a) \/ Passes(l, f, a) \/ (f.t = "drop" /\ Dropped(l, a))
  BY DEF Sealed
<1> HIDE DEF f, a
<1>4. GoesOut(l, f, a) => /\ dn' \in [Lines -> Seq(Frames)] /\ up' \in [Lines -> Seq(Frames)]
                          /\ cut' \subseteq Lines
  BY <1>2, QueueType DEF TypeOK, GoesOut
<1>5. CASE NoEvent(l, f, a)
  <2>1. f.x \in Things
    BY <1>2, <1>5, FrameFacts DEF NoEvent
  <2>2. StreamEnds(a, f.x) \in Slots
    <3>1. Of("close", f.x) \in Frames
      BY <2>1, FrameFacts DEF Close
    <3> QED
      BY <1>2, <3>1, SlotFields, QueueType DEF StreamEnds
  <2> QED
    BY <1>2, <1>5, <2>2 DEF NoEvent, TypeOK, netVars
<1>6. CASE Answers(l, f, a)
  <2>1. Nothing \in Frames /\ Frame("closeall") \in Frames
    BY FrameFacts DEF Bare, Nothing, Frame
  <2> DEFINE b == [a EXCEPT !.cur = Nothing]
  <2>2. b \in Slots
    BY <1>2, <2>1, SlotFields
  <2>3. ag' = [ag EXCEPT ![l] = OneShot(b)]
    BY <1>6 DEF Answers
  <2> HIDE DEF b
  <2>4. Abandoned(b) \in Slots
    BY <2>2, SlotFields DEF Abandoned
  <2>5. OneShot(b) \in Slots
    BY <2>1, <2>2, <2>4, SlotFields, QueueType DEF OneShot
  <2> QED
    BY <1>4, <1>6, <2>3, <2>5 DEF TypeOK, Answers
<1>7. CASE Passes(l, f, a)
  BY <1>2, <1>4, <1>7 DEF TypeOK, Passes
<1>8. CASE Dropped(l, a)
  BY <1>2, <1>8, DroppedType
<1> QED
  BY <1>3, <1>5, <1>6, <1>7, <1>8

(* Every step keeps the types, one case per action.                        *)
LEMMA StepType == TypeOK /\ [Next]_vars => TypeOK'
<1> SUFFICES ASSUME TypeOK, [Next]_vars PROVE TypeOK'
  OBVIOUS
<1> USE DEF TypeOK
<1>1. ASSUME NEW r \in AllReqs, Ask(r) PROVE TypeOK'
  <2>1. CASE live # 0
    <3>1. live \in Lines /\ Request(r) \in Frames
      BY <2>1, TunnelAssumption, FrameFacts DEF Lines, Things
    <3>2. [ph[live] EXCEPT !.out = Append(@, Request(r))] \in Phones
      BY <3>1, PhoneFields, QueueType
    <3>3. /\ ph' \in [Lines -> Phones]
          /\ req' \in [AllReqs -> {"idle", "waiting", "sent", "ok", "refused", "failed"}]
          /\ on' \in [AllReqs -> 0..MaxLine]
      BY <1>1, <2>1, <3>1, <3>2 DEF Ask, Request
    <3>4. UNCHANGED <<opening, made, takeover, up, ag, live, closed, screen, cut, dn, regVars, ran>>
      BY <1>1, <2>1 DEF Ask
    <3> QED
      BY <3>3, <3>4 DEF regVars
  <2>2. CASE live = 0
    <3>1. Ensure /\ UNCHANGED <<on, live, closed, screen, cut, dn, regVars, ran>>
      BY <1>1, <2>2 DEF Ask
    <3>2. req' \in [AllReqs -> {"idle", "waiting", "sent", "ok", "refused", "failed"}]
      BY <1>1, <2>2 DEF Ask
    <3> QED
      BY <3>1, <3>2, EnsureType DEF regVars
  <2> QED
    BY <2>1, <2>2
<1>2. ASSUME NEW r \in AllReqs, KeyMissing(r) PROVE TypeOK'
  <2>1. takeover' = FALSE /\ UNCHANGED <<live, opening, made, closed, on, screen, ph, netVars, ag, regVars, ran>>
    BY <1>2 DEF KeyMissing, Used
  <2>2. req' \in [AllReqs -> {"idle", "waiting", "sent", "ok", "refused", "failed"}]
    BY <1>2 DEF KeyMissing
  <2> QED
    BY <2>1, <2>2 DEF netVars, regVars
<1>3. CASE TakeoverNext
  BY <1>3 DEF TakeoverNext, askVars, netVars, regVars
<1>4. ASSUME NEW s \in Subs, Subscribe(s) PROVE TypeOK'
  <2>1. /\ screen' \in [Subs -> {"new", "on", "off"}]
        /\ UNCHANGED <<live, closed, req, on, cut, dn, regVars, ran>>
    BY <1>4 DEF Subscribe
  <2>2. CASE live # 0
    <3>1. live \in Lines /\ Request(s) \in Frames
      BY <2>2, TunnelAssumption, FrameFacts DEF Lines, Things
    <3>2. [ph[live] EXCEPT !.out = Append(@, Request(s)), !.stops = @ \cup {s}, !.subs = @ \cup {s}]
            \in Phones
      <4> DEFINE p == ph[live]
                 q == Append(p.out, Request(s))
      <4>1. p \in Phones
        BY <3>1 DEF TypeOK
      <4>2. q \in Seq(Frames) /\ p.stops \cup {s} \in SUBSET Subs /\ p.subs \cup {s} \in SUBSET Subs
        BY <3>1, <4>1, PhoneFields, QueueType
      <4> HIDE DEF p, q
      <4>3. [p EXCEPT !.out = q, !.stops = p.stops \cup {s}, !.subs = p.subs \cup {s}] \in Phones
        BY <4>1, <4>2 DEF Phones
      <4> QED
        BY <4>3 DEF p, q
    <3>3. ph' \in [Lines -> Phones]
      BY <1>4, <2>2, <3>1, <3>2 DEF Subscribe, Request
    <3>4. UNCHANGED <<opening, made, takeover, up, ag>>
      BY <1>4, <2>2 DEF Subscribe
    <3> QED
      BY <2>1, <3>3, <3>4 DEF regVars
  <2>3. CASE live = 0
    <3>1. Ensure
      BY <1>4, <2>3 DEF Subscribe
    <3> QED
      BY <2>1, <3>1, EnsureType DEF regVars
  <2> QED
    BY <2>2, <2>3
<1>5. ASSUME NEW s \in Subs, Unsubscribe(s) PROVE TypeOK'
  <2>1. /\ screen' \in [Subs -> {"new", "on", "off"}]
        /\ UNCHANGED <<routeVars, req, on, netVars, ag, regVars, ran>>
    BY <1>5 DEF Unsubscribe
  <2>2. ph' \in [Lines -> Phones]
    <3>1. CASE live = 0 \/ s \notin ph[live].stops
      BY <1>5, <3>1 DEF Unsubscribe
    <3>2. CASE ~(live = 0 \/ s \notin ph[live].stops)
      <4>1. live \in Lines /\ Close(s) \in Frames
        BY <3>2, TunnelAssumption, FrameFacts DEF Lines, Things
      <4>2. [ph[live] EXCEPT !.stops = @ \ {s}, !.subs = @ \ {s},
                             !.out = IF s \in ph[live].subs THEN Append(@, Close(s)) ELSE @] \in Phones
        BY <4>1, PhoneFields, QueueType
      <4> QED
        BY <1>5, <3>2, <4>1, <4>2 DEF Unsubscribe, Close
    <3> QED
      BY <3>1, <3>2
  <2> QED
    BY <2>1, <2>2 DEF routeVars, netVars, regVars
<1>6. CASE Leave
  <2>1. /\ closed' = TRUE /\ screen' \in [Subs -> {"new", "on", "off"}]
        /\ UNCHANGED <<opening, made, takeover, on, dn, ag, regVars, ran>>
    BY <1>6 DEF Leave
  <2>2. CASE live # 0
    <3>1. live \in Lines /\ Frame("closed") \in Frames
      BY <2>2, TunnelAssumption, FrameFacts DEF Lines, Bare
    <3>2. [ph[live] EXCEPT !.phase = "dead", !.out = <<>>, !.stops = {}] \in Phones
      BY <3>1, PhoneFields, QueueType
    <3>3. ph' \in [Lines -> Phones] /\ live' = 0
      BY <1>6, <2>2, <3>1, <3>2 DEF Leave
    <3>4. up' \in [Lines -> Seq(Frames)] /\ cut' \subseteq Lines
      <4>1. Closed(live)
        BY <1>6, <2>2 DEF Leave
      <4> QED
        BY <3>1, <4>1, QueueType DEF Closed
    <3>5. req' \in [AllReqs -> {"idle", "waiting", "sent", "ok", "refused", "failed"}]
      BY <1>6, <2>2 DEF Leave
    <3> QED
      BY <2>1, <3>3, <3>4, <3>5, TunnelAssumption DEF regVars
  <2>3. CASE live = 0
    <3>1. UNCHANGED <<ph, req, cut, up, live>>
      BY <1>6, <2>3 DEF Leave
    <3> QED
      BY <2>1, <3>1 DEF regVars
  <2> QED
    BY <2>2, <2>3
<1>7. ASSUME NEW l \in Lines, Send(l) PROVE TypeOK'
  <2>1. Head(ph[l].out) \in Frames /\ Tail(ph[l].out) \in Seq(Frames)
    BY <1>7, PhoneFields, QueueType DEF Send
  <2>2. [ph[l] EXCEPT !.out = Tail(@)] \in Phones
    BY <2>1, PhoneFields
  <2>3. ph' \in [Lines -> Phones]
    BY <1>7, <2>2 DEF Send
  <2>4. up' \in [Lines -> Seq(Frames)]
    BY <1>7, <2>1, QueueType DEF Send
  <2> QED
    BY <1>7, <2>3, <2>4 DEF Send, routeVars, askVars, regVars
<1>8. ASSUME NEW l \in Lines, Receive(l) PROVE TypeOK'
  <2> DEFINE f == Head(dn[l])
             p == ph[l].phase
  <2>1. f \in Frames /\ Tail(dn[l]) \in Seq(Frames)
    BY <1>8, QueueType DEF Receive
  <2>2. [dn EXCEPT ![l] = Tail(@)] \in [Lines -> Seq(Frames)]
    BY <2>1
  <2>3. CASE p = "reply" /\ f.t = "reply"
    <3>1. /\ ph' = [ph EXCEPT ![l].phase = "confirm"] /\ dn' = [dn EXCEPT ![l] = Tail(@)]
          /\ UNCHANGED <<scene, live, opening, made, closed, takeover, askVars, cut, up, ag, regVars, ran>>
      BY <1>8, <2>3 DEF Receive
    <3>2. ph' \in [Lines -> Phones]
      BY <3>1, PhoneFields
    <3> QED
      BY <3>1, <3>2, <2>2 DEF askVars, regVars
  <2>4. CASE p = "confirm" /\ f.t = "confirm" /\ ~closed
    <3>1. Opened(l) /\ dn' = [dn EXCEPT ![l] = Tail(@)] /\ UNCHANGED closed
      BY <1>8, <2>4 DEF Receive
    <3> QED
      BY <3>1, <2>2, OpenedType
  <2>5. CASE p = "open" /\ f.t = "response"
    <3>1. /\ Answered(l, f) /\ dn' = [dn EXCEPT ![l] = Tail(@)]
          /\ UNCHANGED <<scene, live, opening, made, closed, takeover, on, screen, cut, up, ag, regVars, ran>>
      BY <1>8, <2>5 DEF Receive
    <3>2. f.x \in Things /\ f.ok \in BOOLEAN
      BY <2>1, <2>5, FrameFacts
    <3>3. [ph[l] EXCEPT !.conf = @ \cup {f.x}] \in Phones \/ f.x \notin ph[l].subs
      BY PhoneFields
    <3>4. [ph[l] EXCEPT !.subs = @ \ {f.x}] \in Phones
      BY PhoneFields
    <3>5. ph' \in [Lines -> Phones]
      BY <3>1, <3>3, <3>4 DEF Answered
    <3>6. req' \in [AllReqs -> {"idle", "waiting", "sent", "ok", "refused", "failed"}]
      BY <3>1 DEF Answered
    <3> QED
      BY <3>1, <3>5, <3>6, <2>2 DEF regVars
  <2>6. CASE p = "open" /\ f.t = "event"
    <3>1. /\ dn' = [dn EXCEPT ![l] = Tail(@)]
          /\ UNCHANGED <<scene, live, opening, made, closed, takeover, askVars, ph, cut, up, ag, regVars, ran>>
      BY <1>8, <2>6 DEF Receive
    <3> QED
      BY <3>1, <2>2 DEF askVars, regVars
  <2>7. CASE p = "open" /\ f.t = "close"
    <3>1. /\ ph' = [ph EXCEPT ![l].subs = @ \ {f.x}] /\ dn' = [dn EXCEPT ![l] = Tail(@)]
          /\ req' = [r \in AllReqs |-> IF r = f.x /\ req[r] = "sent" THEN "failed" ELSE req[r]]
          /\ UNCHANGED <<scene, live, opening, made, closed, takeover, on, screen, cut, up, ag, regVars, ran>>
      BY <1>8, <2>7 DEF Receive
    <3>2. [ph[l] EXCEPT !.subs = @ \ {f.x}] \in Phones
      BY PhoneFields
    <3>3. ph' \in [Lines -> Phones]
      BY <3>1, <3>2
    <3>4. req' \in [AllReqs -> {"idle", "waiting", "sent", "ok", "refused", "failed"}]
      BY <3>1
    <3> QED
      BY <3>1, <3>3, <3>4, <2>2 DEF regVars
  <2>8. CASE Dead(l) /\ UNCHANGED closed
    BY <2>8, DeadType
  <2> QED
    BY <1>8, <2>3, <2>4, <2>5, <2>6, <2>7, <2>8 DEF Receive
<1>9. ASSUME NEW l \in Lines, HandshakeTimeout(l) PROVE TypeOK'
  BY <1>9, DeadType DEF HandshakeTimeout
<1>10. ASSUME NEW r \in AllReqs, RequestTimeout(r) PROVE TypeOK'
  BY <1>10, DeadType DEF RequestTimeout
<1>11. ASSUME NEW l \in Lines, Break(l) PROVE TypeOK'
  <2>1. PICK n \in 0..Len(up[l]) : up' = [up EXCEPT ![l] = Append(SubSeq(@, 1, n), Frame("closed"))]
    BY <1>11 DEF Break
  <2>2. PICK m \in 0..Len(dn[l]), told \in {TRUE, "slow" \notin Acts} :
          dn' = [dn EXCEPT ![l] = SubSeq(@, 1, m) \o IF told THEN <<Frame("end")>> ELSE <<>>]
    BY <1>11 DEF Break
  <2>3. Frame("closed") \in Frames /\ Frame("end") \in Frames
    BY FrameFacts DEF Bare
  <2>4. Append(SubSeq(up[l], 1, n), Frame("closed")) \in Seq(Frames)
    BY <2>3, QueueType
  <2>5. SubSeq(dn[l], 1, m) \in Seq(Frames) /\ <<Frame("end")>> \in Seq(Frames) /\ <<>> \in Seq(Frames)
    BY <2>3, QueueType
  <2>6. SubSeq(dn[l], 1, m) \o (IF told THEN <<Frame("end")>> ELSE <<>>) \in Seq(Frames)
    BY <2>5, ConcatProperties
  <2>7. up' \in [Lines -> Seq(Frames)]
    BY <2>1, <2>4
  <2>8. dn' \in [Lines -> Seq(Frames)]
    BY <2>2, <2>6
  <2>9. cut' = cut \cup {l} /\ UNCHANGED <<routeVars, askVars, ph, ag, regVars, ran>>
    BY <1>11 DEF Break
  <2> QED
    BY <2>7, <2>8, <2>9 DEF routeVars, askVars, regVars
<1>12. CASE LinkDown
  <2>1. Frame("abandon") \in Frames /\ Frame("end") \in Frames
    BY FrameFacts DEF Bare
  <2>2. ASSUME NEW l \in Lines PROVE Gone(ag[l]) \in Slots
    BY GoneType
  <2>3. ag' \in [Lines -> Slots]
    BY <1>12, <2>2 DEF LinkDown
  <2>4. up' \in [Lines -> Seq(Frames)]
    <3>1. up' = [l \in Lines |-> <<>>]
      BY <1>12 DEF LinkDown
    <3> QED
      BY <3>1
  <2>5. dn' \in [Lines -> Seq(Frames)]
    BY <1>12, <2>1, QueueType DEF LinkDown
  <2>6. cut' \subseteq Lines /\ UNCHANGED <<routeVars, askVars, ph, regVars, ran>>
    BY <1>12 DEF LinkDown
  <2> QED
    BY <2>3, <2>4, <2>5, <2>6 DEF routeVars, askVars, regVars
<1>13. ASSUME NEW l \in Lines, Arrive(l) PROVE TypeOK'
  <2> DEFINE f == Head(up[l])
             longer == [ag[l] EXCEPT !.jobs = Append(@, f)]
             a == IF f.t = "closed" THEN Gone(ag[l]) ELSE IF ag[l].slot = "dead" THEN ag[l] ELSE longer
  <2>1. f \in Frames /\ Tail(up[l]) \in Seq(Frames) /\ Frame("abandon") \in Frames
    BY <1>13, QueueType, FrameFacts DEF Arrive, Bare
  <2>2. a \in Slots
    <3>1. Gone(ag[l]) \in Slots
      BY GoneType
    <3>2. longer \in Slots
      BY <2>1, SlotFields, QueueType
    <3>3. ag[l] \in Slots
      OBVIOUS
    <3> HIDE DEF longer
    <3> QED
      BY <3>1, <3>2, <3>3
  <2>3. ag' = [ag EXCEPT ![l] = a]
    BY <1>13 DEF Arrive
  <2>4. up' = [up EXCEPT ![l] = Tail(@)] /\ UNCHANGED <<routeVars, askVars, ph, cut, dn, regVars, ran>>
    BY <1>13 DEF Arrive
  <2> HIDE DEF a
  <2>5. ag' \in [Lines -> Slots] /\ up' \in [Lines -> Seq(Frames)]
    BY <2>1, <2>2, <2>3, <2>4
  <2> QED
    BY <2>4, <2>5 DEF routeVars, askVars, regVars
<1>14. ASSUME NEW l \in Lines, Job(l) PROVE TypeOK'
  <2>1. UNCHANGED <<routeVars, askVars, ph, regVars>>
    BY <1>14 DEF Job
  <2>2. /\ ag' \in [Lines -> Slots] /\ up' \in [Lines -> Seq(Frames)] /\ dn' \in [Lines -> Seq(Frames)]
        /\ cut' \subseteq Lines /\ ran' \in [AllReqs -> SUBSET Lines]
    BY <1>14, JobType
  <2> QED
    BY <2>1, <2>2 DEF routeVars, askVars, regVars
<1>15. ASSUME NEW l \in Lines, Handshaken(l) PROVE TypeOK'
  <2>1. Frame("reply") \in Frames /\ Frame("confirm") \in Frames /\ Nothing \in Frames
    BY FrameFacts DEF Bare, Nothing, Frame
  <2>2. [ag[l] EXCEPT !.cur = Nothing, !.slot = IF LiveReg(ag[l].gen) THEN "open" ELSE @] \in Slots
    <3> DEFINE v == IF LiveReg(ag[l].gen) THEN "open" ELSE ag[l].slot
    <3>1. ag[l] \in Slots
      BY DEF TypeOK
    <3>2. v \in {"none", "fresh", "open", "dead"}
      BY <3>1, SlotFields
    <3> HIDE DEF v
    <3>3. [ag[l] EXCEPT !.cur = Nothing, !.slot = v] \in Slots
      BY <2>1, <3>1, <3>2 DEF Slots
    <3> QED
      BY <3>3 DEF v
  <2>3. ag' \in [Lines -> Slots]
    BY <1>15, <2>2 DEF Handshaken
  <2>4. dn' \in [Lines -> Seq(Frames)]
    BY <1>15, <2>1, QueueType DEF Handshaken
  <2>5. UNCHANGED <<routeVars, askVars, ph, cut, up, regVars, ran>>
    BY <1>15 DEF Handshaken
  <2> QED
    BY <2>3, <2>4, <2>5 DEF routeVars, askVars, regVars
<1>16. ASSUME NEW l \in Lines, TooLarge(l) PROVE TypeOK'
  <2>1. Frame("closeall") \in Frames /\ Frame("drop") \in Frames /\ Nothing \in Frames
    BY FrameFacts DEF Bare, Nothing, Frame
  <2>2. Abandoned(ag[l]) \in Slots
    BY SlotFields DEF Abandoned
  <2>3. [Abandoned(ag[l]) EXCEPT !.cur = Nothing, !.slot = "dead",
                                 !.sends = @ \o <<Frame("closeall"), Frame("drop")>>] \in Slots
    BY <2>1, <2>2, SlotFields, QueueType
  <2>4. /\ ag' = [ag EXCEPT ![l] = [Abandoned(ag[l]) EXCEPT !.cur = Nothing, !.slot = "dead",
                                 !.sends = @ \o <<Frame("closeall"), Frame("drop")>>]]
        /\ UNCHANGED <<routeVars, askVars, ph, netVars, regVars, ran>>
    BY <1>16 DEF TooLarge
  <2> QED
    BY <2>3, <2>4 DEF routeVars, askVars, netVars, regVars
<1>17. ASSUME NEW l \in Lines, Done(l) PROVE TypeOK'
  <2> DEFINE x == ag[l].cur.x
             ok == ag[l].cur.ok /\ (x = Pair => token)
  <2>1. x \in Things /\ ag[l].cur.ok \in BOOLEAN
    BY <1>17, SlotFields, FrameFacts DEF Done
  <2>2. ok \in BOOLEAN
    BY <2>1
  <2>3. Reply(x, ok) \in Frames /\ Frame("sending") \in Frames
    BY <2>1, <2>2, FrameFacts DEF Bare
  <2>4. /\ ag' = [ag EXCEPT ![l].cur = Frame("sending"),
                           ![l].streams = IF ok /\ x \in Subs THEN @ \cup {x} ELSE @,
                           ![l].sends = Append(@, Reply(x, ok))]
        /\ \/ gen' = (IF valid THEN gen ELSE gen + 1) /\ valid' = TRUE /\ token' = FALSE /\ token
           \/ UNCHANGED regVars
        /\ UNCHANGED <<routeVars, askVars, ph, netVars, ran>>
    BY <1>17 DEF Done
  <2> HIDE DEF ok
  <2>5. (IF ok /\ x \in Subs THEN ag[l].streams \cup {x} ELSE ag[l].streams) \in SUBSET Subs
    BY SlotFields
  <2>6. [ag[l] EXCEPT !.cur = Frame("sending"),
                      !.streams = IF ok /\ x \in Subs THEN @ \cup {x} ELSE @,
                      !.sends = Append(@, Reply(x, ok))] \in Slots
    BY <2>3, <2>5, SlotFields, QueueType
  <2>7. ag' \in [Lines -> Slots]
    BY <2>4, <2>6
  <2>8. gen' \in 0..MaxGen /\ valid' \in BOOLEAN /\ token' \in BOOLEAN /\ (token' => gen' < MaxGen)
    <3>1. CASE UNCHANGED regVars
      BY <3>1 DEF regVars
    <3>2. CASE gen' = (IF valid THEN gen ELSE gen + 1) /\ valid' = TRUE /\ token' = FALSE /\ token
      <4>1. gen < MaxGen
        BY <3>2
      <4>2. gen' = gen \/ gen' = gen + 1
        BY <3>2
      <4>3. gen' \in 0..MaxGen
        BY <4>1, <4>2, TunnelAssumption
      <4> QED
        BY <3>2, <4>3
    <3> QED
      BY <2>4, <3>1, <3>2
  <2> QED
    BY <2>4, <2>7, <2>8 DEF routeVars, askVars, netVars
<1>18. ASSUME NEW l \in Lines, NEW x \in Subs, Event(l, x) PROVE TypeOK'
  <2>1. Of("event", x) \in Frames
    BY FrameFacts DEF Things
  <2>2. [ag[l] EXCEPT !.sends = Append(@, Of("event", x))] \in Slots
    BY <2>1, SlotFields, QueueType
  <2> QED
    BY <1>18, <2>2 DEF Event, routeVars, askVars, netVars, regVars
<1>19. ASSUME NEW l \in Lines, Sealed(l) PROVE TypeOK'
  <2>1. UNCHANGED <<routeVars, askVars, ph, regVars, ran>>
    BY <1>19 DEF Sealed
  <2>2. /\ ag' \in [Lines -> Slots] /\ up' \in [Lines -> Seq(Frames)] /\ dn' \in [Lines -> Seq(Frames)]
        /\ cut' \subseteq Lines
    BY <1>19, SealedType
  <2> QED
    BY <2>1, <2>2 DEF routeVars, askVars, regVars
<1>20. ASSUME NEW l \in Lines, PairingTTL(l) PROVE TypeOK'
  <2> DEFINE a == [ag[l] EXCEPT !.slot = "dead", !.jobs = Append(@, Frame("abandon"))]
  <2>1. Frame("abandon") \in Frames
    BY FrameFacts DEF Bare
  <2>2. a \in Slots
    BY <2>1, SlotFields, QueueType
  <2>3. Dropped(l, a) /\ UNCHANGED <<routeVars, askVars, ph, regVars, ran>>
    BY <1>20 DEF PairingTTL
  <2> HIDE DEF a
  <2> QED
    BY <2>2, <2>3, DroppedType DEF routeVars, askVars, regVars
<1>21. CASE Revoke
  BY <1>21 DEF Revoke, routeVars, askVars, netVars
<1>22. CASE PairElsewhere
  <2>1. gen' = gen + 1 /\ valid' = TRUE /\ UNCHANGED <<routeVars, askVars, ph, netVars, ag, token, ran>>
    BY <1>22 DEF PairElsewhere
  <2>2. gen < MaxGen /\ (token => gen + 1 < MaxGen)
    <3>1. gen + (IF token THEN 1 ELSE 0) < MaxGen
      BY <1>22 DEF PairElsewhere
    <3>2. CASE token
      BY <3>1, <3>2, TunnelAssumption
    <3>3. CASE ~token
      BY <3>1, <3>3, TunnelAssumption
    <3> QED
      BY <3>2, <3>3
  <2>3. gen' \in 0..MaxGen
    BY <2>1, <2>2, TunnelAssumption
  <2>4. token' => gen' < MaxGen
    BY <2>1, <2>2
  <2> QED
    BY <2>1, <2>3, <2>4 DEF routeVars, askVars, netVars
<1>23. CASE TokenExpires
  BY <1>23 DEF TokenExpires, routeVars, askVars, netVars
<1>24. CASE UNCHANGED vars
  BY <1>24 DEF vars, routeVars, askVars, netVars, regVars
<1> QED
  BY <1>1, <1>2, <1>3, <1>4, <1>5, <1>6, <1>7, <1>8, <1>9, <1>10, <1>11, <1>12, <1>13, <1>14, <1>15,
     <1>16, <1>17, <1>18, <1>19, <1>20, <1>21, <1>22, <1>23, <1>24 DEF Next, Act, PhoneStep, AgentStep

(* The variables keep their types, whatever is asked, broken or revoked.   *)
THEOREM TypeCorrect == Spec => []TypeOK
BY InitType, StepType, PTL DEF Spec

-----------------------------------------------------------------------------
(* The invariant: what the phone, the network and the agent know of a line *)
(* fits together.                                                          *)

\* A line that was not opened yet.
Unmade(l) == ph[l] = FreshPhone /\ ag[l] = FreshSlot /\ up[l] = <<>> /\ dn[l] = <<>> /\ l \notin cut

\* There is one line at a time, in use or being opened; it is the only one
\* whose handshake goes on.
LinesInOrder ==
  /\ live <= made /\ opening <= made
  /\ live = 0 \/ opening = 0
  /\ live # 0 => ph[live].phase = "open"
  /\ \A l \in Lines : /\ ph[l].phase \in {"reply", "confirm"} => opening = l
                      /\ ph[l].phase = "open" => live = l
                      /\ l > made => Unmade(l)

\* A line that came to pair is spent with its first request.
Spent(a) == a.shut \/ a.slot = "dead" \/ a.cur.t \in {"response", "sending"}
InOrder(a) ==
  /\ a.slot \in {"none", "fresh"} => a.served = 0
  /\ a.cur.t = "init" => a.slot = "fresh"
  /\ a.served <= 1
  /\ a.served = 1 => a.gen = PairingOnly /\ Spent(a)
PairingInOrder == \A l \in Lines : InOrder(ag[l])

RouteInv == TypeOK /\ LinesInOrder /\ PairingInOrder /\ RouteInOrder

\* The way of the phone's frames on a line: its send chain, the network, the
\* jobs of the agent.  It holds a frame of F; it holds at most one.
Carries(l, F) == Has(ph[l].out, F) \/ Has(up[l], F) \/ Has(ag[l].jobs, F)
AtMostOne(l, F) ==
  /\ Once(ph[l].out, F) /\ Once(up[l], F) /\ Once(ag[l].jobs, F)
  /\ ~(Has(ph[l].out, F) /\ Has(up[l], F))
  /\ ~(Has(ph[l].out, F) /\ Has(ag[l].jobs, F))
  /\ ~(Has(up[l], F) /\ Has(ag[l].jobs, F))

\* A request is asked for by one frame on one line, until its handler is
\* started from it.
CopyOf(r) ==
  /\ req[r] \in {"idle", "waiting"} => ran[r] = {}
  /\ ran[r] \subseteq {on[r]}
  /\ \A l \in Lines :
       /\ AtMostOne(l, {Request(r)})
       /\ Carries(l, {Request(r)}) => req[r] \notin {"idle", "waiting"} /\ on[r] = l /\ ran[r] = {}
OneCopy == \A r \in AllReqs : CopyOf(r)

\* The way of an answer: the handler in progress, the send chain of the
\* agent, the network.
Returns(l, f) == ag[l].cur = f \/ Has(ag[l].sends, {f}) \/ Has(dn[l], {f})

\* A good answer comes from a handler that was started.
AnswersBacked == \A l \in Lines, r \in AllReqs : Returns(l, Reply(r, TRUE)) => ran[r] # {}

\* The frames that end a line at the agent.
Ending == {Frame("closed"), Frame("abandon")}

-----------------------------------------------------------------------------
(* The route and the pairing line.                                         *)

(* Steps of one line at the agent or on the network leave the phone, its   *)
(* route and the other lines alone, and the line was made.                 *)
LEMMA AgentLine ==
  ASSUME TypeOK, NEW l \in Lines,
         \/ Arrive(l) \/ Job(l) \/ Handshaken(l) \/ Done(l) \/ Sealed(l) \/ TooLarge(l)
         \/ PairingTTL(l) \/ \E x \in Subs : Event(l, x)
  PROVE  /\ UNCHANGED <<routeVars, askVars, ph>>
         /\ \A m \in Lines \ {l} : /\ ag'[m] = ag[m] /\ up'[m] = up[m] /\ dn'[m] = dn[m]
                                   /\ m \in cut' <=> m \in cut
         /\ ~Unmade(l) /\ cut \subseteq cut'
<1> USE DEF TypeOK
<1>1. CASE Arrive(l)
  BY <1>1 DEF Arrive, Unmade
<1>2. CASE Job(l)
  <2> DEFINE f == Head(ag[l].jobs)
             a == [ag[l] EXCEPT !.jobs = Tail(@)]
  <2>1. UNCHANGED <<routeVars, askVars, ph>> /\ ~Unmade(l)
    BY <1>2 DEF Job, Unmade, FreshSlot
  <2>2. Pass(l, f, a) \/ Handshake(l, f, a) \/ Fatal(l, f, a) \/ DropStream(l, f, a) \/ Begin(l, f, a)
    BY <1>2 DEF Job
  <2> HIDE DEF f, a
  <2>3. \/ UNCHANGED netVars /\ \E b : ag' = [ag EXCEPT ![l] = b]
        \/ \E b : Dropped(l, b)
    BY <2>2 DEF Pass, Handshake, Fatal, DropStream, Begin
  <2> QED
    BY <2>1, <2>3 DEF Dropped, netVars
<1>3. CASE Handshaken(l)
  BY <1>3 DEF Handshaken, Unmade, FreshSlot, Nothing
<1>4. CASE Done(l)
  BY <1>4 DEF Done, Unmade, FreshSlot, Nothing, netVars
<1>5. CASE Sealed(l)
  <2>1. UNCHANGED <<routeVars, askVars, ph>> /\ ~Unmade(l)
    BY <1>5 DEF Sealed, Unmade, FreshSlot
  <2> DEFINE f == Head(ag[l].sends)
             a == [ag[l] EXCEPT !.sends = Tail(@)]
  <2>2. NoEvent(l, f, a) \/ Answers(l, f, a) \/ Passes(l, f, a) \/ (f.t = "drop" /\ Dropped(l, a))
    BY <1>5 DEF Sealed
  <2> HIDE DEF f, a
  <2>3. \/ UNCHANGED netVars /\ \E b : ag' = [ag EXCEPT ![l] = b]
        \/ \E b : Dropped(l, b)
        \/ UNCHANGED <<cut, up>> /\ (\E q : dn' = [dn EXCEPT ![l] = q] \/ dn' = dn)
           /\ \E b : ag' = [ag EXCEPT ![l] = b]
    BY <2>2 DEF NoEvent, Answers, Passes, GoesOut
  <2> QED
    BY <2>1, <2>3 DEF Dropped, netVars
<1>6. CASE TooLarge(l)
  BY <1>6 DEF TooLarge, Unmade, FreshSlot, Nothing, netVars
<1>7. CASE PairingTTL(l)
  BY <1>7 DEF PairingTTL, Unmade, FreshSlot, Dropped
<1>8. CASE \E x \in Subs : Event(l, x)
  BY <1>8 DEF Event, Unmade, FreshSlot, netVars
<1> QED
  BY <1>1, <1>2, <1>3, <1>4, <1>5, <1>6, <1>7, <1>8

(* The agent and the network leave the order of the lines as it was.       *)
LEMMA SameRoute ==
  ASSUME RouteInv, UNCHANGED <<routeVars, screen, ph>>, cut \subseteq cut',
         \A l \in Lines : l > made => Unmade(l)'
  PROVE  LinesInOrder' /\ NoneSilent' /\ NoLineLeaks' /\ TakeoverIsNext'
BY DEF RouteInv, RouteInOrder, LinesInOrder, NoneSilent, NoLineLeaks, TakeoverIsNext, routeVars, Wanted

(* A line is given up: it is closed, and no longer the one in use.         *)
LEMMA DeadRoute ==
  ASSUME RouteInv, NEW l \in Lines, l <= made, Dead(l)
  PROVE  LinesInOrder' /\ NoneSilent' /\ NoLineLeaks' /\ TakeoverIsNext' /\ UNCHANGED ag
<1> USE DEF RouteInv, TypeOK
<1>1. /\ \A m \in Lines \ {l} : ph'[m] = ph[m] /\ up'[m] = up[m] /\ dn'[m] = dn[m] /\ (m \in cut' <=> m \in cut)
      /\ ph'[l].phase = "dead" /\ l \in cut' /\ cut \subseteq cut'
      /\ UNCHANGED <<made, takeover, screen, ag>>
  BY DEF Dead, Closed
<1>2. /\ live' = IF live = l THEN 0 ELSE live
      /\ opening' = IF opening = l THEN 0 ELSE opening
  BY DEF Dead
<1>3. LinesInOrder'
  BY <1>1, <1>2 DEF LinesInOrder, Unmade, Lines
<1>4. NoneSilent'
  <2>1. CASE live' = 0
    BY <2>1 DEF NoneSilent
  <2>2. CASE live' # 0
    <3>1. live' = live /\ live # l /\ live \in Lines
      BY <1>2, <2>2, TunnelAssumption DEF Lines
    <3> QED
      BY <1>1, <3>1 DEF NoneSilent, RouteInOrder, Wanted
  <2> QED
    BY <2>1, <2>2
<1>5. NoLineLeaks'
  BY <1>1, <1>2 DEF NoLineLeaks, RouteInOrder
<1>6. TakeoverIsNext'
  BY <1>1, <1>2 DEF TakeoverIsNext, RouteInOrder
<1> QED
  BY <1>1, <1>3, <1>4, <1>5, <1>6

(* A line is opened because something was asked for.                       *)
LEMMA EnsureRoute ==
  ASSUME RouteInv, live = 0, Ensure, UNCHANGED <<live, cut, dn>>
  PROVE  LinesInOrder' /\ NoneSilent' /\ NoLineLeaks' /\ TakeoverIsNext' /\ PairingInOrder'
<1> USE DEF RouteInv, TypeOK
<1>1. NoneSilent'
  BY DEF NoneSilent
<1>2. CASE opening # 0
  <2>1. UNCHANGED <<opening, made, takeover, up, ag, ph>>
    BY <1>2 DEF Ensure
  <2> QED
    BY <1>1, <2>1 DEF LinesInOrder, Unmade, NoLineLeaks, TakeoverIsNext, RouteInOrder, PairingInOrder, InOrder, Spent
<1>3. CASE opening = 0
  <2> DEFINE n == made + 1
  <2>1. /\ n \in Lines /\ opening' = n /\ made' = n /\ takeover' = FALSE
        /\ ph' = [ph EXCEPT ![n].phase = "reply"] /\ ag' = [ag EXCEPT ![n].slot = "fresh"]
        /\ up' = [up EXCEPT ![n] = <<Frame("init")>>]
    BY <1>3, TunnelAssumption DEF Ensure, Used, Lines
  <2>2. /\ \A m \in Lines \ {n} : ph'[m] = ph[m] /\ up'[m] = up[m] /\ ag'[m] = ag[m]
        /\ ph'[n].phase = "reply"
    BY <2>1
  <2>3. n > made /\ Unmade(n)
    BY <2>1 DEF LinesInOrder
  <2>4. /\ ag'[n].slot = "fresh" /\ ag'[n].served = 0 /\ ag'[n].cur = Nothing
    BY <2>1, <2>3 DEF Unmade, FreshSlot
  <2>5. LinesInOrder'
    <3> HIDE DEF n
    <3>1. \A l \in Lines : l > n => l > made /\ l # n
      BY <2>1, <2>3 DEF Lines
    <3>2. \A l \in Lines : l > n => Unmade(l)'
      BY <2>2, <3>1 DEF LinesInOrder, Unmade
    <3>3. \A l \in Lines \ {n} : ph'[l].phase \notin {"reply", "confirm", "open"}
      BY <1>3, <2>2 DEF LinesInOrder, Lines
    <3> QED
      BY <2>1, <2>2, <3>2, <3>3, TunnelAssumption DEF LinesInOrder, Lines
  <2>6. NoLineLeaks'
    <3>1. \A l \in 1..n : l = n \/ l \in 1..made
      OBVIOUS
    <3>2. \A l \in 1..made : l \in cut
      <4>1. \A l \in 1..made : l # 0
        OBVIOUS
      <4>2. NoLineLeaks
        BY DEF RouteInOrder
      <4> QED
        BY <1>3, <4>1, <4>2 DEF NoLineLeaks
    <3> QED
      BY <2>1, <3>1, <3>2 DEF NoLineLeaks
  <2>7. TakeoverIsNext'
    BY <2>1 DEF TakeoverIsNext
  <2>8. PairingInOrder'
    <3>1. Nothing.t = "nothing"
      BY DEF Nothing
    <3> HIDE DEF n
    <3> SUFFICES ASSUME NEW l \in Lines PROVE InOrder(ag'[l])
      BY DEF PairingInOrder, InOrder, Spent
    <3>2. CASE l = n
      BY <2>4, <3>1, <3>2 DEF InOrder
    <3>3. CASE l # n
      BY <2>2, <3>3 DEF PairingInOrder
    <3> QED
      BY <3>2, <3>3
  <2> QED
    BY <1>1, <2>5, <2>6, <2>7, <2>8
<1> QED
  BY <1>2, <1>3

(* A frame of the agent keeps the order of the lines.                      *)
LEMMA ReceiveRoute ==
  ASSUME RouteInv, NEW l \in Lines, Receive(l)
  PROVE  LinesInOrder' /\ NoneSilent' /\ NoLineLeaks' /\ TakeoverIsNext' /\ UNCHANGED ag
<1> DEFINE Goal == LinesInOrder /\ NoneSilent /\ NoLineLeaks /\ TakeoverIsNext
           f == Head(dn[l])
           p == ph[l].phase
<1>0. Goal
  BY DEF RouteInv, RouteInOrder
<1> USE DEF RouteInv, TypeOK
<1>1. l <= made /\ l # 0
  BY DEF Receive, LinesInOrder, Unmade, Lines
<1>2. live # 0 => live \in Lines
  BY TunnelAssumption DEF Lines
<1>3. ASSUME UNCHANGED <<live, opening, made, takeover, screen, cut, up, ag>>,
             \A m \in Lines \ {l} : ph'[m] = ph[m] /\ dn'[m] = dn[m],
             ph'[l].stops = ph[l].stops,
             p = ph'[l].phase \/ (p = "reply" /\ ph'[l].phase = "confirm")
      PROVE  Goal'
  <2>1. LinesInOrder'
    BY <1>1, <1>2, <1>3 DEF LinesInOrder, Unmade, Lines
  <2>2. NoneSilent'
    BY <1>0, <1>2, <1>3 DEF NoneSilent, Wanted
  <2> QED
    BY <1>0, <1>3, <2>1, <2>2 DEF NoLineLeaks, TakeoverIsNext
<1>4. CASE p = "reply" /\ f.t = "reply"
  <2>1. /\ ph' = [ph EXCEPT ![l].phase = "confirm"] /\ dn' = [dn EXCEPT ![l] = Tail(@)]
        /\ UNCHANGED <<live, opening, made, takeover, askVars, cut, up, ag>>
    BY <1>4 DEF Receive
  <2> QED
    BY <1>3, <1>4, <2>1 DEF askVars
<1>5. CASE p = "confirm" /\ f.t = "confirm" /\ ~closed
  <2>1. Opened(l) /\ dn' = [dn EXCEPT ![l] = Tail(@)]
    BY <1>5 DEF Receive
  <2>2. opening = l /\ live = 0 /\ takeover = FALSE
    BY <1>0, <1>1, <1>5 DEF LinesInOrder, TakeoverIsNext
  <2>3. live' = l /\ opening' = 0 /\ UNCHANGED <<made, takeover, screen, cut, up, ag>>
    BY <2>1 DEF Opened
  <2>4. /\ \A m \in Lines \ {l} : ph'[m] = ph[m] /\ dn'[m] = dn[m]
        /\ ph'[l].phase = "open" /\ ph'[l].stops = Wanted
    BY <2>1 DEF Opened, Resubscribed
  <2>5. LinesInOrder'
    BY <1>1, <2>2, <2>3, <2>4 DEF LinesInOrder, Unmade, Lines
  <2>6. NoneSilent'
    BY <2>3, <2>4 DEF NoneSilent, Wanted
  <2>7. NoLineLeaks'
    BY <1>0, <2>2, <2>3 DEF NoLineLeaks, Lines
  <2>8. TakeoverIsNext'
    BY <2>2, <2>3 DEF TakeoverIsNext
  <2> QED
    BY <2>3, <2>5, <2>6, <2>7, <2>8
<1>6. CASE p = "open" /\ f.t = "response"
  <2>1. /\ Answered(l, f) /\ dn' = [dn EXCEPT ![l] = Tail(@)]
        /\ UNCHANGED <<live, opening, made, takeover, on, screen, cut, up, ag>>
    BY <1>6 DEF Receive
  <2> HIDE DEF f
  <2>2. \/ ph' = ph
        \/ ph' = [ph EXCEPT ![l].conf = @ \cup {f.x}]
        \/ ph' = [ph EXCEPT ![l].subs = @ \ {f.x}]
    <3>1. CASE f.x \in ph[l].subs /\ f.ok
      BY <2>1, <3>1 DEF Answered
    <3>2. CASE f.x \in ph[l].subs /\ ~f.ok
      BY <2>1, <3>2 DEF Answered
    <3>3. CASE f.x \notin ph[l].subs
      BY <2>1, <3>3 DEF Answered
    <3> QED
      BY <3>1, <3>2, <3>3
  <2>3. /\ \A m \in Lines \ {l} : ph'[m] = ph[m]
        /\ ph'[l].stops = ph[l].stops /\ ph'[l].phase = ph[l].phase
    <3>1. CASE ph' = ph
      BY <3>1
    <3>2. CASE ph' = [ph EXCEPT ![l].conf = @ \cup {f.x}]
      BY <3>2
    <3>3. CASE ph' = [ph EXCEPT ![l].subs = @ \ {f.x}]
      BY <3>3
    <3> QED
      BY <2>2, <3>1, <3>2, <3>3
  <2>4. \A m \in Lines \ {l} : dn'[m] = dn[m]
    BY <2>1
  <2> QED
    BY <1>3, <2>1, <2>3, <2>4
<1>7. CASE p = "open" /\ f.t = "event"
  <2>1. /\ dn' = [dn EXCEPT ![l] = Tail(@)]
        /\ UNCHANGED <<live, opening, made, takeover, askVars, ph, cut, up, ag>>
    BY <1>7 DEF Receive
  <2> QED
    BY <1>3, <2>1 DEF askVars
<1>8. CASE p = "open" /\ f.t = "close"
  <2>1. /\ ph' = [ph EXCEPT ![l].subs = @ \ {f.x}] /\ dn' = [dn EXCEPT ![l] = Tail(@)]
        /\ UNCHANGED <<live, opening, made, takeover, on, screen, cut, up, ag>>
    BY <1>8 DEF Receive
  <2> QED
    BY <1>3, <2>1
<1>9. CASE Dead(l)
  BY <1>1, <1>9, DeadRoute
<1> QED
  BY <1>4, <1>5, <1>6, <1>7, <1>8, <1>9 DEF Receive

(* Every step keeps the order of the lines.                                *)
LEMMA LinesStep ==
  ASSUME RouteInv, TypeOK', [Next]_vars
  PROVE  LinesInOrder' /\ NoneSilent' /\ NoLineLeaks' /\ TakeoverIsNext'
<1> DEFINE Goal == LinesInOrder /\ NoneSilent /\ NoLineLeaks /\ TakeoverIsNext
<1>0. Goal
  BY DEF RouteInv, RouteInOrder
<1> USE DEF RouteInv, TypeOK
<1>1. ASSUME NEW r \in AllReqs, Ask(r) PROVE Goal'
  <2>1. CASE live # 0
    <3>1. live \in Lines /\ UNCHANGED <<opening, made, takeover, up, ag, live, screen, cut, dn>>
      BY <1>1, <2>1, TunnelAssumption DEF Ask, Lines
    <3>2. ph' = [ph EXCEPT ![live].out = Append(@, Of("request", r))]
      BY <1>1, <2>1 DEF Ask
    <3>3. /\ \A m \in Lines : ph'[m].phase = ph[m].phase /\ ph'[m].stops = ph[m].stops
          /\ \A m \in Lines : m > made => ph'[m] = ph[m]
      BY <3>1, <3>2 DEF LinesInOrder
    <3> QED
      BY <1>0, <3>1, <3>3 DEF LinesInOrder, NoneSilent, NoLineLeaks, TakeoverIsNext, Unmade, Wanted
  <2>2. CASE live = 0
    BY <1>1, <2>2, EnsureRoute DEF Ask
  <2> QED
    BY <2>1, <2>2
<1>2. ASSUME NEW r \in AllReqs, KeyMissing(r) PROVE Goal'
  BY <1>0, <1>2 DEF KeyMissing, Used, LinesInOrder, NoneSilent, NoLineLeaks, TakeoverIsNext, Unmade, Wanted, netVars
<1>3. CASE TakeoverNext
  BY <1>0, <1>3 DEF TakeoverNext, LinesInOrder, NoneSilent, NoLineLeaks, TakeoverIsNext, Unmade, Wanted, netVars, askVars
<1>4. ASSUME NEW s \in Subs, Subscribe(s) PROVE Goal'
  <2>1. CASE live # 0
    <3>1. live \in Lines /\ UNCHANGED <<opening, made, takeover, up, ag, live, cut, dn>>
      BY <1>4, <2>1, TunnelAssumption DEF Subscribe, Lines
    <3>2. /\ ph' = [ph EXCEPT ![live].out = Append(@, Of("request", s)),
                              ![live].stops = @ \cup {s}, ![live].subs = @ \cup {s}]
          /\ screen' = [screen EXCEPT ![s] = "on"]
      BY <1>4, <2>1 DEF Subscribe
    <3>3. /\ \A m \in Lines : ph'[m].phase = ph[m].phase
          /\ ph'[live].stops = ph[live].stops \cup {s}
          /\ \A m \in Lines : m > made => ph'[m] = ph[m]
      BY <3>1, <3>2 DEF LinesInOrder
    <3>4. Wanted' \subseteq Wanted \cup {s}
      BY <3>2 DEF Wanted
    <3>5. NoneSilent'
      BY <1>0, <3>1, <3>3, <3>4 DEF NoneSilent
    <3> QED
      BY <1>0, <3>1, <3>3, <3>5 DEF LinesInOrder, NoLineLeaks, TakeoverIsNext, Unmade
  <2>2. CASE live = 0
    BY <1>4, <2>2, EnsureRoute DEF Subscribe
  <2> QED
    BY <2>1, <2>2
<1>5. ASSUME NEW s \in Subs, Unsubscribe(s) PROVE Goal'
  <2>1. UNCHANGED <<routeVars, netVars, ag>> /\ screen' = [screen EXCEPT ![s] = "off"]
    BY <1>5 DEF Unsubscribe
  <2>2. Wanted' = Wanted \ {s}
    BY <2>1 DEF Wanted
  <2>3. /\ \A m \in Lines : ph'[m].phase = ph[m].phase /\ ph[m].stops \ {s} \subseteq ph'[m].stops
        /\ \A m \in Lines : m > made => ph'[m] = ph[m]
    <3>1. CASE live = 0 \/ s \notin ph[live].stops
      BY <1>5, <3>1 DEF Unsubscribe
    <3>2. CASE ~(live = 0 \/ s \notin ph[live].stops)
      <4>1. live \in Lines /\ live <= made
        BY <3>2, TunnelAssumption DEF Lines, LinesInOrder
      <4>2. ph' = [ph EXCEPT ![live].stops = @ \ {s}, ![live].subs = @ \ {s},
                             ![live].out = IF s \in ph[live].subs THEN Append(@, Of("close", s)) ELSE @]
        BY <1>5, <3>2 DEF Unsubscribe
      <4> DEFINE q == IF s \in ph[live].subs THEN Append(ph[live].out, Of("close", s)) ELSE ph[live].out
      <4>3. ph' = [ph EXCEPT ![live].stops = @ \ {s}, ![live].subs = @ \ {s}, ![live].out = q]
        BY <4>2
      <4> HIDE DEF q
      <4>4. ph'[live].stops = ph[live].stops \ {s} /\ ph'[live].phase = ph[live].phase
        BY <4>1, <4>3
      <4>5. \A m \in Lines \ {live} : ph'[m] = ph[m]
        BY <4>1, <4>3
      <4> QED
        BY <4>1, <4>4, <4>5 DEF Lines
    <3> QED
      BY <3>1, <3>2
  <2>4. NoneSilent'
    <3>1. live # 0 => live \in Lines
      BY TunnelAssumption DEF Lines
    <3> QED
      BY <1>0, <2>1, <2>2, <2>3, <3>1 DEF NoneSilent, routeVars
  <2>5. LinesInOrder'
    <3>1. live # 0 => live \in Lines
      BY TunnelAssumption DEF Lines
    <3> QED
      BY <2>1, <2>3, <3>1 DEF LinesInOrder, Unmade, routeVars, netVars
  <2> QED
    BY <1>0, <2>1, <2>4, <2>5 DEF NoLineLeaks, TakeoverIsNext, routeVars, netVars
<1>6. CASE Leave
  <2>1. UNCHANGED <<opening, made, takeover, dn, ag>>
    BY <1>6 DEF Leave
  <2>2. CASE live # 0
    <3>1. live \in Lines /\ live <= made /\ opening = 0
      BY <2>2, TunnelAssumption DEF Lines, LinesInOrder
    <3>2. /\ ph' = [ph EXCEPT ![live].phase = "dead", ![live].out = <<>>, ![live].stops = {}]
          /\ Closed(live) /\ live' = 0
      BY <1>6, <2>2 DEF Leave
    <3>3. /\ \A m \in Lines \ {live} : ph'[m] = ph[m] /\ up'[m] = up[m] /\ (m \in cut' <=> m \in cut)
          /\ ph'[live].phase = "dead" /\ live \in cut' /\ cut \subseteq cut'
      BY <3>1, <3>2 DEF Closed
    <3>4. LinesInOrder'
      BY <2>1, <3>1, <3>2, <3>3 DEF LinesInOrder, Unmade, Lines
    <3> QED
      BY <1>0, <2>1, <3>1, <3>2, <3>3, <3>4 DEF NoneSilent, NoLineLeaks, TakeoverIsNext
  <2>3. CASE live = 0
    <3>1. UNCHANGED <<ph, cut, up, live>>
      BY <1>6, <2>3 DEF Leave
    <3> QED
      BY <1>0, <2>1, <2>3, <3>1 DEF LinesInOrder, NoneSilent, NoLineLeaks, TakeoverIsNext, Unmade
  <2> QED
    BY <2>2, <2>3
<1>7. ASSUME NEW l \in Lines, Send(l) PROVE Goal'
  <2>1. UNCHANGED <<routeVars, askVars, cut, dn, ag>> /\ ~Unmade(l)
    BY <1>7 DEF Send, Unmade, FreshPhone
  <2>2. /\ ph' = [ph EXCEPT ![l].out = Tail(@)]
        /\ \A m \in Lines \ {l} : up'[m] = up[m]
    BY <1>7 DEF Send
  <2>3. \A m \in Lines : /\ ph'[m].phase = ph[m].phase /\ ph'[m].stops = ph[m].stops
                         /\ (m # l => ph'[m] = ph[m])
    <3>1. \A m \in Lines : m # l => ph'[m] = ph[m]
      BY <2>2
    <3>2. ph'[l].phase = ph[l].phase /\ ph'[l].stops = ph[l].stops
      BY <2>2 DEF TypeOK, Phones
    <3> QED
      BY <3>1, <3>2
  <2>4. live # 0 => live \in Lines
    BY TunnelAssumption DEF Lines
  <2>5. LinesInOrder'
    BY <2>1, <2>2, <2>3, <2>4 DEF LinesInOrder, Unmade, routeVars
  <2> QED
    BY <1>0, <2>1, <2>3, <2>4, <2>5 DEF NoneSilent, NoLineLeaks, TakeoverIsNext, routeVars, askVars, Wanted
<1>8. ASSUME NEW l \in Lines, Receive(l) PROVE Goal'
  BY <1>8, ReceiveRoute
<1>9. ASSUME NEW l \in Lines, HandshakeTimeout(l) PROVE Goal'
  <2>1. l <= made
    BY <1>9 DEF HandshakeTimeout, LinesInOrder, Unmade, FreshPhone, Lines
  <2> QED
    BY <1>9, <2>1, DeadRoute DEF HandshakeTimeout
<1>10. ASSUME NEW r \in AllReqs, RequestTimeout(r) PROVE Goal'
  <2>1. PICK l \in Lines : ph[l].phase = "open" /\ Dead(l)
    BY <1>10 DEF RequestTimeout
  <2>2. l <= made
    BY <2>1 DEF LinesInOrder, Unmade, FreshPhone, Lines
  <2> QED
    BY <2>1, <2>2, DeadRoute
<1>11. ASSUME NEW l \in Lines, Break(l) PROVE Goal'
  <2>1. UNCHANGED <<routeVars, askVars, ph, ag>> /\ ph[l].phase # "none" /\ cut' = cut \cup {l}
    BY <1>11 DEF Break
  <2>2. \A m \in Lines \ {l} : up'[m] = up[m] /\ dn'[m] = dn[m]
    BY <1>11 DEF Break
  <2>3. \A m \in Lines : m > made => Unmade(m)'
    BY <2>1, <2>2 DEF LinesInOrder, Unmade, FreshPhone, routeVars
  <2> QED
    BY <2>1, <2>3, SameRoute DEF askVars
<1>12. CASE LinkDown
  <2>1. UNCHANGED <<routeVars, askVars, ph>> /\ cut \subseteq cut'
    BY <1>12 DEF LinkDown
  <2>2. ASSUME NEW m \in Lines, m > made PROVE Unmade(m)'
    <3>1. Unmade(m) /\ ag[m].slot = "none"
      BY <2>2 DEF LinesInOrder, Unmade, FreshSlot
    <3> QED
      BY <1>12, <2>1, <3>1 DEF LinkDown, Unmade
  <2> QED
    BY <2>1, <2>2, SameRoute DEF askVars
<1>13. ASSUME NEW l \in Lines,
              \/ Arrive(l) \/ Job(l) \/ Handshaken(l) \/ Done(l) \/ Sealed(l) \/ TooLarge(l)
              \/ PairingTTL(l) \/ \E x \in Subs : Event(l, x)
       PROVE Goal'
  <2>1. /\ UNCHANGED <<routeVars, askVars, ph>>
        /\ \A m \in Lines \ {l} : /\ ag'[m] = ag[m] /\ up'[m] = up[m] /\ dn'[m] = dn[m]
                                  /\ m \in cut' <=> m \in cut
        /\ ~Unmade(l) /\ cut \subseteq cut'
    BY <1>13, AgentLine
  <2>2. ASSUME NEW m \in Lines, m > made PROVE Unmade(m)'
    <3>1. Unmade(m) /\ m # l
      BY <2>1, <2>2 DEF LinesInOrder
    <3>2. m \in Lines \ {l}
      BY <3>1
    <3>3. ag'[m] = ag[m] /\ up'[m] = up[m] /\ dn'[m] = dn[m] /\ (m \in cut' <=> m \in cut)
      BY <2>1, <3>2
    <3>4. ph' = ph
      BY <2>1
    <3> QED
      BY <3>1, <3>3, <3>4 DEF Unmade
  <2> QED
    BY <2>1, <2>2, SameRoute DEF askVars
<1>14. CASE Revoke \/ PairElsewhere \/ TokenExpires
  BY <1>0, <1>14 DEF Revoke, PairElsewhere, TokenExpires, LinesInOrder, NoneSilent, NoLineLeaks, TakeoverIsNext,
     Unmade, Wanted, routeVars, askVars, netVars
<1>15. CASE UNCHANGED vars
  BY <1>0, <1>15 DEF vars, LinesInOrder, NoneSilent, NoLineLeaks, TakeoverIsNext, Unmade, Wanted, routeVars, askVars, netVars
<1> QED
  BY <1>1, <1>2, <1>3, <1>4, <1>5, <1>6, <1>7, <1>8, <1>9, <1>10, <1>11, <1>12, <1>13, <1>14, <1>15
     DEF Next, Act, PhoneStep, AgentStep

(* A line that came to pair is spent with its first request, whatever the  *)
(* agent does next.                                                        *)
LEMMA JobPairing ==
  ASSUME RouteInv, NEW l \in Lines, Job(l)
  PROVE  \E b \in Slots : ag' = [ag EXCEPT ![l] = b] /\ InOrder(b)
<1> DEFINE f == Head(ag[l].jobs)
           a == [ag[l] EXCEPT !.jobs = Tail(@)]
<1>1. ag[l] \in Slots /\ InOrder(ag[l]) /\ ag[l].jobs # <<>> /\ ag[l].cur = Nothing /\ Nothing.t = "nothing"
  BY DEF Job, RouteInv, TypeOK, PairingInOrder, Nothing
<1>2. f \in Frames /\ a \in Slots
  BY <1>1, SlotFields, QueueType
<1>3. /\ a.slot = ag[l].slot /\ a.served = ag[l].served /\ a.cur = Nothing /\ a.gen = ag[l].gen
      /\ (a.shut <=> ag[l].shut)
  BY <1>1 DEF Slots
<1>4. InOrder(a)
  BY <1>1, <1>3 DEF InOrder, Spent
<1>5. Pass(l, f, a) \/ Handshake(l, f, a) \/ Fatal(l, f, a) \/ DropStream(l, f, a) \/ Begin(l, f, a)
  BY DEF Job
<1> HIDE DEF f, a
<1>6. CASE Pass(l, f, a)
  <2>1. Abandoned(a) \in Slots /\ InOrder(Abandoned(a))
    BY <1>2, <1>4 DEF Abandoned, Slots, InOrder, Spent
  <2> QED
    BY <1>2, <1>4, <1>6, <2>1 DEF Pass
<1>7. CASE Handshake(l, f, a)
  <2>1. CASE f.t = "init" /\ Accepted # 0
    <3>1. Accepted \in 0..PairingOnly
      BY TunnelAssumption DEF Accepted, PairingOnly, RouteInv, TypeOK
    <3> DEFINE b == [a EXCEPT !.cur = f, !.gen = Accepted]
    <3>2. b \in Slots
      BY <1>2, <3>1, SlotFields
    <3>3. b.slot = a.slot /\ b.served = a.served
      BY <1>2 DEF Slots
    <3>4. a.slot = "fresh"
      BY <1>7 DEF Handshake
    <3>5. InOrder(b)
      BY <1>4, <3>3, <3>4 DEF InOrder
    <3>6. ag' = [ag EXCEPT ![l] = b]
      BY <1>7, <2>1 DEF Handshake
    <3> QED
      BY <3>2, <3>5, <3>6
  <2>2. CASE ~(f.t = "init" /\ Accepted # 0)
    <3> DEFINE b == [a EXCEPT !.slot = "dead"]
    <3>1. b \in Slots /\ InOrder(b)
      BY <1>1, <1>2, <1>3, <1>4 DEF Slots, InOrder, Spent
    <3>2. ag' = [ag EXCEPT ![l] = b]
      BY <1>7, <2>2 DEF Handshake, Dropped
    <3> QED
      BY <3>1, <3>2
  <2> QED
    BY <2>1, <2>2
<1>8. CASE Fatal(l, f, a)
  <2> DEFINE b == [a EXCEPT !.slot = "dead", !.sends = @ \o <<Frame("closeall"), Frame("drop")>>]
  <2>1. Frame("closeall") \in Frames /\ Frame("drop") \in Frames
    BY FrameFacts DEF Bare
  <2>2. b \in Slots
    BY <1>2, <2>1, SlotFields, QueueType
  <2>3. b.slot = "dead" /\ b.served = a.served /\ b.cur = a.cur /\ b.gen = a.gen
    BY <1>2 DEF Slots
  <2>4. InOrder(b)
    BY <1>1, <1>3, <1>4, <2>3 DEF InOrder, Spent
  <2>5. ag' = [ag EXCEPT ![l] = b]
    BY <1>8 DEF Fatal
  <2> QED
    BY <2>2, <2>4, <2>5
<1>9. CASE DropStream(l, f, a)
  <2> DEFINE b == [a EXCEPT !.streams = @ \ {f.x}]
  <2>1. b \in Slots /\ InOrder(b)
    BY <1>2, <1>4 DEF Slots, InOrder, Spent
  <2>2. ag' = [ag EXCEPT ![l] = b]
    BY <1>9 DEF DropStream
  <2> QED
    BY <2>1, <2>2
<1>10. CASE Begin(l, f, a)
  <2> DEFINE g == Reply(f.x, MayRun(l, f.x))
             n == IF a.gen = PairingOnly THEN a.served + 1 ELSE a.served
             b == [a EXCEPT !.cur = g, !.served = n]
  <2>1. ag' = [ag EXCEPT ![l] = b]
    BY <1>10 DEF Begin
  <2>2. g \in Frames /\ g.t = "response"
    <3>1. f.t = "request" /\ MayRun(l, f.x) \in BOOLEAN
      BY <1>10 DEF Begin, MayRun
    <3>2. f.x \in Things
      BY <1>2, <3>1, FrameFacts
    <3> QED
      BY <3>1, <3>2, FrameFacts DEF Reply
  <2> HIDE DEF g
  <2>3. a.served \in Nat
    BY <1>2, SlotFields
  <2>4. a.served = 0
    <3>1. a.slot = "open" /\ ~a.shut
      BY <1>10 DEF Begin
    <3>2. ~Spent(a)
      BY <1>1, <1>3, <3>1 DEF Spent
    <3>3. a.served # 1 /\ a.served <= 1
      BY <1>4, <3>2 DEF InOrder
    <3> QED
      BY <2>3, <3>3
  <2>5. n = IF a.gen = PairingOnly THEN 1 ELSE 0
    BY <2>4
  <2> HIDE DEF n
  <2>6. b \in Slots
    BY <1>2, <2>2, <2>5, SlotFields
  <2>7. b.slot = "open" /\ b.served = n /\ b.cur = g /\ b.gen = a.gen
    BY <1>2, <1>10 DEF Slots, Begin
  <2>8. InOrder(b)
    BY <2>2, <2>5, <2>7 DEF InOrder, Spent
  <2> QED
    BY <2>1, <2>6, <2>8
<1> QED
  BY <1>5, <1>6, <1>7, <1>8, <1>9, <1>10

LEMMA PairingStep ==
  ASSUME RouteInv, [Next]_vars
  PROVE  PairingInOrder'
<1> USE DEF RouteInv, TypeOK
<1>1. ASSUME NEW l \in Lines, NEW b, ag' = [ag EXCEPT ![l] = b], InOrder(b) PROVE PairingInOrder'
  BY <1>1 DEF PairingInOrder
<1>2. ASSUME UNCHANGED ag PROVE PairingInOrder'
  BY <1>2 DEF PairingInOrder
<1>3. \A l \in Lines : ag[l] \in Slots /\ InOrder(ag[l])
  BY DEF PairingInOrder
<1>4. ASSUME NEW a \in Slots, InOrder(a) PROVE InOrder(Gone(a))
  BY <1>4 DEF Gone, InOrder, Spent, Slots
<1>5. ASSUME NEW r \in AllReqs, Ask(r) PROVE PairingInOrder'
  BY <1>2, <1>5, EnsureRoute DEF Ask
<1>6. ASSUME NEW s \in Subs, Subscribe(s) PROVE PairingInOrder'
  BY <1>2, <1>6, EnsureRoute DEF Subscribe
<1>7. CASE TakeoverNext \/ Leave \/ Revoke \/ PairElsewhere \/ TokenExpires
           \/ (\E r \in AllReqs : KeyMissing(r)) \/ \E s \in Subs : Unsubscribe(s)
  BY <1>2, <1>7 DEF TakeoverNext, Leave, Revoke, PairElsewhere, TokenExpires, KeyMissing, Unsubscribe
<1>8. CASE \E l \in Lines : Send(l) \/ Break(l)
  BY <1>2, <1>8 DEF Send, Break
<1>9. CASE (\E l \in Lines : HandshakeTimeout(l)) \/ \E r \in AllReqs : RequestTimeout(r)
  BY <1>2, <1>9 DEF HandshakeTimeout, RequestTimeout, Dead
<1>10. ASSUME NEW l \in Lines, Receive(l) PROVE PairingInOrder'
  BY <1>2, <1>10, ReceiveRoute
<1>11. CASE LinkDown
  <2>1. ag' = [l \in Lines |-> IF ag[l].slot = "none" THEN ag[l] ELSE Gone(ag[l])]
    BY <1>11 DEF LinkDown
  <2> QED
    BY <1>3, <1>4, <2>1 DEF PairingInOrder
<1>12. ASSUME NEW l \in Lines, Arrive(l) PROVE PairingInOrder'
  <2> DEFINE f == Head(up[l])
             b == [ag[l] EXCEPT !.jobs = Append(@, f)]
  <2>1. \/ ag' = [ag EXCEPT ![l] = Gone(ag[l])] \/ ag' = ag \/ ag' = [ag EXCEPT ![l] = b]
    BY <1>12 DEF Arrive
  <2>2. InOrder(b)
    BY <1>3 DEF InOrder, Spent, Slots
  <2> HIDE DEF b
  <2> QED
    BY <1>1, <1>2, <1>3, <1>4, <2>1, <2>2
<1>13. ASSUME NEW l \in Lines, Job(l) PROVE PairingInOrder'
  BY <1>1, <1>13, JobPairing
<1>14. ASSUME NEW l \in Lines, Handshaken(l) PROVE PairingInOrder'
  <2> DEFINE s == IF LiveReg(ag[l].gen) THEN "open" ELSE ag[l].slot
             b == [ag[l] EXCEPT !.cur = Nothing, !.slot = s]
  <2>1. ag[l].slot = "fresh" /\ ag[l].served = 0
    BY <1>3, <1>14 DEF Handshaken, InOrder
  <2>2. ag' = [ag EXCEPT ![l] = b]
    BY <1>14 DEF Handshaken
  <2> HIDE DEF s
  <2>3. b.served = 0 /\ b.cur = Nothing
    BY <1>3, <2>1 DEF Slots
  <2>4. InOrder(b)
    BY <2>3 DEF InOrder, Nothing
  <2> QED
    BY <1>1, <2>2, <2>4
<1>15. ASSUME NEW l \in Lines, Done(l) PROVE PairingInOrder'
  <2> DEFINE x == ag[l].cur.x
             ok == ag[l].cur.ok /\ (x = Pair => token)
             S == IF ok /\ x \in Subs THEN ag[l].streams \cup {x} ELSE ag[l].streams
             b == [ag[l] EXCEPT !.cur = Frame("sending"), !.streams = S, !.sends = Append(@, Reply(x, ok))]
  <2>1. ag' = [ag EXCEPT ![l] = b] /\ ag[l].cur.t = "response"
    BY <1>15 DEF Done
  <2> HIDE DEF S, x, ok
  <2>2. /\ b.slot = ag[l].slot /\ b.served = ag[l].served /\ b.gen = ag[l].gen /\ b.cur = Frame("sending")
    BY <1>3 DEF Slots
  <2>3. Frame("sending").t = "sending"
    BY DEF Frame
  <2>4. InOrder(b)
    BY <1>3, <2>1, <2>2, <2>3 DEF InOrder, Spent
  <2> QED
    BY <1>1, <2>1, <2>4
<1>16. ASSUME NEW l \in Lines, TooLarge(l) PROVE PairingInOrder'
  <2> DEFINE b == [Abandoned(ag[l]) EXCEPT !.cur = Nothing, !.slot = "dead",
                                           !.sends = @ \o <<Frame("closeall"), Frame("drop")>>]
  <2>1. ag' = [ag EXCEPT ![l] = b]
    BY <1>16 DEF TooLarge
  <2>2. b.slot = "dead" /\ b.cur = Nothing /\ b.served = ag[l].served /\ b.gen = ag[l].gen
    BY <1>3 DEF Slots, Abandoned
  <2>3. InOrder(b)
    BY <1>3, <2>2 DEF InOrder, Spent, Nothing
  <2> QED
    BY <1>1, <2>1, <2>3
<1>17. ASSUME NEW l \in Lines, NEW x \in Subs, Event(l, x) PROVE PairingInOrder'
  <2> DEFINE b == [ag[l] EXCEPT !.sends = Append(@, Of("event", x))]
  <2>1. ag' = [ag EXCEPT ![l] = b]
    BY <1>17 DEF Event
  <2>2. InOrder(b)
    BY <1>3 DEF InOrder, Spent, Slots
  <2> QED
    BY <1>1, <2>1, <2>2
<1>18. ASSUME NEW l \in Lines, Sealed(l) PROVE PairingInOrder'
  <2> DEFINE f == Head(ag[l].sends)
             a == [ag[l] EXCEPT !.sends = Tail(@)]
  <2>1. NoEvent(l, f, a) \/ Answers(l, f, a) \/ Passes(l, f, a) \/ (f.t = "drop" /\ Dropped(l, a))
    BY <1>18 DEF Sealed
  <2>2. ag[l].sends # <<>>
    BY <1>18 DEF Sealed
  <2>3. a \in Slots
    BY <1>3, <2>2, SlotFields, QueueType
  <2>4. InOrder(a)
    BY <1>3 DEF InOrder, Spent, Slots
  <2> HIDE DEF a, f
  <2>5. InOrder(StreamEnds(a, f.x))
    BY <2>3, <2>4 DEF StreamEnds, InOrder, Spent, Slots
  <2>6. ASSUME NEW c \in Slots, c.cur = Nothing, c.slot = a.slot, c.served = a.served, c.gen = a.gen
        PROVE  InOrder(OneShot(c))
    <3>1. c.cur.t = "nothing"
      BY <2>6 DEF Nothing
    <3>2. CASE c.gen = PairingOnly
      <4> DEFINE d == [Abandoned(c) EXCEPT !.sends = Append(@, Frame("closeall"))]
      <4>1. d.slot = c.slot /\ d.served = c.served /\ d.gen = c.gen /\ d.cur = c.cur /\ d.shut
        BY DEF Slots, Abandoned
      <4>2. InOrder(d)
        BY <2>4, <2>6, <3>1, <3>2, <4>1 DEF InOrder, Spent
      <4> QED
        BY <3>2, <4>2 DEF OneShot
    <3>3. CASE c.gen # PairingOnly
      <4>1. InOrder(c)
        BY <2>4, <2>6, <3>1, <3>3 DEF InOrder
      <4> QED
        BY <3>3, <4>1 DEF OneShot
    <3> QED
      BY <3>2, <3>3
  <2>7. InOrder(OneShot([a EXCEPT !.cur = Nothing]))
    <3>1. Nothing \in Frames
      BY FrameFacts DEF Nothing, Frames, Bare
    <3>2. [a EXCEPT !.cur = Nothing] \in Slots
      BY <2>3, <3>1, SlotFields
    <3>3. LET c == [a EXCEPT !.cur = Nothing]
          IN  c.cur = Nothing /\ c.slot = a.slot /\ c.served = a.served /\ c.gen = a.gen
      BY <2>3 DEF Slots
    <3> QED
      BY <2>6, <3>2, <3>3
  <2>8. \E b : ag' = [ag EXCEPT ![l] = b] /\ InOrder(b)
    BY <2>1, <2>4, <2>5, <2>7 DEF NoEvent, Answers, Passes, Dropped
  <2> QED
    BY <1>1, <2>8
<1>19. ASSUME NEW l \in Lines, PairingTTL(l) PROVE PairingInOrder'
  <2> DEFINE b == [ag[l] EXCEPT !.slot = "dead", !.jobs = Append(@, Frame("abandon"))]
  <2>1. ag' = [ag EXCEPT ![l] = b] /\ ag[l].slot = "open"
    BY <1>19 DEF PairingTTL, Dropped
  <2>2. b.slot = "dead" /\ b.cur = ag[l].cur /\ b.served = ag[l].served /\ b.gen = ag[l].gen
    BY <1>3 DEF Slots
  <2>3. InOrder(b)
    BY <1>3, <2>1, <2>2 DEF InOrder, Spent
  <2> QED
    BY <1>1, <2>1, <2>3
<1>20. CASE UNCHANGED vars
  BY <1>2, <1>20 DEF vars
<1> QED
  BY <1>5, <1>6, <1>7, <1>8, <1>9, <1>10, <1>11, <1>12, <1>13, <1>14, <1>15, <1>16, <1>17, <1>18, <1>19, <1>20
     DEF Next, Act, PhoneStep, AgentStep

LEMMA InitRoute == Init => RouteInv
<1> SUFFICES ASSUME Init PROVE RouteInv
  OBVIOUS
<1>1. TypeOK
  BY InitType
<1>2. live = 0 /\ opening = 0 /\ made = 0 /\ takeover = FALSE
  BY DEF Init
<1>3. \A l \in Lines : ph[l] = FreshPhone /\ ag[l] = FreshSlot /\ Unmade(l)
  BY DEF Init, Unmade
<1>4. FreshPhone.phase = "none" /\ FreshSlot.served = 0 /\ FreshSlot.cur.t = "nothing"
  BY DEF FreshPhone, FreshSlot, Nothing
<1>5. LinesInOrder
  BY <1>2, <1>3, <1>4 DEF LinesInOrder
<1>6. PairingInOrder
  BY <1>3, <1>4 DEF PairingInOrder, InOrder
<1>7. OneTry
  BY <1>3, <1>4 DEF OneTry
<1> QED
  BY <1>1, <1>2, <1>5, <1>6, <1>7 DEF RouteInv, RouteInOrder, NoneSilent, NoLineLeaks, TakeoverIsNext

LEMMA RouteHolds == Spec => []RouteInv
<1>1. RouteInv /\ [Next]_vars => RouteInv'
  <2> SUFFICES ASSUME RouteInv, [Next]_vars PROVE RouteInv'
    OBVIOUS
  <2>1. TypeOK'
    BY StepType DEF RouteInv
  <2>2. PairingInOrder'
    BY PairingStep
  <2>3. OneTry'
    BY <2>2 DEF PairingInOrder, InOrder, OneTry
  <2> QED
    BY <2>1, <2>2, <2>3, LinesStep DEF RouteInv, RouteInOrder
<1> QED
  BY <1>1, InitRoute, PTL DEF Spec

(* Whatever is lost or refused, no screen stays silent after a reconnect,  *)
(* lines that are given up are closed, the button's flag never meets an    *)
(* automatic reconnect, and a code is tried once per line.                 *)
THEOREM RouteCorrect == Spec => []RouteInOrder
BY RouteHolds, PTL DEF RouteInv

-----------------------------------------------------------------------------
(* The handlers.                                                           *)

(* A handler starts only where a request is authenticated.                 *)
LEMMA OnlyBegin ==
  ASSUME TypeOK, [Next]_vars
  PROVE  \/ UNCHANGED ran
         \/ \E l \in Lines : LET f == Head(ag[l].jobs)
                                a == [ag[l] EXCEPT !.jobs = Tail(@)]
                            IN  f.x \in AllReqs /\ Begin(l, f, a) /\ Job(l)
<1>1. CASE Act
  BY <1>1, Zenon DEF Act, Ask, KeyMissing, TakeoverNext, Leave, Subscribe, Unsubscribe
<1>2. ASSUME NEW l \in Lines, PhoneStep(l) PROVE UNCHANGED ran
  <2>1. CASE Send(l)
    BY <2>1 DEF Send
  <2>2. CASE Receive(l)
    BY <2>2 DEF Receive, Dead, Opened
  <2> QED
    BY <1>2, <2>1, <2>2 DEF PhoneStep
<1>3. ASSUME NEW l \in Lines, Job(l), ~UNCHANGED ran
      PROVE  LET f == Head(ag[l].jobs)
                 a == [ag[l] EXCEPT !.jobs = Tail(@)]
             IN  f.x \in AllReqs /\ Begin(l, f, a)
  <2> DEFINE f == Head(ag[l].jobs)
             a == [ag[l] EXCEPT !.jobs = Tail(@)]
  <2>1. Pass(l, f, a) \/ Handshake(l, f, a) \/ Fatal(l, f, a) \/ DropStream(l, f, a) \/ Begin(l, f, a)
    BY <1>3 DEF Job
  <2> HIDE DEF f, a
  <2>2. Begin(l, f, a)
    BY <1>3, <2>1 DEF Pass, Handshake, Fatal, DropStream
  <2>3. f.x \in AllReqs
    BY <1>3, <2>2 DEF Begin
  <2> QED
    BY <2>2, <2>3 DEF f, a
<1>4. ASSUME NEW l \in Lines, Arrive(l) \/ Handshaken(l) \/ Done(l) \/ Sealed(l) \/ Break(l)
                               \/ TooLarge(l) \/ PairingTTL(l) \/ \E x \in Subs : Event(l, x)
      PROVE  UNCHANGED ran
  BY <1>4, Zenon DEF Arrive, Handshaken, Done, Sealed, Break, TooLarge, PairingTTL, Event
<1>5. ASSUME NEW l \in Lines, HandshakeTimeout(l) PROVE UNCHANGED ran
  BY <1>5 DEF HandshakeTimeout, Dead
<1>6. ASSUME NEW r \in AllReqs, RequestTimeout(r) PROVE UNCHANGED ran
  BY <1>6 DEF RequestTimeout, Dead
<1>7. CASE LinkDown \/ Revoke \/ PairElsewhere \/ TokenExpires
  BY <1>7 DEF LinkDown, Revoke, PairElsewhere, TokenExpires
<1>8. CASE UNCHANGED vars
  BY <1>8 DEF vars
<1> QED
  BY <1>1, <1>2, <1>3, <1>4, <1>5, <1>6, <1>7, <1>8 DEF Next, AgentStep

(* No handler starts for a line that was accepted under an earlier         *)
(* registration of the phone, revoked or made again.                       *)
THEOREM NoRevivalHolds == Spec => NoRevival
<1> DEFINE Allowed == \A r \in AllReqs : \A l \in ran'[r] \ ran[r] :
                        ag[l].gen = PairingOnly \/ (valid /\ ag[l].gen = gen)
<1>1. TypeOK /\ [Next]_vars => [Allowed]_vars
  <2> SUFFICES ASSUME TypeOK, [Next]_vars, NEW r \in AllReqs, NEW l \in ran'[r] \ ran[r]
               PROVE  ag[l].gen = PairingOnly \/ (valid /\ ag[l].gen = gen)
    OBVIOUS
  <2>1. PICK k \in Lines : LET f == Head(ag[k].jobs)
                               a == [ag[k] EXCEPT !.jobs = Tail(@)]
                           IN  f.x \in AllReqs /\ Begin(k, f, a) /\ Job(k)
    BY OnlyBegin
  <2> DEFINE x == Head(ag[k].jobs).x
  <2>2. x \in AllReqs /\ (ran' = ran \/ (MayRun(k, x) /\ ran' = [ran EXCEPT ![x] = @ \cup {k}]))
    BY <2>1 DEF Begin
  <2> HIDE DEF x
  <2>3. l = k /\ MayRun(k, x)
    BY <2>2 DEF TypeOK
  <2> QED
    BY <2>3 DEF MayRun, LiveReg
<1> QED
  BY <1>1, TypeCorrect, PTL DEF Spec, NoRevival

-----------------------------------------------------------------------------
(* The way of the phone's frames to the handlers.                          *)

\* q2 holds no frame of F that q does not hold, and not more often.
Within(q2, q, F) == (Has(q2, F) => Has(q, F)) /\ (Once(q, F) => Once(q2, F))

LEMMA WithinFacts ==
  ASSUME NEW q \in Seq(Frames), NEW F
  PROVE  /\ Within(q, q, F) /\ Within(<<>>, q, F)
         /\ q # <<>> => Within(Tail(q), q, F)
         /\ \A f \in Frames \ F : Within(Append(q, f), q, F) /\ Within(<<f>>, q, F)
         /\ \A f \in Frames \ F, n \in 0..Len(q) : Within(Append(SubSeq(q, 1, n), f), q, F)
<1>1. Within(q, q, F) /\ Within(<<>>, q, F)
  BY EmptyQueue DEF Within
<1>2. q # <<>> => Within(Tail(q), q, F)
  BY Leaves DEF Within
<1>3. \A f \in Frames \ F : Within(Append(q, f), q, F)
  BY Joins DEF Within
<1>4. ASSUME NEW f \in Frames \ F PROVE Within(<<f>>, q, F)
  <2> DEFINE v == <<f>>
  <2>1. Len(v) = 1 /\ v[1] = f
    OBVIOUS
  <2> HIDE DEF v
  <2>2. ~Has(v, F) /\ Once(v, F)
    BY <2>1 DEF Has, Once
  <2> QED
    BY <2>2 DEF Within, v
<1>5. ASSUME NEW f \in Frames \ F, NEW n \in 0..Len(q) PROVE Within(Append(SubSeq(q, 1, n), f), q, F)
  <2> DEFINE u == SubSeq(q, 1, n)
  <2>1. u \in Seq(Frames) /\ (Has(u, F) => Has(q, F)) /\ (Once(q, F) => Once(u, F))
    BY Beginning
  <2> HIDE DEF u
  <2>2. (Has(Append(u, f), F) <=> Has(u, F)) /\ (Once(u, F) => Once(Append(u, f), F))
    BY <2>1, Joins
  <2> QED
    BY <2>1, <2>2 DEF Within, u
<1> QED
  BY <1>1, <1>2, <1>3, <1>4, <1>5

\* A step brings no frame of F on line l.
Keeps(l, F) == (Carries(l, F)' => Carries(l, F)) /\ (AtMostOne(l, F) => AtMostOne(l, F)')

LEMMA KeepsWithin ==
  ASSUME NEW l \in Lines, NEW F, Within(ph'[l].out, ph[l].out, F), Within(up'[l], up[l], F),
         Within(ag'[l].jobs, ag[l].jobs, F)
  PROVE  Keeps(l, F)
BY DEF Keeps, Carries, AtMostOne, Within

(* What a queue of frames holds of F after frames have joined or left it.  *)
LEMMA HasMore ==
  ASSUME NEW F, NEW q \in Seq(Frames), NEW f \in Frames
  PROVE  Has(Append(q, f), F) <=> (Has(q, F) \/ f \in F)
BY Joins

LEMMA HasLess ==
  ASSUME NEW F, NEW q \in Seq(Frames), q # <<>>
  PROVE  Has(q, F) <=> (Head(q) \in F \/ Has(Tail(q), F))
BY Leaves

LEMMA HasTwo ==
  ASSUME NEW F, NEW q \in Seq(Frames), NEW f \in Frames, NEW g \in Frames
  PROVE  Has(q \o <<f, g>>, F) <=> (Has(q, F) \/ f \in F \/ g \in F)
<1> DEFINE v == <<f, g>>
<1>1. v \in Seq(Frames) /\ Len(v) = 2 /\ v[1] = f /\ v[2] = g
  OBVIOUS
<1> HIDE DEF v
<1>2. Has(v, F) <=> (f \in F \/ g \in F)
  BY <1>1 DEF Has
<1>3. Has(q \o v, F) <=> (Has(q, F) \/ Has(v, F))
  BY <1>1, Behind
<1> QED
  BY <1>2, <1>3 DEF v

LEMMA HasBroken ==
  ASSUME NEW F, NEW q \in Seq(Frames), NEW f \in Frames \ F, NEW n \in 0..Len(q),
         Has(SubSeq(q, 1, n) \o <<f>>, F) \/ Has(SubSeq(q, 1, n) \o <<>>, F)
  PROVE  Has(q, F)
<1> DEFINE u == SubSeq(q, 1, n)
           v == <<f>>
           w == <<>>
<1>1. v \in Seq(Frames) /\ Len(v) = 1 /\ v[1] = f /\ w \in Seq(Frames) /\ Len(w) = 0
  OBVIOUS
<1>2. u \in Seq(Frames) /\ (Has(u, F) => Has(q, F))
  BY Beginning
<1> HIDE DEF u, v, w
<1>3. ~Has(v, F) /\ ~Has(w, F)
  BY <1>1 DEF Has
<1>4. Has(u \o v, F) <=> (Has(u, F) \/ Has(v, F))
  BY <1>1, <1>2, Behind
<1>5. Has(u \o w, F) <=> (Has(u, F) \/ Has(w, F))
  BY <1>1, <1>2, Behind
<1> QED
  BY <1>2, <1>3, <1>4, <1>5 DEF u, v, w

(* Only asking, subscribing, opening a line and leaving a subscription put *)
(* frames on the way, and its end the frames of the end.                   *)
LEMMA PathStep ==
  ASSUME RouteInv, [Next]_vars, NEW m \in Lines, NEW F,
         Frame("init") \notin F,
         \/ Frame("closed") \notin F /\ Frame("abandon") \notin F
         \/ m \notin cut' /\ ~Carries(m, Ending),
         \A r \in AllReqs : Ask(r) /\ live = m => Request(r) \notin F,
         \A s \in Subs : Subscribe(s) /\ live = m => Request(s) \notin F,
         \A s \in Subs : Unsubscribe(s) /\ live = m => Close(s) \notin F,
         Opened(m) => \A x \in Wanted \cup Waiting : Request(x) \notin F
  PROVE  Keeps(m, F)
<1> DEFINE Apart == Frame("closed") \notin F /\ Frame("abandon") \notin F
           Same == ph'[m].out = ph[m].out /\ up'[m] = up[m] /\ ag'[m].jobs = ag[m].jobs
<1>1. ph[m].out \in Seq(Frames) /\ up[m] \in Seq(Frames) /\ ag[m].jobs \in Seq(Frames)
  BY PhoneFields, SlotFields DEF RouteInv, TypeOK
<1>2. /\ Frame("init") \in Frames \ F
      /\ Apart => Frame("closed") \in Frames \ F /\ Frame("abandon") \in Frames \ F
  BY FrameFacts DEF Bare
<1>3. Same => Keeps(m, F)
  BY <1>1, WithinFacts, KeepsWithin
<1>4. ASSUME NEW q \in Seq(Frames)
      PROVE  /\ Within(q, q, F) /\ Within(<<>>, q, F) /\ (q # <<>> => Within(Tail(q), q, F))
             /\ Apart => Within(Append(q, Frame("closed")), q, F) /\ Within(Append(q, Frame("abandon")), q, F)
             /\ Within(<<Frame("init")>>, q, F)
  BY <1>2, WithinFacts
<1>0. ASSUME NEW q \in Seq(Frames), NEW f \in Frames
      PROVE  /\ Has(Append(q, f), F) <=> (Has(q, F) \/ f \in F)
             /\ Once(q, F) /\ (f \notin F \/ ~Has(q, F)) => Once(Append(q, f), F)
  BY Joins
<1>5. ph[m] \in Phones /\ ag[m] \in Slots /\ ph \in [Lines -> Phones] /\ ag \in [Lines -> Slots]
      /\ up \in [Lines -> Seq(Frames)]
  BY DEF RouteInv, TypeOK
<1>6. ASSUME Ensure PROVE Keeps(m, F)
  <2>1. CASE UNCHANGED <<up, ag>> /\ UNCHANGED ph
    BY <1>3, <2>1
  <2>2. CASE ~(UNCHANGED <<up, ag>> /\ UNCHANGED ph)
    <3>1. /\ ph' = [ph EXCEPT ![made + 1].phase = "reply"]
          /\ ag' = [ag EXCEPT ![made + 1].slot = "fresh"]
          /\ up' = [up EXCEPT ![made + 1] = <<Frame("init")>>]
      BY <1>6, <2>2 DEF Ensure
    <3>2. ph'[m].out = ph[m].out /\ ag'[m].jobs = ag[m].jobs /\ up'[m] \in {up[m], <<Frame("init")>>}
      BY <1>5, <3>1
    <3> QED
      BY <1>1, <1>4, <3>2, KeepsWithin
  <2> QED
    BY <2>1, <2>2
<1>7. ASSUME NEW l \in Lines, Closed(l) PROVE Within(up'[m], up[m], F)
  <2>1. up'[m] = up[m] \/ (l = m /\ m \in cut' /\ up'[m] = Append(up[m], Frame("closed")))
    BY <1>5, <1>7 DEF Closed
  <2> QED
    BY <1>1, <1>4, <2>1
<1>8. ASSUME NEW l \in Lines, Dead(l) PROVE Keeps(m, F)
  <2>1. ph'[m].out \in {ph[m].out, <<>>} /\ UNCHANGED ag /\ Closed(l)
    BY <1>5, <1>8 DEF Dead, Phones
  <2> QED
    BY <1>1, <1>4, <1>7, <2>1, KeepsWithin
<1>9. ASSUME NEW r \in AllReqs, Ask(r) PROVE Keeps(m, F)
  <2>1. CASE live # 0
    <3>1. /\ ph' = [ph EXCEPT ![live].out = Append(@, Of("request", r))] /\ UNCHANGED <<up, ag>>
      BY <1>9, <2>1 DEF Ask
    <3>2. ph'[m].out = ph[m].out \/ (live = m /\ ph'[m].out = Append(ph[m].out, Request(r)))
      BY <1>5, <3>1 DEF Phones, Request
    <3>3. Request(r) \in Frames /\ (live = m => Request(r) \notin F)
      BY <1>9, <2>1, FrameFacts DEF Things
    <3>4. Within(ph'[m].out, ph[m].out, F)
      <4>1. CASE ph'[m].out = ph[m].out
        BY <1>1, <1>4, <4>1
      <4>2. CASE live = m /\ ph'[m].out = Append(ph[m].out, Request(r))
        BY <1>1, <3>3, <4>2, WithinFacts
      <4> QED
        BY <3>2, <4>1, <4>2
    <3> QED
      BY <1>1, <1>4, <3>1, <3>4, KeepsWithin
  <2>2. CASE live = 0
    BY <1>6, <1>9, <2>2 DEF Ask
  <2> QED
    BY <2>1, <2>2
<1>10. ASSUME NEW s \in Subs, Subscribe(s) PROVE Keeps(m, F)
  <2>1. CASE live # 0
    <3>1. /\ ph' = [ph EXCEPT ![live].out = Append(@, Of("request", s)),
                              ![live].stops = @ \cup {s}, ![live].subs = @ \cup {s}]
          /\ UNCHANGED <<up, ag>>
      BY <1>10, <2>1 DEF Subscribe
    <3>2. ph'[m].out = ph[m].out \/ (live = m /\ ph'[m].out = Append(ph[m].out, Request(s)))
      BY <1>5, <3>1 DEF Phones, Request
    <3>3. Request(s) \in Frames /\ (live = m => Request(s) \notin F)
      BY <1>10, <2>1, FrameFacts DEF Things
    <3>4. Within(ph'[m].out, ph[m].out, F)
      <4>1. CASE ph'[m].out = ph[m].out
        BY <1>1, <1>4, <4>1
      <4>2. CASE live = m /\ ph'[m].out = Append(ph[m].out, Request(s))
        BY <1>1, <3>3, <4>2, WithinFacts
      <4> QED
        BY <3>2, <4>1, <4>2
    <3> QED
      BY <1>1, <1>4, <3>1, <3>4, KeepsWithin
  <2>2. CASE live = 0
    BY <1>6, <1>10, <2>2 DEF Subscribe
  <2> QED
    BY <2>1, <2>2
<1>11. ASSUME NEW s \in Subs, Unsubscribe(s) PROVE Keeps(m, F)
  <2>1. UNCHANGED <<up, ag>>
    BY <1>11 DEF Unsubscribe, netVars
  <2>2. Close(s) \in Frames /\ (live = m => Close(s) \notin F)
    BY <1>11, FrameFacts DEF Things
  <2>3. CASE live = 0 \/ s \notin ph[live].stops
    BY <1>3, <1>11, <2>1, <2>3 DEF Unsubscribe
  <2>4. CASE ~(live = 0 \/ s \notin ph[live].stops)
    <3> DEFINE q == IF s \in ph[live].subs THEN Append(ph[live].out, Of("close", s)) ELSE ph[live].out
    <3>1. ph' = [ph EXCEPT ![live].stops = @ \ {s}, ![live].subs = @ \ {s}, ![live].out = q]
      BY <1>11, <2>4 DEF Unsubscribe
    <3>2. q = ph[live].out \/ q = Append(ph[live].out, Close(s))
      BY DEF Close
    <3> HIDE DEF q
    <3>3. ph'[m].out = ph[m].out \/ (m = live /\ ph'[m].out = q)
      BY <1>5, <3>1 DEF Phones
    <3>4. CASE ph'[m].out = ph[m].out
      BY <1>3, <2>1, <3>4
    <3>5. CASE m = live /\ ph'[m].out = Append(ph[m].out, Close(s))
      <4>1. Within(ph'[m].out, ph[m].out, F)
        BY <1>1, <2>2, <3>5, WithinFacts
      <4> QED
        BY <1>1, <1>4, <2>1, <4>1, KeepsWithin
    <3> QED
      BY <3>2, <3>3, <3>4, <3>5
  <2> QED
    BY <2>3, <2>4
<1>12. CASE Leave
  <2>1. CASE live # 0
    <3>1. live \in Lines
      BY <2>1, TunnelAssumption DEF RouteInv, TypeOK, Lines
    <3>2. /\ ph' = [ph EXCEPT ![live].phase = "dead", ![live].out = <<>>, ![live].stops = {}]
          /\ Closed(live) /\ UNCHANGED ag
      BY <1>12, <2>1 DEF Leave
    <3>3. ph'[m].out \in {ph[m].out, <<>>}
      BY <1>5, <3>2 DEF Phones
    <3> QED
      BY <1>1, <1>4, <1>7, <3>1, <3>2, <3>3, KeepsWithin
  <2>2. CASE live = 0
    BY <1>3, <1>12, <2>2 DEF Leave
  <2> QED
    BY <2>1, <2>2
<1>13. ASSUME NEW l \in Lines, Send(l) PROVE Keeps(m, F)
  <2>1. /\ ph[l].out # <<>> /\ ph' = [ph EXCEPT ![l].out = Tail(@)]
        /\ up' = IF l \in cut THEN up ELSE [up EXCEPT ![l] = Append(@, Head(ph[l].out))]
        /\ UNCHANGED ag
    BY <1>13 DEF Send
  <2>2. CASE l # m
    BY <1>3, <1>5, <2>1, <2>2
  <2>3. CASE l = m
    <3> DEFINE p == ph[m].out
               f == Head(p)
    <3>1. ph'[m].out = Tail(p) /\ p # <<>> /\ ag'[m].jobs = ag[m].jobs
      BY <1>5, <2>1, <2>3 DEF Phones
    <3>2. f \in Frames
      BY <1>1, <3>1, Leaves
    <3>3. CASE up'[m] = up[m]
      BY <1>1, <1>4, <3>1, <3>3, KeepsWithin
    <3>4. CASE up'[m] = Append(up[m], f)
      <4> HIDE DEF p, f
      <4>1. /\ Has(p, F) <=> (f \in F \/ Has(Tail(p), F))
            /\ Once(p, F) => Once(Tail(p), F) /\ (f \in F => ~Has(Tail(p), F))
        BY <1>1, <3>1, Leaves DEF p, f
      <4>2. /\ Has(up'[m], F) <=> (Has(up[m], F) \/ f \in F)
            /\ Once(up[m], F) /\ (f \notin F \/ ~Has(up[m], F)) => Once(up'[m], F)
        BY <1>0, <1>1, <3>2, <3>4
      <4>3. p = ph[m].out
        BY DEF p
      <4> QED
        BY <3>1, <4>1, <4>2, <4>3 DEF Keeps, Carries, AtMostOne
    <3>5. up'[m] = up[m] \/ up'[m] = Append(up[m], f)
      BY <1>5, <2>1, <2>3
    <3> QED
      BY <3>3, <3>4, <3>5
  <2> QED
    BY <2>2, <2>3
<1>14. ASSUME NEW l \in Lines, Arrive(l) PROVE Keeps(m, F)
  <2>1. UNCHANGED ph /\ up[l] # <<>> /\ up' = [up EXCEPT ![l] = Tail(@)]
    BY <1>14 DEF Arrive
  <2> DEFINE f == Head(up[l])
             b == [ag[l] EXCEPT !.jobs = Append(@, f)]
  <2>2. \/ (ag' = [ag EXCEPT ![l] = Gone(ag[l])] /\ f.t = "closed") \/ ag' = ag \/ ag' = [ag EXCEPT ![l] = b]
    BY <1>5, <1>14 DEF Arrive
  <2>3. CASE l # m
    BY <1>3, <1>5, <2>1, <2>2, <2>3
  <2>4. CASE l = m
    <3>1. up'[m] = Tail(up[m]) /\ up[m] # <<>> /\ ph'[m].out = ph[m].out
      BY <1>5, <2>1, <2>4
    <3>2. Gone(ag[m]).jobs = Append(ag[m].jobs, Frame("abandon")) /\ b.jobs = Append(ag[m].jobs, f)
      BY <1>5, <2>4 DEF Gone, Slots
    <3>3. \/ f.t = "closed" /\ ag'[m].jobs = Append(ag[m].jobs, Frame("abandon"))
          \/ ag'[m].jobs = ag[m].jobs \/ ag'[m].jobs = Append(ag[m].jobs, f)
      BY <1>5, <2>2, <2>4, <3>2
    <3> HIDE DEF b
    <3>4. CASE ag'[m].jobs = ag[m].jobs
      BY <1>1, <1>4, <3>1, <3>4, KeepsWithin
    <3>6. CASE f.t = "closed" /\ ag'[m].jobs = Append(ag[m].jobs, Frame("abandon"))
      <4>1. f = Frame("closed") /\ f = Head(up[m])
        <5>1. f \in Frames
          BY <1>1, <2>4, <3>1, Leaves
        <5> HIDE DEF f
        <5>2. f = Frame("closed")
          BY <3>6, <5>1, FrameFacts DEF Bare
        <5> QED
          BY <2>4, <5>2 DEF f
      <4>2. Has(up[m], Ending)
        BY <1>1, <3>1, <4>1, HasLess DEF Ending
      <4>3. Apart
        BY <4>2 DEF Carries
      <4> QED
        BY <1>1, <1>4, <3>1, <3>6, <4>3, KeepsWithin
    <3>5. CASE ag'[m].jobs = Append(ag[m].jobs, f)
      <4>1. f = Head(up[m]) /\ f \in Frames
        BY <1>1, <2>4, <3>1, Leaves
      <4> HIDE DEF f
      <4>2. /\ Has(up[m], F) <=> (f \in F \/ Has(Tail(up[m]), F))
            /\ Once(up[m], F) => Once(Tail(up[m]), F) /\ (f \in F => ~Has(Tail(up[m]), F))
        BY <1>1, <3>1, <4>1, Leaves
      <4>3. /\ Has(ag'[m].jobs, F) <=> (Has(ag[m].jobs, F) \/ f \in F)
            /\ Once(ag[m].jobs, F) /\ (f \notin F \/ ~Has(ag[m].jobs, F)) => Once(ag'[m].jobs, F)
        BY <1>0, <1>1, <3>5, <4>1
      <4> QED
        BY <3>1, <4>2, <4>3 DEF Keeps, Carries, AtMostOne
    <3> QED
      BY <3>3, <3>4, <3>5, <3>6
  <2> QED
    BY <2>3, <2>4
<1>15. ASSUME NEW l \in Lines, Receive(l) PROVE Keeps(m, F)
  <2>1. CASE Opened(l)
    <3> DEFINE q == Requests(Wanted) \o Requests(Waiting)
    <3>1. /\ ph' = [ph EXCEPT ![l].phase = "open", ![l].stops = Wanted, ![l].subs = Wanted, ![l].out = q]
          /\ UNCHANGED <<up, ag>>
      BY <2>1 DEF Opened, Resubscribed
    <3>2. CASE l = m
      <4>1. Wanted \in SUBSET Things /\ Waiting \in SUBSET Things
        BY DEF Wanted, Waiting, Things
      <4>2. /\ Requests(Wanted) \in Seq(Frames) /\ Requests(Waiting) \in Seq(Frames)
            /\ ~Has(Requests(Wanted), F) /\ ~Has(Requests(Waiting), F)
        BY <2>1, <3>2, <4>1, RequestsSent
      <4>3. ~Has(q, F)
        BY <4>2, Behind
      <4>4. Once(q, F)
        BY <4>3 DEF Has, Once
      <4> HIDE DEF q
      <4>5. Within(q, ph[m].out, F)
        BY <4>3, <4>4 DEF Within
      <4>6. ph'[m].out = q
        BY <1>5, <3>1, <3>2 DEF Phones
      <4> QED
        BY <1>1, <1>4, <3>1, <4>5, <4>6, KeepsWithin
    <3>3. CASE l # m
      <4>1. ph'[m].out = ph[m].out
        BY <1>5, <3>1, <3>3
      <4> QED
        BY <1>3, <3>1, <4>1
    <3> QED
      BY <3>2, <3>3
  <2>2. CASE Dead(l)
    BY <1>8, <2>2
  <2>3. CASE ~Opened(l) /\ ~Dead(l)
    <3> DEFINE f == Head(dn[l])
    <3>1. \/ ph' = [ph EXCEPT ![l].phase = "confirm"] /\ UNCHANGED <<up, ag>>
          \/ Answered(l, f) /\ UNCHANGED <<up, ag>>
          \/ ph' = ph /\ UNCHANGED <<up, ag>>
          \/ ph' = [ph EXCEPT ![l].subs = @ \ {f.x}] /\ UNCHANGED <<up, ag>>
      BY <1>15, <2>3, Zenon DEF Receive
    <3> HIDE DEF f
    <3>2. UNCHANGED <<up, ag>>
      BY <3>1
    <3>3. \/ ph' = [ph EXCEPT ![l].phase = "confirm"] \/ ph' = ph
          \/ ph' = [ph EXCEPT ![l].subs = @ \ {f.x}]
          \/ ph' = [ph EXCEPT ![l].conf = @ \cup {f.x}]
      BY <3>1, Zenon DEF Answered
    <3>4. ph'[m].out = ph[m].out
      <4>1. CASE ph' = [ph EXCEPT ![l].phase = "confirm"]
        BY <1>5, <4>1 DEF Phones
      <4>2. CASE ph' = [ph EXCEPT ![l].subs = @ \ {f.x}]
        BY <1>5, <4>2 DEF Phones
      <4>3. CASE ph' = [ph EXCEPT ![l].conf = @ \cup {f.x}]
        BY <1>5, <4>3 DEF Phones
      <4> QED
        BY <3>3, <4>1, <4>2, <4>3
    <3> QED
      BY <1>3, <3>2, <3>4
  <2> QED
    BY <2>1, <2>2, <2>3
<1>16. ASSUME NEW l \in Lines, HandshakeTimeout(l) PROVE Keeps(m, F)
  BY <1>8, <1>16 DEF HandshakeTimeout
<1>17. ASSUME NEW r \in AllReqs, RequestTimeout(r) PROVE Keeps(m, F)
  BY <1>8, <1>17 DEF RequestTimeout
<1>18. ASSUME NEW l \in Lines, Break(l) PROVE Keeps(m, F)
  <2>1. PICK n \in 0..Len(up[l]) : up' = [up EXCEPT ![l] = Append(SubSeq(@, 1, n), Frame("closed"))]
    BY <1>18 DEF Break
  <2>2. UNCHANGED <<ph, ag>> /\ l \in cut'
    BY <1>18 DEF Break
  <2>3. up'[m] = up[m] \/ (m \in cut' /\ \E k \in 0..Len(up[m]) : up'[m] = Append(SubSeq(up[m], 1, k), Frame("closed")))
    BY <1>5, <2>1, <2>2
  <2>4. Within(up'[m], up[m], F)
    <3>1. CASE up'[m] = up[m]
      BY <1>1, <1>4, <3>1
    <3>2. CASE m \in cut' /\ \E k \in 0..Len(up[m]) : up'[m] = Append(SubSeq(up[m], 1, k), Frame("closed"))
      BY <1>1, <1>2, <3>2, WithinFacts
    <3> QED
      BY <2>3, <3>1, <3>2
  <2> QED
    BY <1>1, <1>4, <2>2, <2>4, KeepsWithin
<1>19. CASE LinkDown
  <2>1. /\ ag' = [l \in Lines |-> IF ag[l].slot = "none" THEN ag[l] ELSE Gone(ag[l])]
        /\ up' = [l \in Lines |-> <<>>] /\ UNCHANGED ph
    BY <1>19 DEF LinkDown
  <2>2. Gone(ag[m]).jobs = Append(ag[m].jobs, Frame("abandon"))
    BY <1>5 DEF Gone, Slots
  <2>3. /\ up'[m] = <<>>
        /\ ag'[m].jobs = ag[m].jobs \/ (m \in cut' /\ ag'[m].jobs = Append(ag[m].jobs, Frame("abandon")))
    BY <1>19, <2>1, <2>2 DEF LinkDown
  <2> QED
    BY <1>1, <1>4, <2>1, <2>3, KeepsWithin
<1>20. ASSUME NEW l \in Lines, NEW b, Dropped(l, b), UNCHANGED ph,
              Within(b.jobs, ag[l].jobs, F)
       PROVE  Keeps(m, F)
  <2>1. up'[m] = up[m] \/ (m \in cut' /\ up'[m] = Append(up[m], Frame("closed")))
    <3>1. UNCHANGED up \/ up' = [up EXCEPT ![l] = Append(@, Frame("closed"))]
      BY <1>20 DEF Dropped
    <3>2. l \in cut'
      BY <1>20 DEF Dropped
    <3> QED
      BY <1>5, <3>1, <3>2
  <2>2. ag'[m].jobs = ag[m].jobs \/ (l = m /\ m \in cut' /\ ag'[m].jobs = b.jobs)
    BY <1>5, <1>20 DEF Dropped
  <2> QED
    BY <1>1, <1>4, <1>20, <2>1, <2>2, KeepsWithin
<1>21. ASSUME NEW l \in Lines, NEW b, ag' = [ag EXCEPT ![l] = b], UNCHANGED <<ph, up>>,
              Within(b.jobs, ag[l].jobs, F)
       PROVE  Keeps(m, F)
  <2>1. ag'[m].jobs = ag[m].jobs \/ (l = m /\ ag'[m].jobs = b.jobs)
    BY <1>5, <1>21
  <2> QED
    BY <1>1, <1>4, <1>21, <2>1, KeepsWithin
<1>22. ASSUME NEW l \in Lines, Job(l) PROVE Keeps(m, F)
  <2> DEFINE f == Head(ag[l].jobs)
             a == [ag[l] EXCEPT !.jobs = Tail(@)]
  <2>1. /\ ag[l].jobs # <<>> /\ UNCHANGED ph
        /\ Pass(l, f, a) \/ Handshake(l, f, a) \/ Fatal(l, f, a) \/ DropStream(l, f, a) \/ Begin(l, f, a)
    BY <1>22 DEF Job
  <2>2. a \in Slots /\ a.jobs = Tail(ag[l].jobs) /\ ag[l].jobs \in Seq(Frames)
    <3>1. ag[l] \in Slots /\ ag[l].jobs \in Seq(Frames)
      BY <1>5, SlotFields
    <3>2. Tail(ag[l].jobs) \in Seq(Frames)
      BY <2>1, <3>1, QueueType
    <3> QED
      BY <3>1, <3>2 DEF Slots
  <2>3. Within(a.jobs, ag[l].jobs, F)
    BY <1>4, <2>1, <2>2
  <2> HIDE DEF a, f
  <2>4. \E b : /\ b.jobs = a.jobs
               /\ Dropped(l, b) \/ (ag' = [ag EXCEPT ![l] = b] /\ UNCHANGED <<ph, up>>)
    <3>1. Abandoned(a).jobs = a.jobs
      BY <2>2 DEF Abandoned, Slots
    <3>2. CASE Pass(l, f, a)
      BY <2>1, <3>1, <3>2 DEF Pass, netVars
    <3>3. CASE Handshake(l, f, a)
      <4>1. [a EXCEPT !.cur = f, !.gen = Accepted].jobs = a.jobs /\ [a EXCEPT !.slot = "dead"].jobs = a.jobs
        BY <2>2 DEF Slots
      <4> QED
        BY <2>1, <3>3, <4>1 DEF Handshake, netVars
    <3>4. CASE Fatal(l, f, a)
      <4>1. [a EXCEPT !.slot = "dead", !.sends = @ \o <<Frame("closeall"), Frame("drop")>>].jobs = a.jobs
        BY <2>2 DEF Slots
      <4> QED
        BY <2>1, <3>4, <4>1 DEF Fatal, netVars
    <3>5. CASE DropStream(l, f, a)
      <4>1. [a EXCEPT !.streams = @ \ {f.x}].jobs = a.jobs
        BY <2>2 DEF Slots
      <4> QED
        BY <2>1, <3>5, <4>1 DEF DropStream, netVars
    <3>6. CASE Begin(l, f, a)
      <4> DEFINE n == IF a.gen = PairingOnly THEN a.served + 1 ELSE a.served
                 b == [a EXCEPT !.cur = Reply(f.x, MayRun(l, f.x)), !.served = n]
      <4>1. ag' = [ag EXCEPT ![l] = b] /\ UNCHANGED netVars
        BY <3>6 DEF Begin
      <4> HIDE DEF n
      <4>2. b.jobs = a.jobs
        BY <2>2 DEF Slots
      <4> QED
        BY <2>1, <4>1, <4>2 DEF netVars
    <3> QED
      BY <2>1, <3>2, <3>3, <3>4, <3>5, <3>6
  <2> QED
    BY <1>20, <1>21, <2>1, <2>3, <2>4
<1>23. ASSUME NEW l \in Lines, Sealed(l) PROVE Keeps(m, F)
  <2> DEFINE f == Head(ag[l].sends)
             a == [ag[l] EXCEPT !.sends = Tail(@)]
  <2>1. /\ ag[l].sends # <<>> /\ UNCHANGED ph
        /\ NoEvent(l, f, a) \/ Answers(l, f, a) \/ Passes(l, f, a) \/ (f.t = "drop" /\ Dropped(l, a))
    BY <1>23 DEF Sealed
  <2>2. a \in Slots /\ a.jobs = ag[l].jobs /\ ag[l].jobs \in Seq(Frames)
    <3>1. ag[l] \in Slots /\ ag[l].jobs \in Seq(Frames) /\ ag[l].sends \in Seq(Frames)
      BY <1>5, SlotFields
    <3>2. Tail(ag[l].sends) \in Seq(Frames)
      BY <2>1, <3>1, QueueType
    <3> QED
      BY <3>1, <3>2 DEF Slots
  <2>3. Within(a.jobs, ag[l].jobs, F)
    BY <1>4, <2>2
  <2> HIDE DEF a, f
  <2>4. StreamEnds(a, f.x).jobs = a.jobs
    BY <2>2 DEF StreamEnds, Slots
  <2>5. OneShot([a EXCEPT !.cur = Nothing]).jobs = a.jobs
    BY <2>2 DEF OneShot, Abandoned, Slots
  <2>6. \E b : /\ b.jobs = a.jobs
               /\ Dropped(l, b) \/ (ag' = [ag EXCEPT ![l] = b] /\ UNCHANGED <<ph, up>>)
    BY <2>1, <2>4, <2>5 DEF NoEvent, Answers, Passes, GoesOut, netVars
  <2> QED
    BY <1>20, <1>21, <2>1, <2>3, <2>6
<1>24. ASSUME NEW l \in Lines, PairingTTL(l) PROVE Keeps(m, F)
  <2> DEFINE b == [ag[l] EXCEPT !.slot = "dead", !.jobs = Append(@, Frame("abandon"))]
  <2>1. Dropped(l, b) /\ UNCHANGED ph
    BY <1>24 DEF PairingTTL
  <2>2. b.jobs = Append(ag[l].jobs, Frame("abandon")) /\ ag[l].jobs \in Seq(Frames)
    BY <1>5 DEF Slots
  <2> HIDE DEF b
  <2>3. CASE Apart
    BY <1>4, <1>20, <2>1, <2>2, <2>3
  <2>4. CASE ~Apart
    <3>1. l \in cut'
      BY <2>1 DEF Dropped
    <3>2. l # m
      BY <2>4, <3>1
    <3>3. ag'[m] = ag[m] /\ up'[m] = up[m]
      BY <1>5, <2>1, <3>2 DEF Dropped
    <3> QED
      BY <1>3, <2>1, <3>3
  <2> QED
    BY <2>3, <2>4
<1>25. ASSUME NEW l \in Lines, Handshaken(l) \/ Done(l) \/ TooLarge(l) \/ \E x \in Subs : Event(l, x)
       PROVE  Keeps(m, F)
  <2>1. UNCHANGED <<ph, up>>
    BY <1>25, Zenon DEF Handshaken, Done, TooLarge, Event, netVars
  <2>2. ag'[m].jobs = ag[m].jobs
    <3>1. CASE Handshaken(l)
      BY <1>5, <3>1 DEF Handshaken, Slots
    <3>2. CASE Done(l)
      BY <1>5, <3>2 DEF Done, Slots
    <3>3. CASE TooLarge(l)
      BY <1>5, <3>3 DEF TooLarge, Abandoned, Slots
    <3>4. CASE \E x \in Subs : Event(l, x)
      BY <1>5, <3>4 DEF Event, Slots
    <3> QED
      BY <1>25, <3>1, <3>2, <3>3, <3>4
  <2> QED
    BY <1>3, <2>1, <2>2
<1>26. CASE (\E r \in AllReqs : KeyMissing(r)) \/ TakeoverNext \/ Revoke \/ PairElsewhere \/ TokenExpires
  BY <1>3, <1>26 DEF KeyMissing, TakeoverNext, Revoke, PairElsewhere, TokenExpires, netVars
<1>27. CASE UNCHANGED vars
  BY <1>3, <1>27 DEF vars, netVars
<1> QED
  BY <1>9, <1>10, <1>11, <1>12, <1>13, <1>14, <1>15, <1>16, <1>17, <1>18, <1>19, <1>22, <1>23, <1>24, <1>25,
     <1>26, <1>27 DEF Next, Act, PhoneStep, AgentStep

(* A request is asked for on another line only while no frame asks for it. *)
LEMMA AskStep ==
  ASSUME TypeOK, [Next]_vars, NEW r \in AllReqs
  PROVE  \/ on'[r] = on[r] /\ (req'[r] \in {"idle", "waiting"} => req[r] \in {"idle", "waiting"})
         \/ Ask(r) /\ live # 0
         \/ \E l \in Lines : Opened(l) /\ r \in Waiting
<1> DEFINE Goal == \/ on'[r] = on[r] /\ (req'[r] \in {"idle", "waiting"} => req[r] \in {"idle", "waiting"})
                   \/ Ask(r) /\ live # 0
                   \/ \E l \in Lines : Opened(l) /\ r \in Waiting
<1> USE DEF TypeOK
<1>1. ASSUME UNCHANGED <<req, on>> PROVE Goal
  BY <1>1
<1>2. ASSUME NEW l \in Lines, Dead(l) PROVE Goal
  BY <1>2 DEF Dead, Ended
<1>3. ASSUME NEW q \in AllReqs, Ask(q) PROVE Goal
  <2>1. CASE q = r
    <3>1. CASE live = 0
      BY <1>3, <2>1, <3>1 DEF Ask
    <3> QED
      BY <1>3, <2>1, <3>1
  <2>2. CASE q # r
    BY <1>3, <2>2 DEF Ask
  <2> QED
    BY <2>1, <2>2
<1>4. ASSUME NEW q \in AllReqs, KeyMissing(q) PROVE Goal
  BY <1>4 DEF KeyMissing
<1>5. CASE Leave
  BY <1>5 DEF Leave
<1>6. ASSUME NEW l \in Lines, Receive(l) PROVE Goal
  <2>1. CASE Opened(l)
    <3>1. CASE r \in Waiting
      BY <2>1, <3>1
    <3>2. CASE r \notin Waiting
      BY <2>1, <3>2 DEF Opened
    <3> QED
      BY <3>1, <3>2
  <2>2. CASE Dead(l)
    BY <1>2, <2>2
  <2>3. CASE ~Opened(l) /\ ~Dead(l)
    <3> DEFINE f == Head(dn[l])
    <3>1. \/ UNCHANGED <<req, on>>
          \/ Answered(l, f) /\ UNCHANGED on
          \/ UNCHANGED on /\ req' = [q \in AllReqs |-> IF q = f.x /\ req[q] = "sent" THEN "failed" ELSE req[q]]
      BY <1>6, <2>3, Zenon DEF Receive, askVars
    <3> HIDE DEF f
    <3>2. CASE Answered(l, f) /\ UNCHANGED on
      <4>1. CASE f.x \in ph[l].subs
        BY <3>2, <4>1 DEF Answered
      <4>2. CASE f.x \notin ph[l].subs
        BY <3>2, <4>2 DEF Answered
      <4> QED
        BY <4>1, <4>2
    <3> QED
      BY <3>1, <3>2
  <2> QED
    BY <2>1, <2>2, <2>3
<1>7. ASSUME NEW l \in Lines, HandshakeTimeout(l) PROVE Goal
  BY <1>2, <1>7 DEF HandshakeTimeout
<1>8. ASSUME NEW q \in AllReqs, RequestTimeout(q) PROVE Goal
  BY <1>2, <1>8 DEF RequestTimeout
<1>9. CASE TakeoverNext \/ LinkDown \/ Revoke \/ PairElsewhere \/ TokenExpires
           \/ \E s \in Subs : Subscribe(s) \/ Unsubscribe(s)
  BY <1>1, <1>9 DEF TakeoverNext, LinkDown, Revoke, PairElsewhere, TokenExpires, Subscribe, Unsubscribe, askVars
<1>10. ASSUME NEW l \in Lines, Send(l) \/ Break(l) PROVE Goal
  BY <1>1, <1>10 DEF Send, Break, askVars
<1>11. ASSUME NEW l \in Lines,
              \/ Arrive(l) \/ Job(l) \/ Handshaken(l) \/ Done(l) \/ Sealed(l) \/ TooLarge(l)
              \/ PairingTTL(l) \/ \E x \in Subs : Event(l, x)
       PROVE  Goal
  BY <1>1, <1>11, AgentLine DEF askVars
<1>12. CASE UNCHANGED vars
  BY <1>1, <1>12 DEF vars, askVars
<1> QED
  BY <1>3, <1>4, <1>5, <1>6, <1>7, <1>8, <1>9, <1>10, <1>11, <1>12 DEF Next, Act, PhoneStep, AgentStep

(* A request goes out once, and its handler is started from that.          *)
LEMMA CopyStep ==
  ASSUME RouteInv, OneCopy, [Next]_vars
  PROVE  OneCopy'
<1> SUFFICES ASSUME NEW r \in AllReqs PROVE CopyOf(r)'
  BY DEF OneCopy
<1> DEFINE F == {Request(r)}
<1>1. CopyOf(r) /\ TypeOK
  BY DEF OneCopy, RouteInv
<1>2. \A m \in Lines : ph[m].out \in Seq(Frames) /\ up[m] \in Seq(Frames) /\ ag[m].jobs \in Seq(Frames)
  BY <1>1, PhoneFields, SlotFields DEF TypeOK
<1>3. Request(r) \in Frames
  BY FrameFacts DEF Things
<1>4. CASE Ask(r) /\ live # 0
  <2>1. /\ live \in Lines /\ UNCHANGED <<up, ag, ran>>
        /\ ph' = [ph EXCEPT ![live].out = Append(@, Request(r))]
        /\ req'[r] = "sent" /\ on'[r] = live
    BY <1>1, <1>4, TunnelAssumption DEF Ask, TypeOK, Lines, Request
  <2>2. /\ ran[r] = {} /\ \A m \in Lines : ~Carries(m, F) /\ AtMostOne(m, F)
    BY <1>1, <1>4 DEF Ask, CopyOf
  <2>3. \A m \in Lines \ {live} : ph'[m] = ph[m]
    BY <2>1
  <2>4. ph'[live].out = Append(ph[live].out, Request(r))
    BY <1>1, <2>1 DEF TypeOK, Phones
  <2>5. Once(ph'[live].out, F)
    <3> DEFINE q == ph[live].out
    <3>1. q \in Seq(Frames) /\ Once(q, F) /\ ~Has(q, F)
      BY <1>2, <2>1, <2>2 DEF Carries, AtMostOne
    <3> HIDE DEF q, F
    <3>2. Once(Append(q, Request(r)), F)
      BY <1>3, <3>1, Joins
    <3> QED
      BY <2>4, <3>2 DEF q
  <2>6. ASSUME NEW m \in Lines PROVE AtMostOne(m, F)' /\ (Carries(m, F)' => m = live)
    <3>1. CASE m = live
      BY <2>1, <2>2, <2>5, <3>1 DEF Carries, AtMostOne
    <3>2. CASE m # live
      BY <2>1, <2>2, <2>3, <3>2 DEF Carries, AtMostOne
    <3> QED
      BY <3>1, <3>2
  <2> QED
    BY <2>1, <2>2, <2>6 DEF CopyOf
<1>5. CASE \E l \in Lines : Opened(l) /\ r \in Waiting
  <2>1. PICK l \in Lines : Opened(l) /\ r \in Waiting
    BY <1>5
  <2> DEFINE q == Requests(Wanted) \o Requests(Waiting)
  <2>2. /\ UNCHANGED <<up, ag, ran>> /\ req'[r] = "sent" /\ on'[r] = l
        /\ ph' = [ph EXCEPT ![l].phase = "open", ![l].stops = Wanted, ![l].subs = Wanted, ![l].out = q]
    BY <1>1, <2>1 DEF Opened, Resubscribed, TypeOK
  <2>3. /\ ran[r] = {} /\ \A m \in Lines : ~Carries(m, F) /\ AtMostOne(m, F)
    BY <1>1, <2>1 DEF Waiting, CopyOf
  <2>4. Once(q, F)
    <3>1. Wanted \in SUBSET Things /\ Waiting \in SUBSET Things /\ r \notin Wanted
      BY TunnelAssumption DEF Wanted, Waiting, Things
    <3>2. \A x \in Wanted : Request(x) # Request(r)
      BY <3>1 DEF Request, Of
    <3>3. ~Has(Requests(Wanted), F)
      BY <3>1, <3>2, RequestsSent
    <3>4. Once(Requests(Wanted), F) /\ Once(Requests(Waiting), F)
      BY <3>1, RequestsSent
    <3>5. Requests(Wanted) \in Seq(Frames) /\ Requests(Waiting) \in Seq(Frames)
      BY <3>1, RequestsSent
    <3> QED
      BY <3>3, <3>4, <3>5, Behind
  <2> HIDE DEF q
  <2>5. ph'[l].out = q /\ \A m \in Lines \ {l} : ph'[m] = ph[m]
    BY <1>1, <2>2 DEF TypeOK, Phones
  <2>6. ASSUME NEW m \in Lines PROVE AtMostOne(m, F)' /\ (Carries(m, F)' => m = l)
    <3>1. CASE m = l
      BY <2>2, <2>3, <2>4, <2>5, <3>1 DEF Carries, AtMostOne
    <3>2. CASE m # l
      BY <2>2, <2>3, <2>5, <3>2 DEF Carries, AtMostOne
    <3> QED
      BY <3>1, <3>2
  <2> QED
    BY <2>2, <2>3, <2>6 DEF CopyOf
<1>6. CASE ~(Ask(r) /\ live # 0) /\ ~(\E l \in Lines : Opened(l) /\ r \in Waiting)
  <2>1. on'[r] = on[r] /\ (req'[r] \in {"idle", "waiting"} => req[r] \in {"idle", "waiting"})
    BY <1>1, <1>6, AskStep
  <2>2. ASSUME NEW m \in Lines PROVE Keeps(m, F)
    <3>1. Frame("init") \notin F /\ Frame("closed") \notin F /\ Frame("abandon") \notin F
      BY DEF Frame, Request, Of
    <3>2. \A x : x # r => Request(x) \notin F /\ Close(x) \notin F
      BY DEF Request, Close, Of
    <3>3. \A s \in Subs : s # r
      BY TunnelAssumption
    <3>4. \A l \in Lines : Opened(l) => \A x \in Wanted \cup Waiting : x # r
      BY <1>6, <3>3 DEF Wanted
    <3>5. \A q \in AllReqs : Ask(q) /\ live = m => q # r
      <4>1. m # 0
        BY DEF Lines
      <4> QED
        BY <1>6, <4>1
    <3>6. /\ \A q \in AllReqs : Ask(q) /\ live = m => Request(q) \notin F
          /\ \A s \in Subs : Request(s) \notin F /\ Close(s) \notin F
          /\ Opened(m) => \A x \in Wanted \cup Waiting : Request(x) \notin F
      BY <3>2, <3>3, <3>4, <3>5
    <3> HIDE DEF F
    <3> QED
      BY <3>1, <3>6, PathStep
  <2>3. CASE ran'[r] = ran[r]
    BY <1>1, <2>1, <2>2, <2>3 DEF CopyOf, Keeps
  <2>4. CASE ran'[r] # ran[r]
    <3>1. PICK k \in Lines : LET f == Head(ag[k].jobs)
                                 a == [ag[k] EXCEPT !.jobs = Tail(@)]
                             IN  f.x \in AllReqs /\ Begin(k, f, a) /\ Job(k)
      BY <1>1, <2>4, OnlyBegin
    <3> DEFINE f == Head(ag[k].jobs)
               a == [ag[k] EXCEPT !.jobs = Tail(@)]
    <3>2. f.x \in AllReqs /\ f.t = "request" /\ ran' \in {ran, [ran EXCEPT ![f.x] = @ \cup {k}]}
      BY <3>1 DEF Begin
    <3>3. f.x = r /\ ran'[r] = ran[r] \cup {k}
      BY <1>1, <2>4, <3>2 DEF TypeOK
    <3>4. ag[k].jobs # <<>> /\ UNCHANGED <<ph, up>>
      BY <3>1 DEF Job, Begin, netVars
    <3>5. f \in F
      <4>1. f \in Frames
        BY <1>2, <3>4, Leaves
      <4> HIDE DEF f
      <4> QED
        BY <3>2, <3>3, <4>1, FrameFacts DEF Request
    <3>6. Has(ag[k].jobs, F) /\ ~Has(Tail(ag[k].jobs), F)
      <4> DEFINE j == ag[k].jobs
      <4>1. j \in Seq(Frames) /\ j # <<>> /\ Once(j, F) /\ Head(j) \in F
        BY <1>1, <1>2, <3>4, <3>5 DEF CopyOf, AtMostOne
      <4> HIDE DEF j, F
      <4>2. /\ Has(j, F) <=> (Head(j) \in F \/ Has(Tail(j), F))
            /\ Once(j, F) => (Head(j) \in F => ~Has(Tail(j), F))
        BY <4>1, Leaves
      <4>3. Has(j, F) /\ ~Has(Tail(j), F)
        BY <4>1, <4>2
      <4> QED
        BY <4>3 DEF j
    <3>7. on[r] = k /\ ran[r] = {} /\ ~Has(ph[k].out, F) /\ ~Has(up[k], F)
      BY <1>1, <3>6 DEF CopyOf, AtMostOne, Carries
    <3>8. ag'[k].jobs = Tail(ag[k].jobs)
      <4>1. a \in Slots /\ a.jobs = Tail(ag[k].jobs)
        <5>1. ag[k] \in Slots /\ Tail(ag[k].jobs) \in Seq(Frames)
          BY <1>1, <1>2, <3>4, QueueType DEF TypeOK
        <5> QED
          BY <5>1 DEF Slots
      <4> DEFINE n == IF a.gen = PairingOnly THEN a.served + 1 ELSE a.served
                 b == [a EXCEPT !.cur = Reply(f.x, MayRun(k, f.x)), !.served = n]
      <4>2. ag' = [ag EXCEPT ![k] = b]
        BY <3>1 DEF Begin
      <4> HIDE DEF n, a
      <4>3. b.jobs = a.jobs
        BY <4>1 DEF Slots
      <4> QED
        BY <1>1, <4>1, <4>2, <4>3 DEF TypeOK
    <3>9. \A m \in Lines : ~Carries(m, F)'
      <4> SUFFICES ASSUME NEW m \in Lines, Carries(m, F)' PROVE FALSE
        OBVIOUS
      <4>1. Carries(m, F)
        BY <2>2 DEF Keeps
      <4>2. m = k
        BY <1>1, <3>7, <4>1 DEF CopyOf
      <4> QED
        BY <3>4, <3>6, <3>7, <3>8, <4>2 DEF Carries
    <3>10. req'[r] \notin {"idle", "waiting"}
      BY <1>1, <2>1, <3>6 DEF CopyOf, Carries
    <3> QED
      BY <1>1, <2>1, <2>2, <3>3, <3>7, <3>9, <3>10 DEF CopyOf, Keeps
  <2> QED
    BY <2>3, <2>4
<1> QED
  BY <1>4, <1>5, <1>6

(* A good answer starts its way where a request is authenticated.          *)
LEMMA BackStep ==
  ASSUME RouteInv, [Next]_vars, NEW m \in Lines, NEW x \in Things,
         Returns(m, Reply(x, TRUE))', ~Returns(m, Reply(x, TRUE))
  PROVE  LET f == Head(ag[m].jobs)
             a == [ag[m] EXCEPT !.jobs = Tail(@)]
         IN  f.x = x /\ Begin(m, f, a) /\ Job(m) /\ MayRun(m, x)
<1> DEFINE F == {Reply(x, TRUE)}
           Goal == LET f == Head(ag[m].jobs)
                       a == [ag[m] EXCEPT !.jobs = Tail(@)]
                   IN  f.x = x /\ Begin(m, f, a) /\ Job(m) /\ MayRun(m, x)
<1>1. /\ ph \in [Lines -> Phones] /\ ag \in [Lines -> Slots] /\ up \in [Lines -> Seq(Frames)]
      /\ dn \in [Lines -> Seq(Frames)] /\ ag[m] \in Slots /\ dn[m] \in Seq(Frames)
      /\ ag[m].sends \in Seq(Frames)
  BY SlotFields DEF RouteInv, TypeOK
<1>2. Reply(x, TRUE) \in Frames /\ \A t : Frame(t) \notin F /\ \A y : Of(t, y) \notin F
  BY FrameFacts DEF Reply, Frame, Of
<1>3. ~Has(dn[m], F) /\ ~Has(ag[m].sends, F) /\ ag[m].cur \notin F
  BY DEF Returns
<1>4. Has(dn'[m], F) \/ Has(ag'[m].sends, F) \/ ag'[m].cur \in F
  BY DEF Returns
<1>5. Frame("end") \in Frames \ F /\ Frame("reply") \in Frames \ F /\ Frame("confirm") \in Frames \ F
       /\ Frame("closeall") \in Frames \ F /\ Frame("drop") \in Frames \ F /\ Nothing \notin F
       /\ Frame("sending") \notin F
  BY <1>2, FrameFacts DEF Bare, Nothing, Frame
<1> HIDE DEF F
<1>6. ASSUME UNCHANGED <<ag, dn>> PROVE Goal
  BY <1>3, <1>4, <1>6
<1>7. ASSUME Ensure, UNCHANGED dn PROVE Goal
  <2>1. UNCHANGED ag \/ ag' = [ag EXCEPT ![made + 1].slot = "fresh"]
    BY <1>7 DEF Ensure
  <2>2. ag'[m].cur = ag[m].cur /\ ag'[m].sends = ag[m].sends
    <3>1. CASE ag' = [ag EXCEPT ![made + 1].slot = "fresh"] /\ m = made + 1
      BY <1>1, <3>1 DEF Slots
    <3>2. CASE ag' = [ag EXCEPT ![made + 1].slot = "fresh"] /\ m # made + 1
      BY <1>1, <3>2
    <3> QED
      BY <2>1, <3>1, <3>2
  <2> QED
    BY <1>3, <1>4, <1>7, <2>2
<1>8. ASSUME NEW r \in AllReqs, Ask(r) PROVE Goal
  BY <1>6, <1>7, <1>8 DEF Ask
<1>9. ASSUME NEW s \in Subs, Subscribe(s) PROVE Goal
  BY <1>6, <1>7, <1>9 DEF Subscribe
<1>10. CASE TakeoverNext \/ Leave \/ Revoke \/ PairElsewhere \/ TokenExpires
            \/ (\E r \in AllReqs : KeyMissing(r)) \/ \E s \in Subs : Unsubscribe(s)
  BY <1>6, <1>10 DEF TakeoverNext, Leave, Revoke, PairElsewhere, TokenExpires, KeyMissing, Unsubscribe, netVars
<1>11. CASE (\E l \in Lines : HandshakeTimeout(l)) \/ \E r \in AllReqs : RequestTimeout(r)
  BY <1>6, <1>11 DEF HandshakeTimeout, RequestTimeout, Dead
<1>12. ASSUME NEW l \in Lines, Send(l) PROVE Goal
  BY <1>6, <1>12 DEF Send
<1>13. ASSUME NEW l \in Lines, Receive(l) PROVE Goal
  <2>1. UNCHANGED ag /\ dn[l] # <<>>
    BY <1>13, ReceiveRoute DEF Receive
  <2>2. UNCHANGED dn \/ dn' = [dn EXCEPT ![l] = Tail(@)]
    BY <1>13, Zenon DEF Receive, Dead
  <2>3. dn'[m] = dn[m] \/ (dn[m] # <<>> /\ dn'[m] = Tail(dn[m]))
    BY <1>1, <2>1, <2>2
  <2>4. ~Has(dn'[m], F)
    <3>1. CASE dn'[m] = dn[m]
      BY <1>3, <3>1
    <3>2. CASE dn[m] # <<>> /\ dn'[m] = Tail(dn[m])
      BY <1>1, <1>3, <3>2, HasLess
    <3> QED
      BY <2>3, <3>1, <3>2
  <2> QED
    BY <1>3, <1>4, <2>1, <2>4
<1>14. ASSUME NEW l \in Lines, Break(l) PROVE Goal
  <2>1. UNCHANGED ag
    BY <1>14 DEF Break
  <2>2. PICK n \in 0..Len(dn[l]), told \in BOOLEAN :
          dn' = [dn EXCEPT ![l] = SubSeq(@, 1, n) \o IF told THEN <<Frame("end")>> ELSE <<>>]
    BY <1>14 DEF Break
  <2>3. \/ dn'[m] = dn[m]
        \/ \E k \in 0..Len(dn[m]) : dn'[m] \in {SubSeq(dn[m], 1, k) \o <<Frame("end")>>, SubSeq(dn[m], 1, k) \o <<>>}
    BY <1>1, <2>2
  <2>4. Frame("end") \in Frames \ F
    BY <1>2, FrameFacts DEF Bare
  <2>5. ~Has(dn'[m], F)
    <3>1. CASE dn'[m] = dn[m]
      BY <1>3, <3>1
    <3>2. CASE dn'[m] # dn[m]
      <4>1. PICK k \in 0..Len(dn[m]) :
              dn'[m] \in {SubSeq(dn[m], 1, k) \o <<Frame("end")>>, SubSeq(dn[m], 1, k) \o <<>>}
        BY <2>3, <3>2
      <4>2. SUFFICES ASSUME Has(dn'[m], F) PROVE FALSE
        OBVIOUS
      <4>3. Has(SubSeq(dn[m], 1, k) \o <<Frame("end")>>, F) \/ Has(SubSeq(dn[m], 1, k) \o <<>>, F)
        BY <4>1, <4>2
      <4>4. Has(dn[m], F)
        BY <1>1, <2>4, <4>3, HasBroken
      <4> QED
        BY <1>3, <4>4
    <3> QED
      BY <3>1, <3>2
  <2> QED
    BY <1>3, <1>4, <2>1, <2>5
<1>15. ~Has(Append(dn[m], Frame("end")), F) /\ ~Has(dn[m] \o <<Frame("reply"), Frame("confirm")>>, F)
  BY <1>1, <1>3, <1>5, HasMore, HasTwo
<1>16. CASE LinkDown
  <2>1. /\ ag'[m] \in {ag[m], Gone(ag[m])} /\ dn'[m] \in {dn[m], Append(dn[m], Frame("end"))}
    BY <1>16 DEF LinkDown
  <2>2. Gone(ag[m]).cur = ag[m].cur /\ Gone(ag[m]).sends = ag[m].sends
    BY <1>1 DEF Gone, Slots
  <2>3. ~Has(dn'[m], F)
    BY <1>3, <1>15, <2>1
  <2> QED
    BY <1>3, <1>4, <1>5, <2>1, <2>2, <2>3
<1>17. ASSUME NEW l \in Lines, Arrive(l) PROVE Goal
  <2> DEFINE b == [ag[l] EXCEPT !.jobs = Append(@, Head(up[l]))]
  <2>1. (\/ ag' = [ag EXCEPT ![l] = Gone(ag[l])] \/ ag' = ag \/ ag' = [ag EXCEPT ![l] = b]) /\ UNCHANGED dn
    BY <1>1, <1>17 DEF Arrive
  <2>2. /\ Gone(ag[l]).cur = ag[l].cur /\ Gone(ag[l]).sends = ag[l].sends
        /\ b.cur = ag[l].cur /\ b.sends = ag[l].sends
    BY <1>1 DEF Gone, Slots
  <2> HIDE DEF b
  <2>3. ag'[m].cur = ag[m].cur /\ ag'[m].sends = ag[m].sends
    BY <1>1, <2>1, <2>2
  <2> QED
    BY <1>3, <1>4, <2>1, <2>3
<1>18. ASSUME NEW l \in Lines, NEW b, ag' = [ag EXCEPT ![l] = b],
              UNCHANGED dn \/ Dropped(l, b),
              Has(b.sends, F) => Has(ag[l].sends, F), b.cur \in F => ag[l].cur \in F
       PROVE  Goal
  <2>1. dn'[m] \in {dn[m], Append(dn[m], Frame("end"))}
    BY <1>1, <1>18 DEF Dropped
  <2>2. /\ Has(ag'[m].sends, F) => Has(ag[m].sends, F)
        /\ ag'[m].cur \in F => ag[m].cur \in F
    BY <1>1, <1>18
  <2>3. ~Has(dn'[m], F)
    BY <1>3, <1>15, <2>1
  <2> QED
    BY <1>3, <1>4, <1>5, <2>1, <2>2, <2>3
<1>19. ASSUME NEW l \in Lines, Job(l) PROVE Goal
  <2> DEFINE f == Head(ag[l].jobs)
             a == [ag[l] EXCEPT !.jobs = Tail(@)]
  <2>1. /\ ag[l].jobs # <<>>
        /\ Pass(l, f, a) \/ Handshake(l, f, a) \/ Fatal(l, f, a) \/ DropStream(l, f, a) \/ Begin(l, f, a)
    BY <1>19 DEF Job
  <2>2. a \in Slots /\ a.cur = ag[l].cur /\ a.sends = ag[l].sends /\ a.sends \in Seq(Frames) /\ f \in Frames
    <3>1. ag[l] \in Slots /\ ag[l].jobs \in Seq(Frames) /\ ag[l].sends \in Seq(Frames)
      BY <1>1, SlotFields
    <3>2. Tail(ag[l].jobs) \in Seq(Frames) /\ f \in Frames
      BY <2>1, <3>1, QueueType
    <3> QED
      BY <3>1, <3>2 DEF Slots
  <2>3. CASE Begin(l, f, a)
    <3> DEFINE g == Reply(f.x, MayRun(l, f.x))
               n == IF a.gen = PairingOnly THEN a.served + 1 ELSE a.served
               b == [a EXCEPT !.cur = g, !.served = n]
    <3>1. ag' = [ag EXCEPT ![l] = b] /\ UNCHANGED dn
      BY <2>3 DEF Begin, netVars
    <3> HIDE DEF g, n, a
    <3>2. b.cur = g /\ b.sends = ag[l].sends
      BY <2>2 DEF Slots
    <3>3. l = m /\ g \in F
      <4> HIDE DEF b
      <4>1. l # m => ag'[m] = ag[m]
        BY <1>1, <3>1
      <4>2. ag'[l] = b
        BY <1>1, <3>1
      <4> QED
        BY <1>3, <1>4, <3>1, <3>2, <4>1, <4>2
    <3>4. f.x = x /\ MayRun(l, f.x)
      <4>1. g = Reply(x, TRUE)
        BY <3>3 DEF F
      <4>2. MayRun(l, f.x) \in BOOLEAN
        BY DEF MayRun
      <4> QED
        BY <4>1, <4>2 DEF g, Reply
    <3> QED
      BY <1>19, <2>3, <3>3, <3>4 DEF a
  <2> HIDE DEF a, f
  <2>4. CASE Pass(l, f, a)
    <3>1. Abandoned(a).cur = a.cur /\ Abandoned(a).sends = a.sends
      BY <2>2 DEF Abandoned, Slots
    <3> QED
      BY <1>18, <2>2, <2>4, <3>1 DEF Pass, netVars
  <2>5. CASE Handshake(l, f, a)
    <3>1. [a EXCEPT !.cur = f, !.gen = Accepted].sends = a.sends /\ [a EXCEPT !.cur = f, !.gen = Accepted].cur = f
          /\ [a EXCEPT !.slot = "dead"].sends = a.sends /\ [a EXCEPT !.slot = "dead"].cur = a.cur
      BY <2>2 DEF Slots
    <3>2. f.t = "init" => f \notin F
      BY DEF F, Reply
    <3>3. CASE f.t = "init" /\ Accepted # 0
      <4> DEFINE b == [a EXCEPT !.cur = f, !.gen = Accepted]
      <4>1. ag' = [ag EXCEPT ![l] = b] /\ UNCHANGED dn /\ b.sends = a.sends /\ b.cur = f
        BY <2>5, <3>1, <3>3 DEF Handshake, netVars
      <4> HIDE DEF b
      <4> QED
        BY <1>18, <2>2, <3>2, <3>3, <4>1
    <3>4. CASE ~(f.t = "init" /\ Accepted # 0)
      <4> DEFINE b == [a EXCEPT !.slot = "dead"]
      <4>1. Dropped(l, b) /\ ag' = [ag EXCEPT ![l] = b] /\ b.sends = a.sends /\ b.cur = a.cur
        BY <2>5, <3>1, <3>4 DEF Handshake, Dropped
      <4> HIDE DEF b
      <4> QED
        BY <1>18, <2>2, <4>1
    <3> QED
      BY <3>3, <3>4
  <2>6. CASE Fatal(l, f, a)
    <3> DEFINE q == a.sends \o <<Frame("closeall"), Frame("drop")>>
               b == [a EXCEPT !.slot = "dead", !.sends = q]
    <3>1. ag' = [ag EXCEPT ![l] = b] /\ UNCHANGED dn
      BY <2>6 DEF Fatal, netVars
    <3>2. Has(q, F) => Has(a.sends, F)
      BY <1>5, <2>2, HasTwo
    <3> HIDE DEF q
    <3>3. b.sends = q /\ b.cur = a.cur
      BY <2>2 DEF Slots
    <3> HIDE DEF b
    <3> QED
      BY <1>18, <2>2, <3>1, <3>2, <3>3
  <2>7. CASE DropStream(l, f, a)
    <3>1. [a EXCEPT !.streams = @ \ {f.x}].sends = a.sends /\ [a EXCEPT !.streams = @ \ {f.x}].cur = a.cur
      BY <2>2 DEF Slots
    <3> QED
      BY <1>18, <2>2, <2>7, <3>1 DEF DropStream, netVars
  <2> QED
    BY <2>1, <2>3, <2>4, <2>5, <2>6, <2>7
<1>20. ASSUME NEW l \in Lines, Handshaken(l) PROVE Goal
  <2>1. dn'[m] \in {dn[m], dn[m] \o <<Frame("reply"), Frame("confirm")>>}
    BY <1>1, <1>20 DEF Handshaken
  <2>2. ag'[m].sends = ag[m].sends /\ ag'[m].cur \in {ag[m].cur, Nothing}
    BY <1>1, <1>20 DEF Handshaken, Slots
  <2>3. ~Has(dn'[m], F)
    BY <1>3, <1>15, <2>1
  <2> QED
    BY <1>3, <1>4, <1>5, <2>1, <2>2, <2>3
<1>21. ASSUME NEW l \in Lines, Done(l) PROVE Goal
  <2> DEFINE y == ag[l].cur.x
             ok == ag[l].cur.ok /\ (y = Pair => token)
             S == IF ok /\ y \in Subs THEN ag[l].streams \cup {y} ELSE ag[l].streams
             q == Append(ag[l].sends, Reply(y, ok))
             b == [ag[l] EXCEPT !.cur = Frame("sending"), !.streams = S, !.sends = q]
  <2>1. ag' = [ag EXCEPT ![l] = b] /\ UNCHANGED dn /\ ag[l].cur.t = "response"
    BY <1>21 DEF Done, netVars
  <2>2. ag[l] \in Slots /\ ag[l].sends \in Seq(Frames) /\ ag[l].cur \in Frames
    BY <1>1, SlotFields
  <2>3. y \in Things /\ ag[l].cur.ok \in BOOLEAN /\ ag[l].cur = Reply(y, ag[l].cur.ok)
    BY <2>1, <2>2, FrameFacts
  <2>4. ok \in BOOLEAN
    BY <2>3
  <2>5. Reply(y, ok) \in Frames
    BY <2>3, <2>4, FrameFacts
  <2>6. ok => ag[l].cur.ok
    OBVIOUS
  <2> HIDE DEF ok, y
  <2>7. Reply(y, ok) \in F => ag[l].cur \in F
    <3>1. CASE ok
      <4>1. ok = TRUE /\ ag[l].cur.ok = TRUE
        BY <2>3, <2>4, <2>6, <3>1
      <4> QED
        BY <2>3, <4>1
    <3>2. CASE ~ok
      <4>1. ok = FALSE
        BY <2>4, <3>2
      <4> QED
        BY <4>1 DEF F, Reply
    <3> QED
      BY <3>1, <3>2
  <2>8. Has(q, F) <=> (Has(ag[l].sends, F) \/ Reply(y, ok) \in F)
    BY <2>2, <2>5, HasMore
  <2> HIDE DEF q, S
  <2>9. b.cur = Frame("sending") /\ b.sends = q
    BY <2>2 DEF Slots
  <2> HIDE DEF b
  <2>10. CASE l = m
    <3>1. ag'[m] = b
      BY <1>1, <2>1, <2>10
    <3> QED
      BY <1>3, <1>4, <1>5, <2>1, <2>7, <2>8, <2>9, <2>10, <3>1
  <2>11. CASE l # m
    <3>1. ag'[m] = ag[m]
      BY <1>1, <2>1, <2>11
    <3> QED
      BY <1>3, <1>4, <2>1, <3>1
  <2> QED
    BY <2>10, <2>11
<1>22. ASSUME NEW l \in Lines, TooLarge(l) PROVE Goal
  <2> DEFINE q == ag[l].sends \o <<Frame("closeall"), Frame("drop")>>
             b == [Abandoned(ag[l]) EXCEPT !.cur = Nothing, !.slot = "dead", !.sends = q]
  <2>0. ag[l] \in Slots /\ ag[l].sends \in Seq(Frames)
    BY <1>1, SlotFields
  <2>1. ag[l] \in Slots /\ ag[l].sends \in Seq(Frames) /\ Abandoned(ag[l]).sends = ag[l].sends
    BY <2>0 DEF Slots, Abandoned
  <2>2. ag' = [ag EXCEPT ![l] = b] /\ UNCHANGED dn
    BY <1>22, <2>1 DEF TooLarge, netVars
  <2>3. Has(q, F) => Has(ag[l].sends, F)
    BY <1>5, <2>1, HasTwo
  <2> HIDE DEF q
  <2>4. b.sends = q /\ b.cur = Nothing
    BY <2>1 DEF Slots, Abandoned
  <2> HIDE DEF b
  <2> QED
    BY <1>5, <1>18, <2>2, <2>3, <2>4
<1>23. ASSUME NEW l \in Lines, NEW y \in Subs, Event(l, y) PROVE Goal
  <2> DEFINE q == Append(ag[l].sends, Of("event", y))
             b == [ag[l] EXCEPT !.sends = q]
  <2>1. ag' = [ag EXCEPT ![l] = b] /\ UNCHANGED dn
    BY <1>23 DEF Event, netVars
  <2>2. ag[l] \in Slots /\ ag[l].sends \in Seq(Frames) /\ Of("event", y) \in Frames
    BY <1>1, SlotFields, FrameFacts DEF Things
  <2>3. Has(q, F) => Has(ag[l].sends, F)
    BY <1>2, <2>2, HasMore
  <2> HIDE DEF q
  <2>4. b.sends = q /\ b.cur = ag[l].cur
    BY <2>2 DEF Slots
  <2> HIDE DEF b
  <2> QED
    BY <1>18, <2>1, <2>3, <2>4
<1>24. ASSUME NEW l \in Lines, PairingTTL(l) PROVE Goal
  <2> DEFINE b == [ag[l] EXCEPT !.slot = "dead", !.jobs = Append(@, Frame("abandon"))]
  <2>1. Dropped(l, b) /\ ag' = [ag EXCEPT ![l] = b]
    BY <1>24 DEF PairingTTL, Dropped
  <2>2. b.sends = ag[l].sends /\ b.cur = ag[l].cur
    BY <1>1 DEF Slots
  <2> HIDE DEF b
  <2> QED
    BY <1>18, <2>1, <2>2
<1>25. ASSUME NEW l \in Lines, Sealed(l) PROVE Goal
  <2> DEFINE f == Head(ag[l].sends)
             a == [ag[l] EXCEPT !.sends = Tail(@)]
  <2>1. /\ ag[l].sends # <<>>
        /\ NoEvent(l, f, a) \/ Answers(l, f, a) \/ Passes(l, f, a) \/ (f.t = "drop" /\ Dropped(l, a))
    BY <1>25 DEF Sealed
  <2>2. a \in Slots /\ a.cur = ag[l].cur /\ a.sends = Tail(ag[l].sends) /\ a.sends \in Seq(Frames) /\ f \in Frames
    <3>1. ag[l] \in Slots /\ ag[l].sends \in Seq(Frames)
      BY <1>1, SlotFields
    <3>2. Tail(ag[l].sends) \in Seq(Frames) /\ f \in Frames
      BY <2>1, <3>1, QueueType
    <3> QED
      BY <3>1, <3>2 DEF Slots
  <2>3. (Has(a.sends, F) => Has(ag[l].sends, F)) /\ (f \in F => Has(ag[l].sends, F))
    <3>1. ag[l].sends \in Seq(Frames)
      BY <1>1, SlotFields
    <3> QED
      BY <2>1, <2>2, <3>1, HasLess
  <2> HIDE DEF a, f
  <2>4. ASSUME NEW b, ag' = [ag EXCEPT ![l] = b], GoesOut(l, f, a),
               Has(b.sends, F) => Has(a.sends, F), b.cur \in {a.cur, Nothing}
        PROVE  Goal
    <3>1. dn'[m] = dn[m] \/ (l = m /\ dn'[m] = Append(dn[m], f))
      BY <1>1, <2>4 DEF GoesOut
    <3>2. ag'[m] = ag[m] \/ (l = m /\ ag'[m] = b)
      BY <1>1, <2>4
    <3>3. ~Has(dn'[m], F)
      <4>1. CASE dn'[m] = dn[m]
        BY <1>3, <4>1
      <4>2. CASE l = m /\ dn'[m] = Append(dn[m], f)
        <5>1. f \notin F
          BY <1>3, <2>3, <4>2
        <5> QED
          BY <1>1, <1>3, <2>2, <4>2, <5>1, HasMore
      <4> QED
        BY <3>1, <4>1, <4>2
    <3> QED
      BY <1>3, <1>4, <1>5, <2>2, <2>3, <2>4, <3>2, <3>3
  <2>5. CASE NoEvent(l, f, a)
    <3> DEFINE b == StreamEnds(a, f.x)
    <3>1. f.x \in Things
      BY <2>2, <2>5, FrameFacts DEF NoEvent
    <3>2. Of("close", f.x) \in Frames \ F
      BY <1>2, <3>1, FrameFacts DEF Close
    <3>3. b.cur = a.cur /\ b.sends = Append(a.sends, Of("close", f.x))
      BY <2>2 DEF StreamEnds, Slots
    <3> HIDE DEF b
    <3>4. Has(b.sends, F) => Has(a.sends, F)
      <4> DEFINE g == Of("close", f.x)
                 q == a.sends
      <4>1. g \in Frames /\ g \notin F /\ q \in Seq(Frames)
        BY <2>2, <3>2
      <4> HIDE DEF g, q, F
      <4>2. Has(Append(q, g), F) <=> Has(q, F)
        BY <4>1, HasMore
      <4> QED
        BY <3>3, <4>2 DEF g, q
    <3>5. UNCHANGED dn /\ (ag' = [ag EXCEPT ![l] = b] \/ ag' = [ag EXCEPT ![l] = a])
      BY <2>5 DEF NoEvent, netVars, b
    <3> QED
      BY <1>18, <2>2, <2>3, <3>3, <3>4, <3>5
  <2>6. CASE Answers(l, f, a)
    <3> DEFINE c == [a EXCEPT !.cur = Nothing]
               b == OneShot(c)
    <3>1. c.sends = a.sends /\ c.cur = Nothing
      BY <2>2 DEF Slots
    <3>2. b.cur = Nothing /\ b.sends \in {a.sends, Append(a.sends, Frame("closeall"))}
      BY <2>2 DEF Slots, OneShot, Abandoned
    <3>3. ag' = [ag EXCEPT ![l] = b] /\ GoesOut(l, f, a)
      BY <2>6 DEF Answers
    <3> HIDE DEF b
    <3>4. Has(b.sends, F) => Has(a.sends, F)
      <4>1. Has(Append(a.sends, Frame("closeall")), F) => Has(a.sends, F)
        BY <1>5, <2>2, HasMore
      <4> QED
        BY <3>2, <4>1
    <3> QED
      BY <2>4, <3>2, <3>3, <3>4
  <2>7. CASE Passes(l, f, a)
    BY <2>4, <2>7 DEF Passes
  <2>8. CASE Dropped(l, a)
    <3>1. ag' = [ag EXCEPT ![l] = a]
      BY <2>8 DEF Dropped
    <3> QED
      BY <1>18, <2>2, <2>3, <2>8, <3>1
  <2> QED
    BY <2>1, <2>5, <2>6, <2>7, <2>8
<1>26. CASE UNCHANGED vars
  BY <1>6, <1>26 DEF vars, netVars
<1> QED
  BY <1>8, <1>9, <1>10, <1>11, <1>12, <1>13, <1>14, <1>16, <1>17, <1>19, <1>20, <1>21, <1>22, <1>23,
     <1>24, <1>25, <1>26 DEF Next, Act, PhoneStep, AgentStep

LEMMA AnswersStep ==
  ASSUME RouteInv, AnswersBacked, [Next]_vars
  PROVE  AnswersBacked'
<1> SUFFICES ASSUME NEW m \in Lines, NEW r \in AllReqs, Returns(m, Reply(r, TRUE))'
             PROVE  ran'[r] # {}
  BY DEF AnswersBacked
<1>1. TypeOK /\ r \in Things
  BY DEF RouteInv, Things
<1>2. ran[r] \subseteq ran'[r]
  <2>1. CASE UNCHANGED ran
    BY <2>1
  <2>2. CASE ~UNCHANGED ran
    <3>1. PICK k \in Lines : LET f == Head(ag[k].jobs)
                                 a == [ag[k] EXCEPT !.jobs = Tail(@)]
                             IN  f.x \in AllReqs /\ Begin(k, f, a) /\ Job(k)
      BY <1>1, <2>2, OnlyBegin
    <3> DEFINE y == Head(ag[k].jobs).x
    <3>2. ran' \in {ran, [ran EXCEPT ![y] = @ \cup {k}]}
      BY <3>1 DEF Begin
    <3> HIDE DEF y
    <3> QED
      BY <1>1, <3>2 DEF TypeOK
  <2> QED
    BY <2>1, <2>2
<1>3. CASE Returns(m, Reply(r, TRUE))
  BY <1>2, <1>3 DEF AnswersBacked
<1>4. CASE ~Returns(m, Reply(r, TRUE))
  <2> DEFINE f == Head(ag[m].jobs)
             a == [ag[m] EXCEPT !.jobs = Tail(@)]
  <2>1. f.x = r /\ Begin(m, f, a) /\ MayRun(m, r)
    BY <1>1, <1>4, BackStep
  <2>2. ran' = [ran EXCEPT ![r] = @ \cup {m}]
    BY <2>1 DEF Begin
  <2> QED
    BY <1>1, <2>2 DEF TypeOK
<1> QED
  BY <1>3, <1>4

-----------------------------------------------------------------------------
(* The tunnel keeps the promise of an exchange.                            *)

CopiesInv == RouteInv /\ OneCopy /\ AnswersBacked

(* How the requests of the screen may change in a step.                    *)
LEMMA RequestStep ==
  ASSUME TypeOK, [Next]_vars
  PROVE  \/ UNCHANGED req
         \/ \E r \in AllReqs, w \in {"sent", "waiting"} :
              req[r] = "idle" /\ req' = [req EXCEPT ![r] = w] /\ UNCHANGED ran
         \/ \E rs \in SUBSET AllReqs :
              /\ \A r \in rs : req[r] \in {"idle", "waiting", "sent"}
              /\ req' = [r \in AllReqs |-> IF r \in rs THEN "failed" ELSE req[r]] /\ UNCHANGED ran
         \/ req' = [r \in AllReqs |-> IF r \in Waiting THEN "sent" ELSE req[r]] /\ UNCHANGED ran
         \/ \E l \in Lines : LET f == Head(dn[l]) IN
              /\ dn[l] # <<>> /\ f.t = "response" /\ UNCHANGED ran
              /\ req' = [r \in AllReqs |-> IF r = f.x /\ req[r] = "sent" /\ on[r] = l
                                           THEN IF f.ok THEN "ok" ELSE "refused" ELSE req[r]]
<1> DEFINE Fails == \E rs \in SUBSET AllReqs :
              /\ \A r \in rs : req[r] \in {"idle", "waiting", "sent"}
              /\ req' = [r \in AllReqs |-> IF r \in rs THEN "failed" ELSE req[r]] /\ UNCHANGED ran
           Goal == \/ UNCHANGED req
                   \/ \E r \in AllReqs, w \in {"sent", "waiting"} :
                        req[r] = "idle" /\ req' = [req EXCEPT ![r] = w] /\ UNCHANGED ran
                   \/ Fails
                   \/ req' = [r \in AllReqs |-> IF r \in Waiting THEN "sent" ELSE req[r]] /\ UNCHANGED ran
                   \/ \E l \in Lines : LET f == Head(dn[l]) IN
                        /\ dn[l] # <<>> /\ f.t = "response" /\ UNCHANGED ran
                        /\ req' = [r \in AllReqs |-> IF r = f.x /\ req[r] = "sent" /\ on[r] = l
                                                     THEN IF f.ok THEN "ok" ELSE "refused" ELSE req[r]]
<1>1. ASSUME NEW rs \in SUBSET AllReqs, \A r \in rs : req[r] \in {"idle", "waiting", "sent"},
             req' = [r \in AllReqs |-> IF r \in rs THEN "failed" ELSE req[r]], UNCHANGED ran
      PROVE  Fails
  BY <1>1
<1> HIDE DEF Fails
<1>2. ASSUME NEW l \in Lines, Dead(l) PROVE Fails
  <2>1. /\ req' = [r \in AllReqs |-> IF r \in EndsWith(l) THEN "failed" ELSE req[r]] /\ UNCHANGED ran
    BY <1>2 DEF Dead, Ended
  <2>2. EndsWith(l) \in SUBSET AllReqs /\ \A r \in EndsWith(l) : req[r] \in {"idle", "waiting", "sent"}
    BY DEF EndsWith
  <2> QED
    BY <1>1, <2>1, <2>2
<1>3. ASSUME NEW r \in AllReqs, Ask(r) PROVE Goal
  <2>1. req[r] = "idle" /\ UNCHANGED ran
        /\ (req' = [req EXCEPT ![r] = "sent"] \/ req' = [req EXCEPT ![r] = "waiting"])
    BY <1>3 DEF Ask
  <2> QED
    BY <2>1
<1>4. ASSUME NEW r \in AllReqs, KeyMissing(r) PROVE Goal
  <2>1. /\ req[r] = "idle" /\ UNCHANGED ran
        /\ req' = [q \in AllReqs |-> IF q \in {r} THEN "failed" ELSE req[q]]
    BY <1>4 DEF KeyMissing, TypeOK
  <2>2. {r} \in SUBSET AllReqs /\ \A q \in {r} : req[q] \in {"idle", "waiting", "sent"}
    BY <2>1
  <2> QED
    BY <1>1, <2>1, <2>2
<1>5. CASE Leave
  <2>1. CASE live # 0
    <3>1. /\ req' = [r \in AllReqs |-> IF r \in EndsWith(live) THEN "failed" ELSE req[r]] /\ UNCHANGED ran
      BY <1>5, <2>1 DEF Leave
    <3>2. EndsWith(live) \in SUBSET AllReqs /\ \A r \in EndsWith(live) : req[r] \in {"idle", "waiting", "sent"}
      BY DEF EndsWith
    <3> QED
      BY <1>1, <3>1, <3>2
  <2>2. CASE live = 0
    BY <1>5, <2>2 DEF Leave
  <2> QED
    BY <2>1, <2>2
<1>6. ASSUME NEW l \in Lines, Receive(l) PROVE Goal
  <2> DEFINE f == Head(dn[l])
  <2>1. CASE Opened(l)
    BY <2>1 DEF Opened
  <2>2. CASE Dead(l)
    BY <1>2, <2>2
  <2>3. CASE ~Opened(l) /\ ~Dead(l)
    <3>1. \/ UNCHANGED req
          \/ Answered(l, f) /\ f.t = "response" /\ dn[l] # <<>> /\ UNCHANGED ran
          \/ UNCHANGED ran /\ req' = [r \in AllReqs |-> IF r = f.x /\ req[r] = "sent" THEN "failed" ELSE req[r]]
      BY <1>6, <2>3, Zenon DEF Receive, askVars
    <3>2. CASE Answered(l, f) /\ f.t = "response" /\ dn[l] # <<>> /\ UNCHANGED ran
      <4>1. CASE f.x \in ph[l].subs
        BY <3>2, <4>1 DEF Answered
      <4>2. CASE f.x \notin ph[l].subs
        <5>1. req' = [r \in AllReqs |-> IF r = f.x /\ req[r] = "sent" /\ on[r] = l
                                        THEN IF f.ok THEN "ok" ELSE "refused" ELSE req[r]]
          BY <3>2, <4>2 DEF Answered
        <5> QED
          BY <3>2, <5>1
      <4> QED
        BY <4>1, <4>2
    <3>3. CASE UNCHANGED ran /\ req' = [r \in AllReqs |-> IF r = f.x /\ req[r] = "sent" THEN "failed" ELSE req[r]]
      <4> DEFINE rs == {r \in AllReqs : r = f.x /\ req[r] = "sent"}
      <4>1. rs \in SUBSET AllReqs /\ (\A r \in rs : req[r] \in {"idle", "waiting", "sent"})
        OBVIOUS
      <4>2. req' = [r \in AllReqs |-> IF r \in rs THEN "failed" ELSE req[r]]
        BY <3>3
      <4> HIDE DEF rs
      <4> QED
        BY <1>1, <3>3, <4>1, <4>2
    <3> QED
      BY <3>1, <3>2, <3>3
  <2> QED
    BY <2>1, <2>2, <2>3
<1>7. ASSUME NEW l \in Lines, HandshakeTimeout(l) PROVE Goal
  BY <1>2, <1>7 DEF HandshakeTimeout
<1>8. ASSUME NEW r \in AllReqs, RequestTimeout(r) PROVE Goal
  BY <1>2, <1>8 DEF RequestTimeout
<1>9. CASE TakeoverNext \/ LinkDown \/ Revoke \/ PairElsewhere \/ TokenExpires
           \/ \E s \in Subs : Subscribe(s) \/ Unsubscribe(s)
  BY <1>9 DEF TakeoverNext, LinkDown, Revoke, PairElsewhere, TokenExpires, Subscribe, Unsubscribe, askVars
<1>10. ASSUME NEW l \in Lines, Send(l) \/ Break(l) PROVE Goal
  BY <1>10 DEF Send, Break, askVars
<1>11. ASSUME NEW l \in Lines,
              \/ Arrive(l) \/ Job(l) \/ Handshaken(l) \/ Done(l) \/ Sealed(l) \/ TooLarge(l)
              \/ PairingTTL(l) \/ \E x \in Subs : Event(l, x)
       PROVE  Goal
  BY <1>11, AgentLine DEF askVars
<1>12. CASE UNCHANGED vars
  BY <1>12 DEF vars, askVars
<1> QED
  BY <1>3, <1>4, <1>5, <1>6, <1>7, <1>8, <1>9, <1>10, <1>11, <1>12
     DEF Next, Act, PhoneStep, AgentStep, Fails

\* What the exchange sees of the tunnel.
asked == {r \in AllReqs : req[r] # "idle"}
started == {r \in AllReqs : ran[r] # {}}
times == [r \in AllReqs |-> Cardinality(ran[r])]
ended == [r \in AllReqs |-> IF req[r] \in {"ok", "refused", "failed"} THEN req[r] ELSE "open"]

LEMMA ExchangeInit == Init => Exchange!Init
BY FS_EmptySet DEF Init, Exchange!Init

(* Each step of the tunnel is a step of the exchange, or none.             *)
LEMMA ExchangeStep ==
  ASSUME CopiesInv, [Next]_vars
  PROVE  [Exchange!Next]_(Exchange!vars)
<1> USE DEF CopiesInv, RouteInv
<1>1. UNCHANGED <<asked, started, times, ended>> => UNCHANGED Exchange!vars
  BY DEF asked, started, times, ended, Exchange!vars
<1>2. UNCHANGED ran => UNCHANGED <<started, times>>
  BY DEF started, times
<1>4. CASE UNCHANGED req /\ ~UNCHANGED ran
  <2>1. PICK k \in Lines : LET f == Head(ag[k].jobs)
                               a == [ag[k] EXCEPT !.jobs = Tail(@)]
                           IN  f.x \in AllReqs /\ Begin(k, f, a) /\ Job(k)
    BY <1>4, OnlyBegin
  <2> DEFINE f == Head(ag[k].jobs)
  <2>0. PICK x \in AllReqs : x = f.x
    BY <2>1
  <2>2. x \in AllReqs /\ f.t = "request" /\ ran' = [ran EXCEPT ![x] = @ \cup {k}] /\ ag[k].jobs # <<>>
    BY <1>4, <2>0, <2>1 DEF Begin, Job
  <2>3. ag[k].jobs \in Seq(Frames)
    BY SlotFields DEF TypeOK
  <2>4. f = Request(x)
    <3>1. f \in Frames
      BY <2>2, <2>3, Leaves
    <3> HIDE DEF f
    <3> QED
      BY <2>0, <2>2, <3>1, FrameFacts DEF Request
  <2>5. Has(ag[k].jobs, {Request(x)})
    BY <2>2, <2>3, <2>4, HasLess
  <2> HIDE DEF f
  <2>6. req[x] # "idle" /\ ran[x] = {}
    BY <2>2, <2>5 DEF OneCopy, CopyOf, Carries
  <2>7. ran'[x] = {k} /\ \A r \in AllReqs \ {x} : ran'[r] = ran[r]
    BY <2>2, <2>6 DEF TypeOK
  <2>8. started' = started \cup {x} /\ x \in asked /\ x \notin started
    BY <2>2, <2>6, <2>7 DEF started, asked
  <2>9. times' = [times EXCEPT ![x] = 1]
    <3>1. Cardinality({k}) = 1
      BY FS_Singleton
    <3>2. \A r \in AllReqs : Cardinality(ran'[r]) = IF r = x THEN 1 ELSE Cardinality(ran[r])
      BY <2>7, <3>1
    <3> QED
      BY <2>2, <3>2 DEF times
  <2>10. UNCHANGED <<asked, ended>>
    BY <1>4 DEF asked, ended
  <2>11. Exchange!Start(x)
    BY <2>8, <2>9, <2>10 DEF Exchange!Start, asked, started, times, ended
  <2> QED
    BY <2>2, <2>11 DEF Exchange!Next
<1>5. CASE UNCHANGED req /\ UNCHANGED ran
  BY <1>1, <1>2, <1>5 DEF asked, ended
<1>6. CASE \E r \in AllReqs, w \in {"sent", "waiting"} :
             req[r] = "idle" /\ req' = [req EXCEPT ![r] = w] /\ UNCHANGED ran
  <2>1. PICK r \in AllReqs, w \in {"sent", "waiting"} :
               req[r] = "idle" /\ req' = [req EXCEPT ![r] = w] /\ UNCHANGED ran
    BY <1>6
  <2>2. r \notin asked /\ asked' = asked \cup {r} /\ UNCHANGED ended
    BY <2>1 DEF TypeOK, asked, ended
  <2>3. Exchange!Ask(r)
    BY <1>2, <2>1, <2>2 DEF Exchange!Ask, asked, started, times, ended
  <2> QED
    BY <2>3 DEF Exchange!Next
<1>7. ASSUME NEW rs \in SUBSET AllReqs, NEW o \in {"refused", "failed"},
             \A r \in rs : req[r] \in {"idle", "waiting", "sent"}, UNCHANGED ran,
             req' = [r \in AllReqs |-> IF r \in rs THEN o ELSE req[r]]
      PROVE  Exchange!Next
  <2>1. \A r \in rs : ended[r] = "open"
    BY <1>7 DEF ended
  <2>2. asked' = asked \cup rs
    BY <1>7 DEF asked
  <2>3. ended' = [r \in AllReqs |-> IF r \in rs THEN o ELSE ended[r]]
    BY <1>7 DEF ended
  <2>4. Exchange!Fail(rs, o)
    BY <1>2, <1>7, <2>1, <2>2, <2>3 DEF Exchange!Fail, asked, started, times, ended
  <2> QED
    BY <2>4 DEF Exchange!Next
<1>8. CASE \E rs \in SUBSET AllReqs :
             /\ \A r \in rs : req[r] \in {"idle", "waiting", "sent"}
             /\ req' = [r \in AllReqs |-> IF r \in rs THEN "failed" ELSE req[r]] /\ UNCHANGED ran
  BY <1>7, <1>8
<1>9. CASE req' = [r \in AllReqs |-> IF r \in Waiting THEN "sent" ELSE req[r]] /\ UNCHANGED ran
  <2>1. UNCHANGED <<asked, ended>>
    BY <1>9 DEF asked, ended, Waiting
  <2> QED
    BY <1>1, <1>2, <1>9, <2>1
<1>10. CASE \E l \in Lines : LET f == Head(dn[l]) IN
              /\ dn[l] # <<>> /\ f.t = "response" /\ UNCHANGED ran
              /\ req' = [r \in AllReqs |-> IF r = f.x /\ req[r] = "sent" /\ on[r] = l
                                           THEN IF f.ok THEN "ok" ELSE "refused" ELSE req[r]]
  <2>1. PICK l \in Lines : LET f == Head(dn[l]) IN
              /\ dn[l] # <<>> /\ f.t = "response" /\ UNCHANGED ran
              /\ req' = [r \in AllReqs |-> IF r = f.x /\ req[r] = "sent" /\ on[r] = l
                                           THEN IF f.ok THEN "ok" ELSE "refused" ELSE req[r]]
    BY <1>10
  <2> DEFINE f == Head(dn[l])
             rs == {r \in AllReqs : r = f.x /\ req[r] = "sent" /\ on[r] = l}
  <2>2. dn[l] \in Seq(Frames)
    BY DEF TypeOK
  <2>3. f \in Frames /\ f.t = "response" /\ UNCHANGED ran
    BY <2>1, <2>2, Leaves
  <2>4. f.ok \in BOOLEAN /\ f = Reply(f.x, f.ok)
    <3> HIDE DEF f
    <3> QED
      BY <2>3, FrameFacts
  <2>5. rs \in SUBSET AllReqs /\ \A r \in rs : req[r] = "sent"
    OBVIOUS
  <2>6. CASE ~f.ok
    <3>1. req' = [r \in AllReqs |-> IF r \in rs THEN "refused" ELSE req[r]]
      BY <2>1, <2>6
    <3> HIDE DEF rs
    <3> QED
      BY <1>7, <2>3, <2>5, <3>1
  <2>7. CASE f.ok
    <3>1. req' = [r \in AllReqs |-> IF r \in rs THEN "ok" ELSE req[r]]
      BY <2>1, <2>7
    <3>2. CASE rs = {}
      <4>1. UNCHANGED req
        BY <3>1, <3>2 DEF TypeOK
      <4> QED
        BY <1>5, <2>3, <4>1
    <3>3. CASE rs # {}
      <4>0. PICK x \in AllReqs : x = f.x
        BY <3>3
      <4>1. rs = {x} /\ x \in AllReqs
        BY <3>3, <4>0
      <4>2. f = Reply(x, TRUE)
        <5>1. f.ok = TRUE
          BY <2>4, <2>7
        <5> QED
          BY <2>4, <4>0, <5>1
      <4>3. Has(dn[l], {Reply(x, TRUE)})
        BY <2>1, <2>2, <4>2, HasLess
      <4> HIDE DEF f, rs
      <4>4. ran[x] # {}
        BY <4>1, <4>3 DEF AnswersBacked, Returns
      <4>5. req[x] = "sent" /\ req'[x] = "ok" /\ \A r \in AllReqs \ {x} : req'[r] = req[r]
        BY <2>5, <3>1, <4>1
      <4>6. UNCHANGED asked
        BY <4>1, <4>5 DEF asked
      <4>7. x \in started /\ ended[x] = "open" /\ ended' = [ended EXCEPT ![x] = "ok"]
        BY <4>1, <4>4, <4>5 DEF started, ended
      <4>8. Exchange!Answer(x)
        BY <1>2, <2>3, <4>6, <4>7 DEF Exchange!Answer, asked, started, times, ended
      <4> QED
        BY <4>1, <4>8 DEF Exchange!Next
    <3> QED
      BY <3>2, <3>3
  <2> QED
    BY <2>6, <2>7
<1> QED
  BY <1>4, <1>5, <1>6, <1>8, <1>9, <1>10, RequestStep

LEMMA InitCopies == Init => OneCopy /\ AnswersBacked
<1> SUFFICES ASSUME Init PROVE OneCopy /\ AnswersBacked
  OBVIOUS
<1>1. \A l \in Lines : ph[l].out = <<>> /\ up[l] = <<>> /\ dn[l] = <<>> /\ ag[l].jobs = <<>>
                       /\ ag[l].sends = <<>> /\ ag[l].cur = Nothing
  BY DEF Init, FreshPhone, FreshSlot
<1>2. \A r \in AllReqs : ran[r] = {}
  BY DEF Init
<1>3. OneCopy
  BY <1>1, <1>2, EmptyQueue DEF OneCopy, CopyOf, AtMostOne, Carries
<1>4. \A r : Nothing # Reply(r, TRUE)
  BY DEF Nothing, Reply
<1>5. AnswersBacked
  BY <1>1, <1>4, EmptyQueue DEF AnswersBacked, Returns
<1> QED
  BY <1>3, <1>5

(* Each request is an exchange: its handler is started at most once,       *)
(* however often lines break, and a good answer is the answer of its       *)
(* handler; a request that has ended has ended once.                       *)
THEOREM RequestsAreExchanges == Spec => ExchangeSpec
<1>1. RouteInv /\ OneCopy /\ AnswersBacked /\ [Next]_vars => OneCopy' /\ AnswersBacked'
  BY CopyStep, AnswersStep
<1>2. CopiesInv /\ [Next]_vars => [Exchange!Next]_(Exchange!vars)
  BY ExchangeStep
<1>3. Spec => [](OneCopy /\ AnswersBacked)
  BY <1>1, InitCopies, RouteHolds, PTL DEF Spec
<1>4. Spec => []CopiesInv
  BY <1>3, RouteHolds, PTL DEF CopiesInv
<1> QED
  BY <1>2, <1>4, ExchangeInit, PTL DEF Spec, ExchangeSpec, Exchange!Spec

-----------------------------------------------------------------------------
(***************************************************************************)
(* Subscriptions: what the phone shows as live is held by the agent, or    *)
(* its end is on the way.                                                  *)
(***************************************************************************)

(***************************************************************************)
(* The invariant.  An answer "accepted" may travel longer than the stream  *)
(* lives that it announces.  What makes the phone's view true is the order *)
(* of the frames: behind every such answer comes the end of the stream, in *)
(* the agent's send chain and on the network.                              *)
(***************************************************************************)

\* The frames that tell a phone that subscription s has ended, or begun.
Ends(s) == {Close(s), Frame("closeall")}
Begun(s) == {Reply(s, TRUE)}

\* Subscription s was never asked for on line l.
Untouched(l, s) ==
  /\ s \notin ph[l].stops \cup ph[l].subs \cup ph[l].conf \cup ag[l].streams
  /\ ~Carries(l, {Request(s)}) /\ ~Carries(l, {Close(s)})
  /\ ~Returns(l, Reply(s, TRUE))

NotYet(l, s) == screen[s] = "new" \/ ph[l].phase \in {"none", "reply", "confirm"}
NotYetAsked == \A l \in Lines, s \in Subs : NotYet(l, s) => Untouched(l, s)

\* The phone does not ask for a stream again on a line where it ended it.
CloseIsLast == \A l \in Lines, s \in Subs : Carries(l, {Close(s)}) => s \notin ph[l].subs

\* The agent holds the stream, or need not for the phone's sake.
Held(l, s) == s \in ag[l].streams \/ l \in cut \/ s \notin ph[l].subs

EndFollows ==
  \A l \in Lines, s \in Subs :
    \/ Held(l, s)
    \/ /\ Followed(ag[l].sends, Begun(s), Ends(s))
       /\ Has(ag[l].sends, Ends(s)) \/ Followed(dn[l], Begun(s), Ends(s))
       /\ s \in ph[l].conf => Has(ag[l].sends, Ends(s)) \/ Has(dn[l], Ends(s))

\* The agent gives up what a line asked for only when the line is closed.
EndingInOrder == \A l \in Lines : ag[l].gone \/ Carries(l, Ending) => l \in cut

StreamInv == RouteInv /\ NotYetAsked /\ CloseIsLast /\ EndFollows /\ EndingInOrder

-----------------------------------------------------------------------------
(* What the phone knows of its subscriptions.                              *)

LEMMA InUse == RouteInv /\ live # 0 => live \in Lines /\ ph[live].phase = "open"
BY TunnelAssumption DEF RouteInv, TypeOK, LinesInOrder, Lines

\* How the phone's end of line m may change: a subscription is asked for when
\* the screen comes or the line opens, and confirmed by its answer; screens and
\* lines do not become new again.
AskedNow(m, s) == (Subscribe(s) /\ live = m) \/ (Opened(m) /\ ph[m].phase = "confirm" /\ s \in Wanted)
PhoneMove(m, s) ==
  /\ s \in ph'[m].subs => s \in ph[m].subs \/ AskedNow(m, s)
  /\ s \in ph'[m].stops => s \in ph[m].stops \/ AskedNow(m, s)
  /\ s \in ph'[m].conf => \/ s \in ph[m].conf
                          \/ /\ Receive(m) /\ ph[m].phase = "open" /\ s \in ph[m].subs
                             /\ dn[m] # <<>> /\ Head(dn[m]) = Reply(s, TRUE)
                             /\ dn'[m] = Tail(dn[m]) /\ ag'[m] = ag[m]
  /\ ph'[m].phase \in {"none", "reply", "confirm"} => ph[m].phase \in {"none", "reply", "confirm"}
  /\ screen'[s] = "new" => screen[s] = "new"

LEMMA PhoneStepMoves ==
  ASSUME RouteInv, [Next]_vars, NEW m \in Lines, NEW s \in Subs
  PROVE  PhoneMove(m, s)
<1>1. ph \in [Lines -> Phones] /\ ag \in [Lines -> Slots] /\ screen \in [Subs -> {"new", "on", "off"}]
      /\ dn \in [Lines -> Seq(Frames)]
  BY DEF RouteInv, TypeOK
<1>2. ASSUME UNCHANGED <<ph, screen>> PROVE PhoneMove(m, s)
  BY <1>2 DEF PhoneMove
<1>3. ASSUME NEW l \in Lines, Dead(l) PROVE PhoneMove(m, s)
  <2>1. CASE m = l
    <3>1. ph'[m].phase = "dead" /\ ph'[m].stops = {} /\ ph'[m].subs = ph[m].subs /\ ph'[m].conf = ph[m].conf
      BY <1>1, <1>3, <2>1 DEF Dead, Phones
    <3>2. UNCHANGED screen
      BY <1>3 DEF Dead
    <3> QED BY <3>1, <3>2 DEF PhoneMove
  <2>2. CASE m # l
    BY <1>1, <1>3, <2>2 DEF Dead, PhoneMove, Phones
  <2> QED BY <2>1, <2>2
<1>4. ASSUME Ensure, screen'[s] = "new" => screen[s] = "new" PROVE PhoneMove(m, s)
  <2>1. UNCHANGED ph \/ (made + 1 = opening' /\ ph' = [ph EXCEPT ![made + 1].phase = "reply"]
                         /\ made' = made + 1)
    BY <1>4 DEF Ensure
  <2>2. CASE ph' = [ph EXCEPT ![made + 1].phase = "reply"] /\ m = made + 1
    <3>1. m > made
      BY <2>2, TunnelAssumption DEF RouteInv, TypeOK, Lines
    <3>2. ph[m].phase = "none"
      BY <3>1 DEF RouteInv, LinesInOrder, Unmade, FreshPhone
    <3> QED
      BY <1>1, <1>4, <2>2, <3>2 DEF PhoneMove, Phones
  <2>3. CASE ph'[m] = ph[m]
    BY <1>4, <2>3 DEF PhoneMove
  <2> QED
    BY <1>1, <2>1, <2>2, <2>3
<1>5. ASSUME NEW r \in AllReqs, Ask(r) PROVE PhoneMove(m, s)
  <2>1. CASE live # 0
    <3>1. ph' = [ph EXCEPT ![live].out = Append(@, Of("request", r))] /\ UNCHANGED screen
      BY <1>5, <2>1 DEF Ask
    <3> QED
      BY <1>1, <3>1 DEF PhoneMove, Phones
  <2>2. CASE live = 0
    BY <1>4, <1>5, <2>2 DEF Ask
  <2> QED
    BY <2>1, <2>2
<1>6. ASSUME NEW x \in Subs, Subscribe(x) PROVE PhoneMove(m, s)
  <2>0. screen' = [screen EXCEPT ![x] = "on"]
    BY <1>6 DEF Subscribe
  <2>1. CASE live # 0
    <3> DEFINE q == Append(ph[live].out, Of("request", x))
    <3>1. ph' = [ph EXCEPT ![live].out = q, ![live].stops = @ \cup {x}, ![live].subs = @ \cup {x}]
      BY <1>6, <2>1 DEF Subscribe
    <3> HIDE DEF q
    <3>2. CASE live = m
      <4>1. /\ ph'[m].subs = ph[m].subs \cup {x} /\ ph'[m].stops = ph[m].stops \cup {x}
            /\ ph'[m].conf = ph[m].conf /\ ph'[m].phase = ph[m].phase
        BY <1>1, <3>1, <3>2 DEF Phones
      <4> QED
        BY <1>1, <1>6, <2>0, <3>2, <4>1 DEF PhoneMove, AskedNow
    <3>3. CASE live # m
      BY <1>1, <2>0, <3>1, <3>3 DEF PhoneMove
    <3> QED
      BY <3>2, <3>3
  <2>2. CASE live = 0
    BY <1>1, <1>4, <1>6, <2>0, <2>2 DEF Subscribe
  <2> QED
    BY <2>1, <2>2
<1>7. ASSUME NEW x \in Subs, Unsubscribe(x) PROVE PhoneMove(m, s)
  <2>0. screen' = [screen EXCEPT ![x] = "off"]
    BY <1>7 DEF Unsubscribe
  <2>1. CASE live = 0 \/ x \notin ph[live].stops
    BY <1>1, <1>7, <2>0, <2>1 DEF Unsubscribe, PhoneMove
  <2>2. CASE ~(live = 0 \/ x \notin ph[live].stops)
    <3> DEFINE q == IF x \in ph[live].subs THEN Append(ph[live].out, Of("close", x)) ELSE ph[live].out
    <3>1. ph' = [ph EXCEPT ![live].stops = @ \ {x}, ![live].subs = @ \ {x}, ![live].out = q]
      BY <1>7, <2>2 DEF Unsubscribe
    <3> HIDE DEF q
    <3>2. /\ ph'[m].subs \subseteq ph[m].subs /\ ph'[m].stops \subseteq ph[m].stops
          /\ ph'[m].conf = ph[m].conf /\ ph'[m].phase = ph[m].phase
      BY <1>1, <3>1 DEF Phones
    <3> QED
      BY <1>1, <2>0, <3>2 DEF PhoneMove
  <2> QED
    BY <2>1, <2>2
<1>8. CASE Leave
  <2>0. screen'[s] = "new" => screen[s] = "new"
    BY <1>1, <1>8 DEF Leave
  <2>1. CASE live # 0
    <3>1. ph' = [ph EXCEPT ![live].phase = "dead", ![live].out = <<>>, ![live].stops = {}]
      BY <1>8, <2>1 DEF Leave
    <3>2. /\ ph'[m].subs = ph[m].subs /\ ph'[m].stops \subseteq ph[m].stops
          /\ ph'[m].conf = ph[m].conf /\ ph'[m].phase \in {ph[m].phase, "dead"}
      BY <1>1, <3>1 DEF Phones
    <3> QED
      BY <2>0, <3>2 DEF PhoneMove
  <2>2. CASE live = 0
    BY <1>8, <2>0, <2>2 DEF Leave, PhoneMove
  <2> QED
    BY <2>1, <2>2
<1>9. ASSUME NEW l \in Lines, Send(l) PROVE PhoneMove(m, s)
  BY <1>1, <1>9 DEF Send, askVars, PhoneMove, Phones
<1>10. ASSUME NEW l \in Lines, Receive(l) PROVE PhoneMove(m, s)
  <2> DEFINE f == Head(dn[l])
             p == ph[l].phase
  <2>0. f = Head(dn[l]) /\ f \in Frames
    BY <1>1, <1>10, QueueType DEF Receive
  <2>1. CASE p = "reply" /\ f.t = "reply"
    <3>1. ph' = [ph EXCEPT ![l].phase = "confirm"] /\ UNCHANGED screen
      BY <1>10, <2>1 DEF Receive, askVars
    <3> QED
      BY <1>1, <2>1, <3>1 DEF PhoneMove, Phones
  <2>2. CASE p = "confirm" /\ f.t = "confirm" /\ ~closed
    <3>1. Opened(l)
      BY <1>10, <2>2 DEF Receive
    <3> DEFINE q == Requests(Wanted) \o Requests(Waiting)
    <3>2. ph' = [ph EXCEPT ![l].phase = "open", ![l].stops = Wanted, ![l].subs = Wanted, ![l].out = q]
          /\ UNCHANGED screen
      BY <3>1 DEF Opened, Resubscribed
    <3> HIDE DEF q
    <3>3. CASE l = m
      <4>1. /\ ph'[m].subs = Wanted /\ ph'[m].stops = Wanted /\ ph'[m].conf = ph[m].conf
            /\ ph'[m].phase = "open"
        BY <1>1, <3>2, <3>3 DEF Phones
      <4> QED
        BY <2>2, <3>1, <3>2, <3>3, <4>1 DEF PhoneMove, AskedNow
    <3>4. CASE l # m
      BY <1>1, <3>2, <3>4 DEF PhoneMove
    <3> QED
      BY <3>3, <3>4
  <2>3. CASE p = "open" /\ f.t = "response"
    <3>1. Answered(l, f) /\ UNCHANGED <<screen, ag>> /\ dn' = [dn EXCEPT ![l] = Tail(@)] /\ dn[l] # <<>>
      BY <1>10, <2>3 DEF Receive
    <3>2. f.ok \in BOOLEAN /\ f = Reply(f.x, f.ok)
      BY <2>0, <2>3, FrameFacts
    <3> HIDE DEF f
    <3>3. CASE f.x \in ph[l].subs /\ f.ok
      <4>1. ph' = [ph EXCEPT ![l].conf = @ \cup {f.x}]
        BY <3>1, <3>3 DEF Answered
      <4>2. f = Reply(f.x, TRUE)
        BY <3>2, <3>3
      <4>3. CASE l = m
        <5>1. /\ ph'[m].conf = ph[m].conf \cup {f.x} /\ ph'[m].subs = ph[m].subs
              /\ ph'[m].stops = ph[m].stops /\ ph'[m].phase = ph[m].phase
          BY <1>1, <4>1, <4>3 DEF Phones
        <5>2. dn[m] # <<>> /\ dn'[m] = Tail(dn[m]) /\ ag'[m] = ag[m]
          BY <1>1, <3>1, <4>3
        <5> QED
          BY <1>10, <2>0, <2>3, <3>1, <3>3, <4>2, <4>3, <5>1, <5>2 DEF PhoneMove
      <4>4. CASE l # m
        BY <1>1, <3>1, <4>1, <4>4 DEF PhoneMove
      <4> QED
        BY <4>3, <4>4
    <3>4. CASE ~(f.x \in ph[l].subs /\ f.ok)
      <4>1. UNCHANGED ph \/ ph' = [ph EXCEPT ![l].subs = @ \ {f.x}]
        BY <3>1, <3>4 DEF Answered
      <4>2. CASE UNCHANGED ph
        BY <1>2, <3>1, <4>2
      <4>3. CASE ph' = [ph EXCEPT ![l].subs = @ \ {f.x}]
        BY <1>1, <3>1, <4>3 DEF PhoneMove, Phones
      <4> QED
        BY <4>1, <4>2, <4>3
    <3> QED
      BY <3>3, <3>4
  <2>4. CASE p = "open" /\ f.t = "event"
    <3>1. UNCHANGED <<ph, screen>>
      BY <1>10, <2>4 DEF Receive, askVars
    <3> QED
      BY <1>2, <3>1
  <2>5. CASE p = "open" /\ f.t = "close"
    <3>1. ph' = [ph EXCEPT ![l].subs = @ \ {f.x}] /\ UNCHANGED screen
      BY <1>10, <2>5 DEF Receive
    <3> HIDE DEF f
    <3> QED
      BY <1>1, <3>1 DEF PhoneMove, Phones
  <2>6. CASE Dead(l)
    BY <1>3, <2>6
  <2> QED
    BY <1>10, <2>1, <2>2, <2>3, <2>4, <2>5, <2>6 DEF Receive
<1>11. CASE (\E l \in Lines : HandshakeTimeout(l)) \/ \E r \in AllReqs : RequestTimeout(r)
  BY <1>3, <1>11 DEF HandshakeTimeout, RequestTimeout
<1>12. ASSUME NEW l \in Lines, AgentStep(l) \/ TooLarge(l) \/ PairingTTL(l) \/ \E x \in Subs : Event(l, x)
       PROVE  PhoneMove(m, s)
  BY <1>2, <1>12, AgentLine DEF AgentStep, RouteInv, askVars
<1>13. CASE (\E r \in AllReqs : KeyMissing(r)) \/ TakeoverNext \/ Revoke \/ PairElsewhere \/ TokenExpires
            \/ LinkDown \/ \E l \in Lines : Break(l)
  BY <1>2, <1>13 DEF KeyMissing, TakeoverNext, Revoke, PairElsewhere, TokenExpires, LinkDown, Break, askVars
<1>14. CASE UNCHANGED vars
  BY <1>2, <1>14 DEF vars, askVars
<1> QED
  BY <1>5, <1>6, <1>7, <1>8, <1>9, <1>10, <1>11, <1>12, <1>13, <1>14 DEF Next, Act, PhoneStep

-----------------------------------------------------------------------------
(* What the agent and the network do with the frames of a stream.          *)

(* Lines stay closed.                                                      *)
LEMMA LinesClosed ==
  ASSUME TypeOK, [Next]_vars
  PROVE  cut \subseteq cut'
<1>1. ASSUME NEW l \in Lines, Dead(l) \/ Break(l) \/ Receive(l) \/ Send(l) PROVE cut \subseteq cut'
  <2>1. CASE Receive(l)
    BY <2>1, Zenon DEF Receive, Opened, Dead, Closed
  <2> QED
    BY <1>1, <2>1 DEF Dead, Break, Send, Closed
<1>2. ASSUME NEW l \in Lines, AgentStep(l) \/ TooLarge(l) \/ PairingTTL(l) \/ \E x \in Subs : Event(l, x)
      PROVE  cut \subseteq cut'
  BY <1>2, AgentLine DEF AgentStep
<1>3. CASE Act
  <2>1. CASE Leave
    BY <2>1 DEF Leave, Closed
  <2>2. CASE ~Leave
    BY <1>3, <2>2 DEF Act, Ask, KeyMissing, TakeoverNext, Subscribe, Unsubscribe, netVars
  <2> QED
    BY <2>1, <2>2
<1>4. CASE LinkDown \/ Revoke \/ PairElsewhere \/ TokenExpires \/ UNCHANGED vars
  BY <1>4 DEF LinkDown, Revoke, PairElsewhere, TokenExpires, vars, netVars
<1> QED
  BY <1>1, <1>2, <1>3, <1>4 DEF Next, PhoneStep, HandshakeTimeout, RequestTimeout

(* Two frames join one after the other.                                    *)
LEMMA InTurn ==
  ASSUME NEW q \in Seq(Frames), NEW f \in Frames, NEW g \in Frames
  PROVE  q \o <<f, g>> = Append(Append(q, f), g)
OBVIOUS

\* How the way back on line m may change for a stream that the agent does not
\* hold afterwards, while the line is there and the phone listens.
BackMove(m, s) ==
  LET q == ag[m].sends
      q2 == ag'[m].sends
      d == dn[m]
      d2 == dn'[m]
      old == s \notin ag[m].streams
  IN  \/ old /\ q2 = q /\ d2 = d
      \/ d2 = d /\ \E f \in Frames \ Begun(s) : q2 = Append(q, f) /\ old
      \/ d2 = d /\ q2 = q \o <<Frame("closeall"), Frame("drop")>>
      \/ old /\ q2 = q /\ d2 = d \o <<Frame("reply"), Frame("confirm")>>
      \/ q # <<>> /\ Head(q) \notin Begun(s) \cup Ends(s) /\ d2 = d /\ q2 = Tail(q) /\ old
      \/ q # <<>> /\ Head(q) \notin Begun(s) \cup Ends(s) /\ d2 = d
         /\ \E f \in Frames \ Begun(s) : q2 = Append(Tail(q), f) /\ (old \/ f \in Ends(s))
      \/ q # <<>> /\ d2 = Append(d, Head(q)) /\ q2 = Tail(q) /\ old
      \/ q # <<>> /\ d2 = Append(d, Head(q)) /\ q2 = Append(Tail(q), Frame("closeall"))
      \/ d # <<>> /\ Head(d) \notin Ends(s) /\ d2 = Tail(d) /\ q2 = q /\ old

LEMMA BackMoves ==
  ASSUME RouteInv, CloseIsLast, EndingInOrder, [Next]_vars, NEW m \in Lines, NEW s \in Subs,
         m \notin cut', s \in ph'[m].subs, s \notin ag'[m].streams
  PROVE  BackMove(m, s)
<1> DEFINE Idle == ag'[m].sends = ag[m].sends /\ ag'[m].streams = ag[m].streams /\ dn'[m] = dn[m]
<1>1. /\ ph \in [Lines -> Phones] /\ ag \in [Lines -> Slots] /\ dn \in [Lines -> Seq(Frames)]
      /\ ag[m] \in Slots /\ ag[m].sends \in Seq(Frames) /\ ag[m].jobs \in Seq(Frames)
      /\ dn[m] \in Seq(Frames) /\ ag[m].cur \in Frames
  BY SlotFields DEF RouteInv, TypeOK
<1>2. ASSUME Idle PROVE BackMove(m, s)
  BY <1>2 DEF BackMove
<1>3. ASSUME UNCHANGED <<ag, dn>> PROVE BackMove(m, s)
  BY <1>2, <1>3
<1>4. /\ \A t : Frame(t) \notin Begun(s)
      /\ \A y : Of("event", y) \notin Begun(s) \cup Ends(s)
      /\ \A y : Of("close", y) \notin Begun(s)
  BY DEF Frame, Of, Reply, Begun, Ends, Close
<1>5. ASSUME Ensure, UNCHANGED dn PROVE BackMove(m, s)
  <2>1. UNCHANGED ag \/ ag' = [ag EXCEPT ![made + 1].slot = "fresh"]
    BY <1>5 DEF Ensure
  <2>2. ag'[m].sends = ag[m].sends /\ ag'[m].streams = ag[m].streams
    <3>1. CASE ag' = [ag EXCEPT ![made + 1].slot = "fresh"] /\ m = made + 1
      BY <1>1, <3>1 DEF Slots
    <3>2. CASE ag'[m] = ag[m]
      BY <3>2
    <3> QED
      BY <1>1, <2>1, <3>1, <3>2
  <2> QED
    BY <1>2, <1>5, <2>2
<1>6. ASSUME NEW r \in AllReqs, Ask(r) PROVE BackMove(m, s)
  BY <1>3, <1>5, <1>6 DEF Ask
<1>7. ASSUME NEW x \in Subs, Subscribe(x) PROVE BackMove(m, s)
  BY <1>3, <1>5, <1>7 DEF Subscribe
<1>8. CASE TakeoverNext \/ Leave \/ Revoke \/ PairElsewhere \/ TokenExpires
            \/ (\E r \in AllReqs : KeyMissing(r)) \/ \E x \in Subs : Unsubscribe(x)
  BY <1>3, <1>8 DEF TakeoverNext, Leave, Revoke, PairElsewhere, TokenExpires, KeyMissing, Unsubscribe, netVars
<1>9. CASE (\E l \in Lines : HandshakeTimeout(l) \/ Send(l)) \/ \E r \in AllReqs : RequestTimeout(r)
  BY <1>3, <1>9 DEF HandshakeTimeout, RequestTimeout, Dead, Send
<1>10. ASSUME NEW l \in Lines, Break(l) PROVE BackMove(m, s)
  <2>1. l # m /\ UNCHANGED ag
    BY <1>10 DEF Break
  <2>2. dn'[m] = dn[m]
    <3>1. \E q : dn' = [dn EXCEPT ![l] = q]
      BY <1>10 DEF Break
    <3> QED
      BY <1>1, <2>1, <3>1
  <2> QED
    BY <1>2, <2>1, <2>2
<1>11. CASE LinkDown
  <2>1. ag'[m] = ag[m] /\ dn'[m] = dn[m]
    BY <1>11 DEF LinkDown
  <2> QED
    BY <1>2, <2>1
<1>12. ASSUME NEW l \in Lines, Arrive(l) PROVE BackMove(m, s)
  <2> DEFINE b == [ag[l] EXCEPT !.jobs = Append(@, Head(up[l]))]
  <2>1. (\/ ag' = [ag EXCEPT ![l] = Gone(ag[l])] \/ ag' = ag \/ ag' = [ag EXCEPT ![l] = b]) /\ UNCHANGED dn
    BY <1>1, <1>12 DEF Arrive
  <2>2. /\ Gone(ag[l]).streams = ag[l].streams /\ Gone(ag[l]).sends = ag[l].sends
        /\ b.streams = ag[l].streams /\ b.sends = ag[l].sends
    BY <1>1 DEF Gone, Slots
  <2> HIDE DEF b
  <2>3. ag'[m].streams = ag[m].streams /\ ag'[m].sends = ag[m].sends
    BY <1>1, <2>1, <2>2
  <2> QED
    BY <1>2, <2>1, <2>3
<1>13. ASSUME NEW l \in Lines, NEW b, ag' = [ag EXCEPT ![l] = b], UNCHANGED dn,
              b.sends = ag[l].sends, b.streams = ag[l].streams
       PROVE  BackMove(m, s)
  <2>1. ag'[m].streams = ag[m].streams /\ ag'[m].sends = ag[m].sends
    BY <1>1, <1>13
  <2> QED
    BY <1>2, <1>13, <2>1
<1>14. ASSUME NEW l \in Lines, NEW b, Dropped(l, b) PROVE BackMove(m, s)
  <2>1. l # m
    BY <1>14 DEF Dropped
  <2>2. ag'[m] = ag[m] /\ dn'[m] = dn[m]
    BY <1>1, <1>14, <2>1 DEF Dropped
  <2> QED
    BY <1>2, <2>2
<1>15. ASSUME NEW l \in Lines, l # m, NEW b, ag' = [ag EXCEPT ![l] = b],
              UNCHANGED dn \/ \E q : dn' = [dn EXCEPT ![l] = q]
       PROVE  BackMove(m, s)
  <2>1. ag'[m] = ag[m] /\ dn'[m] = dn[m]
    BY <1>1, <1>15
  <2> QED
    BY <1>2, <2>1
<1>16. m \notin cut /\ ~ag[m].gone /\ ~Carries(m, Ending)
  BY LinesClosed DEF RouteInv, EndingInOrder
<1>17. ASSUME NEW l \in Lines, Job(l) PROVE BackMove(m, s)
  <2> DEFINE f == Head(ag[l].jobs)
             a == [ag[l] EXCEPT !.jobs = Tail(@)]
  <2>1. /\ ag[l].jobs # <<>> /\ UNCHANGED ph
        /\ Pass(l, f, a) \/ Handshake(l, f, a) \/ Fatal(l, f, a) \/ DropStream(l, f, a) \/ Begin(l, f, a)
    BY <1>17 DEF Job
  <2>2. a \in Slots /\ a.streams = ag[l].streams /\ a.sends = ag[l].sends /\ a.sends \in Seq(Frames) /\ f \in Frames
    <3>1. ag[l] \in Slots /\ ag[l].jobs \in Seq(Frames) /\ ag[l].sends \in Seq(Frames)
      BY <1>1, SlotFields
    <3>2. Tail(ag[l].jobs) \in Seq(Frames) /\ f \in Frames
      BY <2>1, <3>1, QueueType
    <3> QED
      BY <3>1, <3>2 DEF Slots
  <2>3. l = m => Has(ag[m].jobs, {f})
    BY <1>1, <2>1, HasLess
  <2> HIDE DEF a, f
  <2>4. CASE Pass(l, f, a)
    <3>1. CASE l # m
      <4>1. \E b : ag' = [ag EXCEPT ![l] = b]
        BY <2>4 DEF Pass
      <4> QED
        BY <1>15, <2>4, <3>1, <4>1 DEF Pass, netVars
    <3>2. CASE l = m
      <4>1. f.t # "abandon"
        <5>1. SUFFICES ASSUME f.t = "abandon" PROVE FALSE
          OBVIOUS
        <5>2. f \in Ending
          BY <2>2, <5>1, FrameFacts DEF Bare, Ending
        <5> QED
          BY <1>16, <2>3, <3>2, <5>2 DEF Carries, Has
      <4> QED
        BY <1>13, <2>2, <2>4, <4>1 DEF Pass, netVars
    <3> QED
      BY <3>1, <3>2
  <2>5. CASE Handshake(l, f, a)
    <3>1. CASE f.t = "init" /\ Accepted # 0
      <4> DEFINE b == [a EXCEPT !.cur = f, !.gen = Accepted]
      <4>1. ag' = [ag EXCEPT ![l] = b] /\ UNCHANGED dn
        BY <2>5, <3>1 DEF Handshake, netVars
      <4>2. b.sends = a.sends /\ b.streams = a.streams
        BY <2>2 DEF Slots
      <4> HIDE DEF b
      <4> QED
        BY <1>13, <2>2, <4>1, <4>2
    <3>2. CASE ~(f.t = "init" /\ Accepted # 0)
      BY <1>14, <2>5, <3>2 DEF Handshake
    <3> QED
      BY <3>1, <3>2
  <2>6. CASE Fatal(l, f, a)
    <3> DEFINE q == a.sends \o <<Frame("closeall"), Frame("drop")>>
               b == [a EXCEPT !.slot = "dead", !.sends = q]
    <3>1. ag' = [ag EXCEPT ![l] = b] /\ UNCHANGED dn
      BY <2>6 DEF Fatal, netVars
    <3>2. b.sends = q
      BY <2>2 DEF Slots
    <3> HIDE DEF b
    <3>3. CASE l = m
      <4>1. ag'[m].sends = q /\ dn'[m] = dn[m]
        BY <1>1, <3>1, <3>2, <3>3
      <4>2. ag'[m].sends = ag[m].sends \o <<Frame("closeall"), Frame("drop")>>
        BY <2>2, <3>3, <4>1
      <4> QED
        BY <4>1, <4>2 DEF BackMove
    <3>4. CASE l # m
      BY <1>15, <3>1, <3>4
    <3> QED
      BY <3>3, <3>4
  <2>7. CASE DropStream(l, f, a)
    <3> DEFINE b == [a EXCEPT !.streams = @ \ {f.x}]
    <3>1. ag' = [ag EXCEPT ![l] = b] /\ UNCHANGED dn
      BY <2>7 DEF DropStream, netVars
    <3>2. b.streams = a.streams \ {f.x} /\ b.sends = a.sends
      BY <2>2 DEF Slots
    <3> HIDE DEF b
    <3>3. CASE l = m
      <4>1. f.x # s
        <5>1. SUFFICES ASSUME f.x = s PROVE FALSE
          OBVIOUS
        <5>2. f = Close(s)
          BY <2>2, <2>7, <5>1, FrameFacts DEF DropStream, Close
        <5>3. Carries(m, {Close(s)})
          BY <2>3, <3>3, <5>2 DEF Carries
        <5> QED
          BY <2>1, <5>3 DEF CloseIsLast
      <4>2. ag'[m] = b /\ dn'[m] = dn[m]
        BY <1>1, <3>1, <3>3
      <4>3. s \notin ag[m].streams /\ ag'[m].sends = ag[m].sends
        BY <2>2, <3>2, <3>3, <4>1, <4>2
      <4> QED
        BY <4>2, <4>3 DEF BackMove
    <3>4. CASE l # m
      BY <1>15, <3>1, <3>4
    <3> QED
      BY <3>3, <3>4
  <2>8. CASE Begin(l, f, a)
    <3> DEFINE n == IF a.gen = PairingOnly THEN a.served + 1 ELSE a.served
               b == [a EXCEPT !.cur = Reply(f.x, MayRun(l, f.x)), !.served = n]
    <3>1. ag' = [ag EXCEPT ![l] = b] /\ UNCHANGED dn
      BY <2>8 DEF Begin, netVars
    <3> HIDE DEF n
    <3>2. b.sends = a.sends /\ b.streams = a.streams
      BY <2>2 DEF Slots
    <3> HIDE DEF b
    <3> QED
      BY <1>13, <2>2, <3>1, <3>2
  <2> QED
    BY <2>1, <2>4, <2>5, <2>6, <2>7, <2>8
<1>18. ASSUME NEW l \in Lines, Handshaken(l) PROVE BackMove(m, s)
  <2>1. ag'[m].sends = ag[m].sends /\ ag'[m].streams = ag[m].streams
    BY <1>1, <1>18 DEF Handshaken, Slots
  <2>2. dn'[m] = dn[m] \/ dn'[m] = dn[m] \o <<Frame("reply"), Frame("confirm")>>
    BY <1>1, <1>18 DEF Handshaken
  <2> QED
    BY <2>1, <2>2 DEF BackMove
<1>19. ASSUME NEW l \in Lines, Done(l) PROVE BackMove(m, s)
  <2> DEFINE y == ag[l].cur.x
             ok == ag[l].cur.ok /\ (y = Pair => token)
             S == IF ok /\ y \in Subs THEN ag[l].streams \cup {y} ELSE ag[l].streams
             q == Append(ag[l].sends, Reply(y, ok))
             b == [ag[l] EXCEPT !.cur = Frame("sending"), !.streams = S, !.sends = q]
  <2>1. ag' = [ag EXCEPT ![l] = b] /\ UNCHANGED dn /\ ag[l].cur.t = "response"
    BY <1>19 DEF Done, netVars
  <2>2. ag[l] \in Slots /\ ag[l].sends \in Seq(Frames) /\ ag[l].cur \in Frames
    BY <1>1, SlotFields
  <2>3. y \in Things /\ ag[l].cur.ok \in BOOLEAN
    BY <2>1, <2>2, FrameFacts
  <2>4. ok \in BOOLEAN
    BY <2>3
  <2> HIDE DEF ok, y
  <2>5. Reply(y, ok) \in Frames
    BY <2>3, <2>4, FrameFacts
  <2>6. Reply(y, ok) \in Begun(s) => ok /\ y = s
    BY DEF Reply, Begun
  <2>7. (ok /\ y = s => s \in S) /\ ag[l].streams \subseteq S
    OBVIOUS
  <2> HIDE DEF q, S
  <2>8. b.sends = q /\ b.streams = S
    BY <2>2 DEF Slots
  <2> HIDE DEF b
  <2>9. CASE l = m
    <3>1. ag'[m] = b /\ dn'[m] = dn[m]
      BY <1>1, <2>1, <2>9
    <3>2. s \notin S
      BY <2>8, <3>1
    <3>3. Reply(y, ok) \in Frames \ Begun(s) /\ s \notin ag[m].streams
      BY <2>5, <2>6, <2>7, <2>9, <3>2
    <3>4. ag'[m].sends = Append(ag[m].sends, Reply(y, ok))
      BY <2>8, <2>9, <3>1 DEF q
    <3> QED
      BY <3>1, <3>3, <3>4 DEF BackMove
  <2>10. CASE l # m
    BY <1>15, <2>1, <2>10
  <2> QED
    BY <2>9, <2>10
<1>20. ASSUME NEW l \in Lines, TooLarge(l) PROVE BackMove(m, s)
  <2> DEFINE q == ag[l].sends \o <<Frame("closeall"), Frame("drop")>>
             b == [Abandoned(ag[l]) EXCEPT !.cur = Nothing, !.slot = "dead", !.sends = q]
  <2>0. ag[l] \in Slots /\ ag[l].sends \in Seq(Frames)
    BY <1>1, SlotFields
  <2>1. ag[l] \in Slots /\ ag[l].sends \in Seq(Frames) /\ Abandoned(ag[l]).sends = ag[l].sends
    BY <2>0 DEF Slots, Abandoned
  <2>2. ag' = [ag EXCEPT ![l] = b] /\ UNCHANGED dn
    BY <1>20, <2>1 DEF TooLarge, netVars
  <2> HIDE DEF q
  <2>3. b.sends = q
    BY <2>1 DEF Slots, Abandoned
  <2> HIDE DEF b
  <2>4. CASE l = m
    <3>1. ag'[m].sends = ag[m].sends \o <<Frame("closeall"), Frame("drop")>> /\ dn'[m] = dn[m]
      BY <1>1, <2>2, <2>3, <2>4 DEF q
    <3> QED
      BY <3>1 DEF BackMove
  <2>5. CASE l # m
    BY <1>15, <2>2, <2>5
  <2> QED
    BY <2>4, <2>5
<1>21. ASSUME NEW l \in Lines, NEW y \in Subs, Event(l, y) PROVE BackMove(m, s)
  <2> DEFINE g == Of("event", y)
             b == [ag[l] EXCEPT !.sends = Append(@, g)]
  <2>1. ag' = [ag EXCEPT ![l] = b] /\ UNCHANGED dn
    BY <1>21 DEF Event, netVars
  <2>2. g \in Frames \ Begun(s)
    BY <1>4, FrameFacts DEF Things
  <2> HIDE DEF g
  <2>3. b.sends = Append(ag[l].sends, g) /\ b.streams = ag[l].streams
    BY <1>1 DEF Slots
  <2> HIDE DEF b
  <2>4. CASE l = m
    <3>1. ag'[m] = b /\ dn'[m] = dn[m]
      BY <1>1, <2>1, <2>4
    <3> QED
      BY <2>2, <2>3, <2>4, <3>1 DEF BackMove
  <2>5. CASE l # m
    BY <1>15, <2>1, <2>5
  <2> QED
    BY <2>4, <2>5
<1>22. ASSUME NEW l \in Lines, PairingTTL(l) PROVE BackMove(m, s)
  BY <1>14, <1>22 DEF PairingTTL
<1>23. ASSUME NEW l \in Lines, Sealed(l) PROVE BackMove(m, s)
  <2> DEFINE f == Head(ag[l].sends)
             a == [ag[l] EXCEPT !.sends = Tail(@)]
  <2>1. /\ ag[l].sends # <<>>
        /\ NoEvent(l, f, a) \/ Answers(l, f, a) \/ Passes(l, f, a) \/ (f.t = "drop" /\ Dropped(l, a))
    BY <1>23 DEF Sealed
  <2>2. a \in Slots /\ a.streams = ag[l].streams /\ a.sends = Tail(ag[l].sends) /\ f \in Frames
        /\ a.gone = ag[l].gone
    <3>1. ag[l] \in Slots /\ ag[l].sends \in Seq(Frames)
      BY <1>1, SlotFields
    <3>2. Tail(ag[l].sends) \in Seq(Frames) /\ f \in Frames
      BY <2>1, <3>1, QueueType
    <3> QED
      BY <3>1, <3>2 DEF Slots
  <2>3. f = Head(ag[l].sends)
    OBVIOUS
  <2> HIDE DEF a, f
  <2>4. CASE Dropped(l, a)
    BY <1>14, <2>4
  <2>5. CASE l # m /\ ~Dropped(l, a)
    <3>1. \E b : ag' = [ag EXCEPT ![l] = b]
      BY <2>1, <2>5 DEF NoEvent, Answers, Passes
    <3>2. UNCHANGED dn \/ \E q : dn' = [dn EXCEPT ![l] = q]
      BY <2>1, <2>5 DEF NoEvent, Answers, Passes, GoesOut, netVars
    <3> QED
      BY <1>15, <2>5, <3>1, <3>2
  <2>6. CASE l = m /\ NoEvent(l, f, a)
    <3>0. f.t = "event" /\ dn'[m] = dn[m]
      BY <2>6 DEF NoEvent, netVars
    <3>1. f.x \in Things /\ f = Of("event", f.x)
      BY <2>2, <3>0, FrameFacts
    <3>2. f \notin Begun(s) \cup Ends(s)
      BY <1>4, <3>1
    <3>3. Of("close", f.x) \in Frames \ Begun(s)
      BY <1>4, <3>1, FrameFacts DEF Close
    <3>4. CASE f.x \in a.streams
      <4> DEFINE b == StreamEnds(a, f.x)
                 g == Of("close", f.x)
      <4>1. b.sends = Append(a.sends, g) /\ b.streams = a.streams \ {f.x}
        BY <2>2 DEF StreamEnds, Slots
      <4>2. ag'[m] = b
        BY <1>1, <2>6, <3>4 DEF NoEvent
      <4>3. s \notin ag[m].streams \/ g \in Ends(s)
        <5>1. f.x = s => g \in Ends(s)
          BY DEF Ends, Close
        <5> HIDE DEF b, g
        <5> QED
          BY <2>2, <2>6, <4>1, <4>2, <5>1
      <4> HIDE DEF b, g
      <4>4. ag'[m].sends = Append(Tail(ag[m].sends), g)
        BY <2>2, <2>6, <4>1, <4>2
      <4>5. g \in Frames \ Begun(s)
        BY <3>3 DEF g
      <4> QED
        BY <2>1, <2>3, <2>6, <3>0, <3>2, <4>3, <4>4, <4>5 DEF BackMove
    <3>5. CASE f.x \notin a.streams
      <4>1. ag'[m] = a
        BY <1>1, <2>6, <3>5 DEF NoEvent
      <4>2. ag'[m].sends = Tail(ag[m].sends) /\ s \notin ag[m].streams
        BY <2>2, <2>6, <4>1
      <4> QED
        BY <2>1, <2>3, <2>6, <3>0, <3>2, <4>2 DEF BackMove
    <3> QED
      BY <3>4, <3>5
  <2>7. ASSUME l = m, GoesOut(l, f, a) PROVE dn'[m] = Append(dn[m], Head(ag[m].sends))
    BY <1>1, <1>16, <2>2, <2>3, <2>7 DEF GoesOut
  <2>8. CASE l = m /\ Answers(l, f, a)
    <3> DEFINE c == [a EXCEPT !.cur = Nothing]
               b == OneShot(c)
    <3>1. c.sends = a.sends /\ c.streams = a.streams /\ c.gen = a.gen
      BY <2>2 DEF Slots
    <3>2. \/ b.sends = a.sends /\ b.streams = a.streams
          \/ b.sends = Append(a.sends, Frame("closeall"))
      <4>1. [Abandoned(c) EXCEPT !.sends = Append(@, Frame("closeall"))].sends = Append(a.sends, Frame("closeall"))
        BY <2>2 DEF Slots, Abandoned
      <4> HIDE DEF c
      <4> QED
        BY <3>1, <4>1 DEF OneShot
    <3>3. ag'[m] = b
      BY <1>1, <2>8 DEF Answers
    <3>4. dn'[m] = Append(dn[m], Head(ag[m].sends))
      BY <2>7, <2>8 DEF Answers
    <3> HIDE DEF b
    <3>5. \/ ag'[m].sends = Tail(ag[m].sends) /\ s \notin ag[m].streams
          \/ ag'[m].sends = Append(Tail(ag[m].sends), Frame("closeall"))
      BY <2>2, <2>8, <3>2, <3>3
    <3> QED
      BY <2>1, <2>8, <3>4, <3>5 DEF BackMove
  <2>9. CASE l = m /\ Passes(l, f, a)
    <3>1. ag'[m] = a
      BY <1>1, <2>9 DEF Passes
    <3>2. dn'[m] = Append(dn[m], Head(ag[m].sends))
      BY <2>7, <2>9 DEF Passes
    <3>3. ag'[m].sends = Tail(ag[m].sends) /\ s \notin ag[m].streams
      BY <2>2, <2>9, <3>1
    <3> QED
      BY <2>1, <2>9, <3>2, <3>3 DEF BackMove
  <2> QED
    BY <2>1, <2>4, <2>5, <2>6, <2>8, <2>9
<1>24. ASSUME NEW l \in Lines, Receive(l) PROVE BackMove(m, s)
  <2>1. UNCHANGED ag /\ dn[l] # <<>>
    BY <1>24, ReceiveRoute DEF Receive
  <2>2. CASE Dead(l)
    BY <1>3, <2>1, <2>2 DEF Dead
  <2>3. CASE ~Dead(l)
    <3> DEFINE f == Head(dn[l])
               p == ph[l].phase
    <3>1. dn' = [dn EXCEPT ![l] = Tail(@)]
      BY <1>24, <2>3, Zenon DEF Receive
    <3>2. CASE l # m
      BY <1>1, <1>2, <2>1, <3>1, <3>2
    <3>3. CASE l = m
      <4>0. f \in Frames
        BY <1>1, <2>1, <3>3, QueueType
      <4>1. \/ f.t \in {"reply", "confirm", "response", "event"}
            \/ f.t = "close" /\ ph' = [ph EXCEPT ![l].subs = @ \ {f.x}]
        BY <1>24, <2>3 DEF Receive
      <4> HIDE DEF f, p
      <4>2. f \notin Ends(s)
        <5>1. SUFFICES ASSUME f \in Ends(s) PROVE FALSE
          OBVIOUS
        <5>2. f.t \in {"close", "closeall"}
          BY <5>1 DEF Ends, Close, Of, Frame
        <5>3. f.t = "close" /\ ph' = [ph EXCEPT ![l].subs = @ \ {f.x}]
          BY <4>1, <5>2
        <5>4. f.x = s
          BY <5>1, <5>3 DEF Ends, Close, Of, Frame
        <5>5. s \notin ph'[m].subs
          BY <1>1, <3>3, <5>3, <5>4 DEF Phones
        <5> QED
          BY <5>5
      <4>3. dn'[m] = Tail(dn[m]) /\ Head(dn[m]) \notin Ends(s)
        BY <1>1, <3>1, <3>3, <4>2 DEF f
      <4> QED
        BY <1>24, <2>1, <3>3, <4>3 DEF BackMove
    <3> QED
      BY <3>2, <3>3
  <2> QED
    BY <2>2, <2>3
<1>25. CASE UNCHANGED vars
  BY <1>3, <1>25 DEF vars, netVars
<1> QED
  BY <1>6, <1>7, <1>8, <1>9, <1>10, <1>11, <1>12, <1>17, <1>18, <1>19, <1>20, <1>21, <1>22, <1>23, <1>24,
     <1>25 DEF Next, Act, PhoneStep, AgentStep

(* Followed, of queues that frames join or leave.                          *)
LEMMA FollowedFacts ==
  ASSUME NEW F, NEW G, NEW q \in Seq(Frames)
  PROVE  /\ ~Has(q, F) => Followed(q, F, G)
         /\ \A f \in Frames \ F : Followed(q, F, G) => Followed(Append(q, f), F, G)
         /\ \A f \in Frames : f \in G \ F => Followed(Append(q, f), F, G)
         /\ q # <<>> /\ Followed(q, F, G) => Followed(Tail(q), F, G)
         /\ q # <<>> /\ Followed(q, F, G) /\ Head(q) \in F => Has(Tail(q), G)
<1>1. ~Has(q, F) => Followed(q, F, G)
  BY DEF Has, Followed
<1>2. \A f \in Frames \ F : Followed(q, F, G) => Followed(Append(q, f), F, G)
  BY Joins
<1>3. \A f \in Frames : f \in G \ F => Followed(Append(q, f), F, G)
  BY Joins
<1>4. q # <<>> /\ Followed(q, F, G) => Followed(Tail(q), F, G) /\ (Head(q) \in F => Has(Tail(q), G))
  BY Leaves
<1> QED
  BY <1>1, <1>2, <1>3, <1>4

(* As long as the agent holds the stream or what it sends is in order,     *)
(* what it sends stays in order; an end that is told stays told until the  *)
(* phone takes it in.                                                      *)
LEMMA BackOrder ==
  ASSUME TypeOK, NEW m \in Lines, NEW s \in Subs, BackMove(m, s),
         \/ s \in ag[m].streams
         \/ /\ Followed(ag[m].sends, Begun(s), Ends(s))
            /\ Has(ag[m].sends, Ends(s)) \/ Followed(dn[m], Begun(s), Ends(s))
  PROVE  /\ Followed(ag'[m].sends, Begun(s), Ends(s))
         /\ Has(ag'[m].sends, Ends(s)) \/ Followed(dn'[m], Begun(s), Ends(s))
         /\ s \in ag[m].streams \/ Has(ag[m].sends, Ends(s)) \/ Has(dn[m], Ends(s))
              => Has(ag'[m].sends, Ends(s)) \/ Has(dn'[m], Ends(s))
<1> DEFINE q == ag[m].sends
           q2 == ag'[m].sends
           d == dn[m]
           d2 == dn'[m]
           old == s \notin ag[m].streams
           F == Begun(s)
           G == Ends(s)
           Goal == /\ Followed(q2, F, G)
                   /\ Has(q2, G) \/ Followed(d2, F, G)
                   /\ ~old \/ Has(q, G) \/ Has(d, G) => Has(q2, G) \/ Has(d2, G)
<1>1. q \in Seq(Frames) /\ d \in Seq(Frames)
  BY SlotFields DEF TypeOK
<1>2. /\ Frame("closeall") \in Frames /\ Frame("closeall") \in G \ F
      /\ \A t \in {"drop", "reply", "confirm"} : Frame(t) \in Frames \ F
  BY FrameFacts DEF Bare, Begun, Ends, Frame, Reply
<1>3. F \cap G = {}
  BY DEF Begun, Ends, Close, Of, Frame, Reply
<1>4. \/ old /\ q2 = q /\ d2 = d
      \/ d2 = d /\ \E f \in Frames \ F : q2 = Append(q, f) /\ old
      \/ d2 = d /\ q2 = q \o <<Frame("closeall"), Frame("drop")>>
      \/ old /\ q2 = q /\ d2 = d \o <<Frame("reply"), Frame("confirm")>>
      \/ q # <<>> /\ Head(q) \notin F \cup G /\ d2 = d /\ q2 = Tail(q) /\ old
      \/ q # <<>> /\ Head(q) \notin F \cup G /\ d2 = d
         /\ \E f \in Frames \ F : q2 = Append(Tail(q), f) /\ (old \/ f \in G)
      \/ q # <<>> /\ d2 = Append(d, Head(q)) /\ q2 = Tail(q) /\ old
      \/ q # <<>> /\ d2 = Append(d, Head(q)) /\ q2 = Append(Tail(q), Frame("closeall"))
      \/ d # <<>> /\ Head(d) \notin G /\ d2 = Tail(d) /\ q2 = q /\ old
  BY DEF BackMove
<1>5. old => Followed(q, F, G) /\ (Has(q, G) \/ Followed(d, F, G))
  OBVIOUS
<1>6. q # <<>> => Tail(q) \in Seq(Frames) /\ Head(q) \in Frames
  BY <1>1, QueueType
<1>7. d # <<>> => Tail(d) \in Seq(Frames) /\ Head(d) \in Frames
  BY <1>1, QueueType
<1> SUFFICES Goal
  OBVIOUS
<1>8. ASSUME NEW u \in Seq(Frames)
      PROVE  /\ \A f \in Frames : Has(Append(u, f), G) <=> (Has(u, G) \/ f \in G)
             /\ \A f \in Frames \ F : Followed(u, F, G) => Followed(Append(u, f), F, G)
             /\ \A f \in Frames : f \in G \ F => Followed(Append(u, f), F, G)
             /\ u # <<>> /\ Followed(u, F, G) => Followed(Tail(u), F, G)
             /\ u # <<>> /\ Followed(u, F, G) /\ Head(u) \in F => Has(Tail(u), G)
             /\ u # <<>> => (Has(u, G) <=> (Head(u) \in G \/ Has(Tail(u), G)))
  BY HasMore, HasLess, FollowedFacts
<1> HIDE DEF q, q2, d, d2, old, F, G
<1>9. CASE old /\ q2 = q /\ d2 = d
  BY <1>5, <1>9
<1>10. CASE d2 = d /\ \E f \in Frames \ F : q2 = Append(q, f) /\ old
  BY <1>1, <1>5, <1>8, <1>10
<1>11. CASE d2 = d /\ q2 = q \o <<Frame("closeall"), Frame("drop")>>
  <2> DEFINE u == Append(q, Frame("closeall"))
  <2>1. q2 = Append(u, Frame("drop")) /\ u \in Seq(Frames)
    BY <1>1, <1>2, <1>11, InTurn
  <2>2. Has(u, G) /\ Followed(u, F, G)
    BY <1>1, <1>2, <1>8
  <2> HIDE DEF u
  <2>3. Has(q2, G) /\ Followed(q2, F, G)
    BY <1>2, <1>8, <2>1, <2>2
  <2> QED
    BY <2>3
<1>12. CASE old /\ q2 = q /\ d2 = d \o <<Frame("reply"), Frame("confirm")>>
  <2> DEFINE u == Append(d, Frame("reply"))
  <2>1. d2 = Append(u, Frame("confirm")) /\ u \in Seq(Frames)
    BY <1>1, <1>2, <1>12, InTurn
  <2>2. (Has(d, G) => Has(u, G)) /\ (Followed(d, F, G) => Followed(u, F, G))
    BY <1>1, <1>2, <1>8
  <2> HIDE DEF u
  <2>3. (Has(u, G) => Has(d2, G)) /\ (Followed(u, F, G) => Followed(d2, F, G))
    BY <1>2, <1>8, <2>1
  <2> QED
    BY <1>5, <1>12, <2>2, <2>3
<1>13. CASE q # <<>> /\ Head(q) \notin F \cup G /\ d2 = d /\ q2 = Tail(q) /\ old
  BY <1>1, <1>5, <1>8, <1>13
<1>14. CASE q # <<>> /\ Head(q) \notin F \cup G /\ d2 = d
            /\ \E f \in Frames \ F : q2 = Append(Tail(q), f) /\ (old \/ f \in G)
  <2>1. PICK f \in Frames \ F : q2 = Append(Tail(q), f) /\ (old \/ f \in G)
    BY <1>14
  <2>2. old => Followed(Tail(q), F, G) /\ (Has(Tail(q), G) \/ Followed(d, F, G))
               /\ (Has(q, G) => Has(Tail(q), G))
    BY <1>1, <1>5, <1>8, <1>14
  <2>3. /\ Has(q2, G) <=> (Has(Tail(q), G) \/ f \in G)
        /\ Followed(Tail(q), F, G) => Followed(q2, F, G)
        /\ f \in G => Followed(q2, F, G)
    BY <1>6, <1>8, <1>14, <2>1
  <2> QED
    BY <1>14, <2>1, <2>2, <2>3
<1>15. CASE q # <<>> /\ d2 = Append(d, Head(q)) /\ q2 = Tail(q) /\ old
  <2>1. Has(d2, G) <=> (Has(d, G) \/ Head(q) \in G)
    BY <1>1, <1>6, <1>8, <1>15
  <2>2. Has(q, G) <=> (Head(q) \in G \/ Has(q2, G))
    BY <1>1, <1>8, <1>15
  <2>3. Followed(q2, F, G) /\ (Head(q) \in F => Has(q2, G))
    BY <1>1, <1>5, <1>8, <1>15
  <2>4. Head(q) \in G => Followed(d2, F, G)
    BY <1>1, <1>3, <1>6, <1>8, <1>15
  <2>5. Head(q) \notin F /\ Followed(d, F, G) => Followed(d2, F, G)
    BY <1>1, <1>6, <1>8, <1>15
  <2> QED
    BY <1>5, <1>15, <2>1, <2>2, <2>3, <2>4, <2>5
<1>16. CASE q # <<>> /\ d2 = Append(d, Head(q)) /\ q2 = Append(Tail(q), Frame("closeall"))
  <2>1. Has(q2, G) /\ Followed(q2, F, G)
    BY <1>2, <1>6, <1>8, <1>16
  <2> QED
    BY <2>1
<1>17. CASE d # <<>> /\ Head(d) \notin G /\ d2 = Tail(d) /\ q2 = q /\ old
  BY <1>1, <1>5, <1>8, <1>17
<1> QED
  BY <1>4, <1>9, <1>10, <1>11, <1>12, <1>13, <1>14, <1>15, <1>16, <1>17

(* A line of the agent is given up because it is closed; a stream begins   *)
(* with the good answer of its handler.                                    *)
SlotMove(m) ==
  /\ ag'[m].gone => ag[m].gone \/ m \in cut' \/ Carries(m, Ending)
  /\ \A s \in Subs : s \in ag'[m].streams => s \in ag[m].streams \/ ag[m].cur = Reply(s, TRUE)

LEMMA SlotMoves ==
  ASSUME RouteInv, [Next]_vars, NEW m \in Lines
  PROVE  SlotMove(m)
<1>1. /\ ag \in [Lines -> Slots] /\ up \in [Lines -> Seq(Frames)] /\ ag[m] \in Slots
  BY DEF RouteInv, TypeOK
<1>2. ASSUME ag'[m] = ag[m] PROVE SlotMove(m)
  BY <1>2 DEF SlotMove
<1>3. ASSUME NEW l \in Lines, NEW b, ag' = [ag EXCEPT ![l] = b],
             b.gone = ag[l].gone, b.streams \subseteq ag[l].streams
      PROVE  SlotMove(m)
  <2>1. l = m => ag'[m] = b
    BY <1>1, <1>3
  <2>2. l # m => ag'[m] = ag[m]
    BY <1>1, <1>3
  <2> QED
    BY <1>2, <1>3, <2>1, <2>2 DEF SlotMove
<1>4. ASSUME Ensure PROVE SlotMove(m)
  <2>1. UNCHANGED ag \/ ag' = [ag EXCEPT ![made + 1].slot = "fresh"]
    BY <1>4 DEF Ensure
  <2>2. ag'[m].gone = ag[m].gone /\ ag'[m].streams = ag[m].streams
    <3>1. CASE ag' = [ag EXCEPT ![made + 1].slot = "fresh"] /\ m = made + 1
      BY <1>1, <3>1 DEF Slots
    <3>2. CASE ag'[m] = ag[m]
      BY <3>2
    <3> QED
      BY <1>1, <2>1, <3>1, <3>2
  <2> QED
    BY <2>2 DEF SlotMove
<1>5. CASE Act
  <2>1. UNCHANGED ag \/ Ensure
    BY <1>5 DEF Act, Ask, KeyMissing, TakeoverNext, Leave, Subscribe, Unsubscribe
  <2> QED
    BY <1>2, <1>4, <2>1
<1>6. ASSUME NEW l \in Lines, Send(l) \/ Receive(l) \/ HandshakeTimeout(l) \/ Break(l) PROVE SlotMove(m)
  <2>1. UNCHANGED ag
    <3>1. CASE Receive(l)
      BY <3>1, ReceiveRoute
    <3> QED
      BY <1>6, <3>1 DEF Send, HandshakeTimeout, Break, Dead
  <2> QED
    BY <1>2, <2>1
<1>7. CASE (\E r \in AllReqs : RequestTimeout(r)) \/ Revoke \/ PairElsewhere \/ TokenExpires \/ UNCHANGED vars
  <2>1. UNCHANGED ag
    BY <1>7 DEF RequestTimeout, Dead, Revoke, PairElsewhere, TokenExpires, vars
  <2> QED
    BY <1>2, <2>1
<1>8. CASE LinkDown
  <2>1. ag'[m] = ag[m] \/ (m \in cut' /\ ag'[m] = Gone(ag[m]))
    BY <1>8 DEF LinkDown
  <2>2. Gone(ag[m]).streams = ag[m].streams
    BY <1>1 DEF Gone, Slots
  <2> QED
    BY <1>2, <2>1, <2>2 DEF SlotMove
<1>9. ASSUME NEW l \in Lines, Arrive(l) PROVE SlotMove(m)
  <2> DEFINE f == Head(up[l])
             b == [ag[l] EXCEPT !.jobs = Append(@, f)]
  <2>0. up[l] # <<>>
    BY <1>9 DEF Arrive
  <2>1. f \in Frames
    BY <1>1, <2>0, QueueType
  <2>2. \/ (ag' = [ag EXCEPT ![l] = Gone(ag[l])] /\ f.t = "closed") \/ ag' = ag \/ ag' = [ag EXCEPT ![l] = b]
    BY <1>1, <1>9 DEF Arrive
  <2>3. Gone(ag[l]).streams = ag[l].streams /\ b.streams = ag[l].streams /\ b.gone = ag[l].gone
    BY <1>1 DEF Gone, Slots
  <2> HIDE DEF b
  <2>4. CASE ag' = [ag EXCEPT ![l] = Gone(ag[l])] /\ f.t = "closed" /\ l = m
    <3>1. f = Frame("closed") /\ f = Head(up[l])
      <4> HIDE DEF f
      <4>1. f = Frame("closed")
        BY <2>1, <2>4, FrameFacts DEF Bare
      <4> QED
        BY <4>1 DEF f
    <3>2. Has(up[m], Ending)
      BY <1>1, <2>0, <2>4, <3>1, HasLess DEF Ending
    <3>3. ag'[m].streams = ag[m].streams
      BY <1>1, <2>3, <2>4
    <3> QED
      BY <3>2, <3>3 DEF SlotMove, Carries
  <2>5. CASE ag' = [ag EXCEPT ![l] = Gone(ag[l])] /\ l # m
    BY <1>1, <1>2, <2>5
  <2>6. CASE ag' = [ag EXCEPT ![l] = b]
    BY <1>3, <2>3, <2>6
  <2> QED
    BY <1>2, <2>2, <2>4, <2>5, <2>6
<1>10. ASSUME NEW l \in Lines, NEW b, Dropped(l, b), b.gone = ag[l].gone, b.streams \subseteq ag[l].streams
       PROVE  SlotMove(m)
  BY <1>3, <1>10 DEF Dropped
<1>11. ASSUME NEW l \in Lines, Job(l) PROVE SlotMove(m)
  <2> DEFINE f == Head(ag[l].jobs)
             a == [ag[l] EXCEPT !.jobs = Tail(@)]
  <2>1. Pass(l, f, a) \/ Handshake(l, f, a) \/ Fatal(l, f, a) \/ DropStream(l, f, a) \/ Begin(l, f, a)
    BY <1>11 DEF Job
  <2>2. a.streams = ag[l].streams /\ a.gone = ag[l].gone
    BY <1>1 DEF Slots
  <2>3. /\ \A c : [a EXCEPT !.slot = c].streams = a.streams /\ [a EXCEPT !.slot = c].gone = a.gone
        /\ \A c, d : /\ [a EXCEPT !.cur = c, !.gen = d].streams = a.streams
                     /\ [a EXCEPT !.cur = c, !.gen = d].gone = a.gone
                     /\ [a EXCEPT !.slot = c, !.sends = d].streams = a.streams
                     /\ [a EXCEPT !.slot = c, !.sends = d].gone = a.gone
                     /\ [a EXCEPT !.cur = c, !.served = d].streams = a.streams
                     /\ [a EXCEPT !.cur = c, !.served = d].gone = a.gone
        /\ [a EXCEPT !.streams = @ \ {f.x}].streams \subseteq a.streams
        /\ [a EXCEPT !.streams = @ \ {f.x}].gone = a.gone
        /\ Abandoned(a).streams \subseteq a.streams /\ Abandoned(a).gone = a.gone
    BY <1>1 DEF Slots, Abandoned
  <2> HIDE DEF a, f
  <2>4. CASE Pass(l, f, a)
    <3>1. ag' = [ag EXCEPT ![l] = Abandoned(a)] \/ ag' = [ag EXCEPT ![l] = a]
      BY <2>4 DEF Pass
    <3> QED
      BY <1>3, <2>2, <2>3, <3>1
  <2>5. CASE Handshake(l, f, a)
    <3>1. CASE ag' = [ag EXCEPT ![l] = [a EXCEPT !.cur = f, !.gen = Accepted]]
      BY <1>3, <2>2, <2>3, <3>1
    <3>2. CASE Dropped(l, [a EXCEPT !.slot = "dead"])
      BY <1>10, <2>2, <2>3, <3>2
    <3> QED
      BY <2>5, <3>1, <3>2 DEF Handshake
  <2>6. CASE Fatal(l, f, a)
    <3> DEFINE q == a.sends \o <<Frame("closeall"), Frame("drop")>>
    <3>1. ag' = [ag EXCEPT ![l] = [a EXCEPT !.slot = "dead", !.sends = q]]
      BY <2>6 DEF Fatal
    <3> HIDE DEF q
    <3> QED
      BY <1>3, <2>2, <2>3, <3>1
  <2>7. CASE DropStream(l, f, a)
    BY <1>3, <2>2, <2>3, <2>7 DEF DropStream
  <2>8. CASE Begin(l, f, a)
    <3> DEFINE n == IF a.gen = PairingOnly THEN a.served + 1 ELSE a.served
    <3>1. ag' = [ag EXCEPT ![l] = [a EXCEPT !.cur = Reply(f.x, MayRun(l, f.x)), !.served = n]]
      BY <2>8 DEF Begin
    <3> HIDE DEF n
    <3> QED
      BY <1>3, <2>2, <2>3, <3>1
  <2> QED
    BY <2>1, <2>4, <2>5, <2>6, <2>7, <2>8
<1>12. ASSUME NEW l \in Lines, Handshaken(l) PROVE SlotMove(m)
  <2>1. ag'[m].gone = ag[m].gone /\ ag'[m].streams = ag[m].streams
    BY <1>1, <1>12 DEF Handshaken, Slots
  <2> QED
    BY <2>1 DEF SlotMove
<1>13. ASSUME NEW l \in Lines, Done(l) PROVE SlotMove(m)
  <2> DEFINE y == ag[l].cur.x
             ok == ag[l].cur.ok /\ (y = Pair => token)
             S == IF ok /\ y \in Subs THEN ag[l].streams \cup {y} ELSE ag[l].streams
             q == Append(ag[l].sends, Reply(y, ok))
             b == [ag[l] EXCEPT !.cur = Frame("sending"), !.streams = S, !.sends = q]
  <2>1. ag' = [ag EXCEPT ![l] = b] /\ ag[l].cur.t = "response"
    BY <1>13 DEF Done
  <2>2. ag[l] \in Slots /\ ag[l].cur \in Frames
    BY <1>1, SlotFields
  <2>3. ag[l].cur.ok \in BOOLEAN /\ ag[l].cur = Reply(y, ag[l].cur.ok)
    BY <2>1, <2>2, FrameFacts
  <2>4. \A s \in S \ ag[l].streams : s = y /\ ag[l].cur.ok
    OBVIOUS
  <2> HIDE DEF y, q, S
  <2>5. b.gone = ag[l].gone /\ b.streams = S
    BY <2>2 DEF Slots
  <2> HIDE DEF b
  <2>6. \A s \in S : s \in ag[l].streams \/ ag[l].cur = Reply(s, TRUE)
    BY <2>3, <2>4
  <2>7. CASE l = m
    BY <1>1, <2>1, <2>5, <2>6, <2>7 DEF SlotMove
  <2>8. CASE l # m
    BY <1>1, <1>2, <2>1, <2>8
  <2> QED
    BY <2>7, <2>8
<1>14. ASSUME NEW l \in Lines, TooLarge(l) \/ PairingTTL(l) \/ \E x \in Subs : Event(l, x) PROVE SlotMove(m)
  <2>1. CASE TooLarge(l)
    <3> DEFINE q == ag[l].sends \o <<Frame("closeall"), Frame("drop")>>
               b == [Abandoned(ag[l]) EXCEPT !.cur = Nothing, !.slot = "dead", !.sends = q]
    <3>1. ag[l] \in Slots
      BY <1>1
    <3>2. ag' = [ag EXCEPT ![l] = b]
      <4>1. Abandoned(ag[l]).sends = ag[l].sends
        BY <3>1 DEF Slots, Abandoned
      <4> QED
        BY <2>1, <4>1 DEF TooLarge
    <3> HIDE DEF q
    <3>3. b.gone = ag[l].gone /\ b.streams = {}
      BY <3>1 DEF Slots, Abandoned
    <3> HIDE DEF b
    <3> QED
      BY <1>3, <3>2, <3>3
  <2>2. CASE PairingTTL(l)
    <3> DEFINE b == [ag[l] EXCEPT !.slot = "dead", !.jobs = Append(@, Frame("abandon"))]
    <3>1. Dropped(l, b)
      BY <2>2 DEF PairingTTL
    <3>2. b.gone = ag[l].gone /\ b.streams = ag[l].streams
      BY <1>1 DEF Slots
    <3> HIDE DEF b
    <3> QED
      BY <1>10, <3>1, <3>2
  <2>3. ASSUME NEW x \in Subs, Event(l, x) PROVE SlotMove(m)
    <3> DEFINE b == [ag[l] EXCEPT !.sends = Append(@, Of("event", x))]
    <3>1. ag' = [ag EXCEPT ![l] = b]
      BY <2>3 DEF Event
    <3>2. b.gone = ag[l].gone /\ b.streams = ag[l].streams
      BY <1>1 DEF Slots
    <3> HIDE DEF b
    <3> QED
      BY <1>3, <3>1, <3>2
  <2> QED
    BY <1>14, <2>1, <2>2, <2>3
<1>15. ASSUME NEW l \in Lines, Sealed(l) PROVE SlotMove(m)
  <2> DEFINE f == Head(ag[l].sends)
             a == [ag[l] EXCEPT !.sends = Tail(@)]
  <2>1. NoEvent(l, f, a) \/ Answers(l, f, a) \/ Passes(l, f, a) \/ (f.t = "drop" /\ Dropped(l, a))
    BY <1>15 DEF Sealed
  <2>2. a.streams = ag[l].streams /\ a.gone = ag[l].gone
    BY <1>1 DEF Slots
  <2>3. StreamEnds(a, f.x).streams \subseteq a.streams /\ StreamEnds(a, f.x).gone = a.gone
    BY <1>1 DEF StreamEnds, Slots
  <2>4. LET b == OneShot([a EXCEPT !.cur = Nothing]) IN b.streams \subseteq a.streams /\ b.gone = a.gone
    <3> DEFINE c == [a EXCEPT !.cur = Nothing]
    <3>1. c.streams = a.streams /\ c.gone = a.gone
      BY <1>1 DEF Slots
    <3>2. /\ [Abandoned(c) EXCEPT !.sends = Append(@, Frame("closeall"))].streams = {}
          /\ [Abandoned(c) EXCEPT !.sends = Append(@, Frame("closeall"))].gone = a.gone
      BY <1>1 DEF Slots, Abandoned
    <3> HIDE DEF c
    <3>3. OneShot(c).streams \subseteq a.streams /\ OneShot(c).gone = a.gone
      BY <3>1, <3>2 DEF OneShot
    <3> QED
      BY <3>3 DEF c
  <2> HIDE DEF a, f
  <2>5. CASE NoEvent(l, f, a)
    BY <1>3, <2>2, <2>3, <2>5 DEF NoEvent
  <2>6. CASE Answers(l, f, a)
    BY <1>3, <2>2, <2>4, <2>6 DEF Answers
  <2>7. CASE Passes(l, f, a)
    BY <1>3, <2>2, <2>7 DEF Passes
  <2>8. CASE Dropped(l, a)
    BY <1>10, <2>2, <2>8
  <2> QED
    BY <2>1, <2>5, <2>6, <2>7, <2>8
<1> QED
  BY <1>5, <1>6, <1>7, <1>8, <1>9, <1>11, <1>12, <1>13, <1>14, <1>15 DEF Next, PhoneStep, AgentStep

-----------------------------------------------------------------------------
(* The invariant holds.                                                    *)

LEMMA EndingStep ==
  ASSUME RouteInv, EndingInOrder, [Next]_vars
  PROVE  EndingInOrder'
<1> SUFFICES ASSUME NEW m \in Lines, m \notin cut'
             PROVE  ~ag'[m].gone /\ ~Carries(m, Ending)'
  BY DEF EndingInOrder
<1>1. m \notin cut /\ ~ag[m].gone /\ ~Carries(m, Ending)
  BY LinesClosed DEF RouteInv, EndingInOrder
<1>2. Frame("init") \notin Ending /\ \A x \in Things : Request(x) \notin Ending /\ Close(x) \notin Ending
  BY DEF Ending, Frame, Request, Close, Of
<1>3. Keeps(m, Ending)
  BY <1>1, <1>2, PathStep DEF Things, Wanted, Waiting
<1>4. ~ag'[m].gone
  BY <1>1, SlotMoves DEF SlotMove
<1> QED
  BY <1>1, <1>3, <1>4 DEF Keeps

\* Whoever subscribes was not subscribed before, on this line.
LEMMA FirstAsked ==
  ASSUME RouteInv, [Next]_vars, NotYetAsked, NEW m \in Lines, NEW s \in Subs,
         \/ Subscribe(s) /\ live = m
         \/ Opened(m)
  PROVE  /\ ph'[m].phase = "open"
         /\ (s \in Wanted \/ Subscribe(s)) => screen'[s] # "new"
         /\ Subscribe(s) \/ ph[m].phase = "confirm" => Untouched(m, s)
<1>1. ph \in [Lines -> Phones] /\ screen \in [Subs -> {"new", "on", "off"}]
  BY DEF RouteInv, TypeOK
<1>2. CASE Subscribe(s) /\ live = m
  <2>1. live # 0 /\ ph[m].phase = "open"
    BY <1>2, InUse DEF Lines
  <2> DEFINE q == Append(ph[live].out, Of("request", s))
  <2>2. /\ ph' = [ph EXCEPT ![live].out = q, ![live].stops = @ \cup {s}, ![live].subs = @ \cup {s}]
        /\ screen[s] = "new" /\ screen' = [screen EXCEPT ![s] = "on"]
    BY <1>2, <2>1 DEF Subscribe
  <2> HIDE DEF q
  <2>3. ph'[m].phase = "open"
    BY <1>1, <1>2, <2>1, <2>2 DEF Phones
  <2> QED
    BY <1>1, <2>2, <2>3 DEF NotYetAsked, NotYet
<1>3. CASE Opened(m)
  <2> DEFINE q == Requests(Wanted) \o Requests(Waiting)
  <2>1. ph' = [ph EXCEPT ![m].phase = "open", ![m].stops = Wanted, ![m].subs = Wanted, ![m].out = q]
        /\ UNCHANGED screen
    BY <1>3 DEF Opened, Resubscribed
  <2> HIDE DEF q
  <2>2. ph'[m].phase = "open"
    BY <1>1, <2>1 DEF Phones
  <2>3. ~Subscribe(s)
    BY <1>1, <2>1 DEF Subscribe
  <2>4. s \in Wanted => screen[s] = "on"
    BY DEF Wanted
  <2> QED
    BY <2>1, <2>2, <2>3, <2>4 DEF NotYetAsked, NotYet
<1> QED
  BY <1>2, <1>3

LEMMA NotYetStep ==
  ASSUME RouteInv, NotYetAsked, [Next]_vars
  PROVE  NotYetAsked'
<1> SUFFICES ASSUME NEW m \in Lines, NEW s \in Subs, NotYet(m, s)' PROVE Untouched(m, s)'
  BY DEF NotYetAsked
<1>1. PhoneMove(m, s)
  BY PhoneStepMoves
<1>2. NotYet(m, s) /\ Untouched(m, s)
  BY <1>1 DEF PhoneMove, NotYet, NotYetAsked
<1>3. ~(Subscribe(s) /\ live = m) /\ (Opened(m) => s \notin Wanted)
  BY FirstAsked DEF NotYet
<1>4. s \in Things /\ s \notin AllReqs
  BY TunnelAssumption DEF Things
<1>5. s \notin ph'[m].stops \cup ph'[m].subs \cup ph'[m].conf
  BY <1>1, <1>2, <1>3 DEF PhoneMove, AskedNow, Untouched
<1>6. ag[m].cur # Reply(s, TRUE) /\ s \notin ag'[m].streams
  BY <1>2, SlotMoves DEF SlotMove, Untouched, Returns
<1>7. ~Carries(m, {Request(s)})'
  <2> DEFINE F == {Request(s)}
  <2>1. /\ Frame("init") \notin F /\ Frame("closed") \notin F /\ Frame("abandon") \notin F
        /\ \A x : Request(x) \in F => x = s
        /\ \A x : Close(x) \notin F
    BY DEF Frame, Request, Close, Of
  <2>2. \A r \in AllReqs : Request(r) \notin F
    BY <1>4, <2>1
  <2>3. \A x \in Subs : Subscribe(x) /\ live = m => Request(x) \notin F
    BY <1>3, <2>1
  <2>4. Opened(m) => \A x \in Wanted \cup Waiting : Request(x) \notin F
    BY <1>3, <1>4, <2>1 DEF Waiting
  <2> HIDE DEF F
  <2>5. Keeps(m, F)
    BY <2>1, <2>2, <2>3, <2>4, PathStep
  <2> QED
    BY <1>2, <2>5 DEF F, Keeps, Untouched
<1>8. ~Carries(m, {Close(s)})'
  <2> DEFINE F == {Close(s)}
  <2>1. /\ Frame("init") \notin F /\ Frame("closed") \notin F /\ Frame("abandon") \notin F
        /\ \A x : Request(x) \notin F
        /\ \A x : Close(x) \in F => x = s
    BY DEF Frame, Request, Close, Of
  <2>2. ~(Unsubscribe(s) /\ live = m)
    <3>1. live = m => ph[m].phase = "open"
      BY InUse DEF Lines
    <3>2. Unsubscribe(s) => screen[s] = "on"
      BY DEF Unsubscribe
    <3> QED
      BY <1>2, <3>1, <3>2 DEF NotYet
  <2>3. \A x \in Subs : Unsubscribe(x) /\ live = m => Close(x) \notin F
    BY <2>1, <2>2
  <2> HIDE DEF F
  <2>4. Keeps(m, F)
    BY <2>1, <2>3, PathStep
  <2> QED
    BY <1>2, <2>4 DEF F, Keeps, Untouched
<1>9. ~Returns(m, Reply(s, TRUE))'
  <2> SUFFICES ASSUME Returns(m, Reply(s, TRUE))' PROVE FALSE
    OBVIOUS
  <2> DEFINE f == Head(ag[m].jobs)
             a == [ag[m] EXCEPT !.jobs = Tail(@)]
  <2>1. f.x = s /\ Begin(m, f, a) /\ Job(m)
    BY <1>2, <1>4, BackStep DEF Untouched
  <2>2. ag[m].jobs \in Seq(Frames) /\ ag[m].jobs # <<>> /\ f.t = "request"
    BY <2>1, SlotFields DEF Job, Begin, RouteInv, TypeOK
  <2>3. f \in Frames
    BY <2>2, QueueType
  <2>4. f = Request(s)
    <3> HIDE DEF f
    <3> QED
      BY <2>1, <2>2, <2>3, FrameFacts DEF Request
  <2>5. Has(ag[m].jobs, {Request(s)})
    BY <2>2, <2>4, HasLess
  <2> QED
    BY <1>2, <2>5 DEF Untouched, Carries
<1> QED
  BY <1>5, <1>6, <1>7, <1>8, <1>9 DEF Untouched

LEMMA CloseStep ==
  ASSUME RouteInv, NotYetAsked, CloseIsLast, [Next]_vars
  PROVE  CloseIsLast'
<1> SUFFICES ASSUME NEW m \in Lines, NEW s \in Subs, s \in ph'[m].subs PROVE ~Carries(m, {Close(s)})'
  BY DEF CloseIsLast
<1>1. ph \in [Lines -> Phones]
  BY DEF RouteInv, TypeOK
<1>2. ~Carries(m, {Close(s)})
  <2>1. CASE s \in ph[m].subs
    BY <2>1 DEF CloseIsLast
  <2>2. CASE s \notin ph[m].subs
    <3>1. PhoneMove(m, s)
      BY PhoneStepMoves
    <3> QED
      BY <2>2, <3>1, FirstAsked DEF PhoneMove, AskedNow, Untouched
  <2> QED
    BY <2>1, <2>2
<1>3. CASE Unsubscribe(s) /\ live = m
  <2>1. live # 0
    BY <1>3 DEF Lines
  <2>2. s \notin ph[m].stops
    <3>1. SUFFICES ASSUME s \in ph[m].stops PROVE FALSE
      OBVIOUS
    <3> DEFINE q == IF s \in ph[live].subs THEN Append(ph[live].out, Of("close", s)) ELSE ph[live].out
    <3>2. ph' = [ph EXCEPT ![live].stops = @ \ {s}, ![live].subs = @ \ {s}, ![live].out = q]
      BY <1>3, <2>1, <3>1 DEF Unsubscribe
    <3> HIDE DEF q
    <3>3. s \notin ph'[m].subs
      BY <1>1, <1>3, <3>2 DEF Phones
    <3> QED
      BY <3>3
  <2>3. UNCHANGED <<ph, up, ag>>
    BY <1>3, <2>2 DEF Unsubscribe, netVars
  <2> QED
    BY <1>2, <2>3 DEF Carries
<1>4. CASE ~(Unsubscribe(s) /\ live = m)
  <2> DEFINE F == {Close(s)}
  <2>1. /\ Frame("init") \notin F /\ Frame("closed") \notin F /\ Frame("abandon") \notin F
        /\ \A x : Request(x) \notin F
        /\ \A x : Close(x) \in F => x = s
    BY DEF Frame, Request, Close, Of
  <2>2. \A x \in Subs : Unsubscribe(x) /\ live = m => Close(x) \notin F
    BY <1>4, <2>1
  <2> HIDE DEF F
  <2>3. Keeps(m, F)
    BY <2>1, <2>2, PathStep
  <2> QED
    BY <1>2, <2>3 DEF F, Keeps
<1> QED
  BY <1>3, <1>4

LEMMA FollowStep ==
  ASSUME RouteInv, NotYetAsked, CloseIsLast, EndFollows, EndingInOrder, [Next]_vars
  PROVE  EndFollows'
<1> SUFFICES ASSUME NEW m \in Lines, NEW s \in Subs, ~Held(m, s)'
             PROVE  /\ Followed(ag'[m].sends, Begun(s), Ends(s))
                    /\ Has(ag'[m].sends, Ends(s)) \/ Followed(dn'[m], Begun(s), Ends(s))
                    /\ s \in ph'[m].conf => Has(ag'[m].sends, Ends(s)) \/ Has(dn'[m], Ends(s))
  BY DEF EndFollows
<1> DEFINE InTime == /\ Followed(ag[m].sends, Begun(s), Ends(s))
                     /\ Has(ag[m].sends, Ends(s)) \/ Followed(dn[m], Begun(s), Ends(s))
           Told == Has(ag[m].sends, Ends(s)) \/ Has(dn[m], Ends(s))
<1>1. s \notin ag'[m].streams /\ m \notin cut' /\ s \in ph'[m].subs
  BY DEF Held
<1>2. m \notin cut /\ ag[m].sends \in Seq(Frames) /\ dn[m] \in Seq(Frames) /\ TypeOK
  BY <1>1, LinesClosed, SlotFields DEF RouteInv, TypeOK
<1>3. PhoneMove(m, s)
  BY PhoneStepMoves
<1>4. CASE s \notin ph[m].subs
  <2>1. Untouched(m, s)
    BY <1>1, <1>3, <1>4, FirstAsked DEF PhoneMove, AskedNow
  <2>2. InTime
    BY <1>2, <2>1, FollowedFacts DEF Untouched, Returns, Begun
  <2>3. s \notin ph'[m].conf
    BY <1>3, <1>4, <2>1 DEF PhoneMove, Untouched
  <2> QED
    BY <1>1, <1>2, <2>2, <2>3, BackMoves, BackOrder
<1>5. CASE s \in ph[m].subs
  <2>1. s \in ag[m].streams \/ (InTime /\ (s \in ph[m].conf => Told))
    BY <1>2, <1>5 DEF EndFollows, Held
  <2>2. BackMove(m, s)
    BY <1>1, BackMoves
  <2>3. CASE s \in ph'[m].conf /\ s \notin ph[m].conf
    <3>1. /\ dn[m] # <<>> /\ Head(dn[m]) \in Begun(s)
          /\ dn'[m] = Tail(dn[m]) /\ ag'[m] = ag[m]
      BY <1>3, <2>3 DEF PhoneMove, Begun
    <3>2. InTime
      BY <1>1, <2>1, <3>1
    <3>3. Has(ag'[m].sends, Ends(s)) \/ Has(dn'[m], Ends(s))
      BY <1>2, <3>1, <3>2, FollowedFacts
    <3> QED
      BY <1>2, <2>2, <3>2, <3>3, BackOrder
  <2>4. CASE s \in ph'[m].conf => s \in ph[m].conf
    BY <1>2, <2>1, <2>2, <2>4, BackOrder
  <2> QED
    BY <2>3, <2>4
<1> QED
  BY <1>4, <1>5

LEMMA InitStreams == Init => NotYetAsked /\ CloseIsLast /\ EndFollows /\ EndingInOrder
<1> SUFFICES ASSUME Init PROVE NotYetAsked /\ CloseIsLast /\ EndFollows /\ EndingInOrder
  OBVIOUS
<1>1. \A l \in Lines : /\ ph[l].out = <<>> /\ up[l] = <<>> /\ dn[l] = <<>> /\ ag[l].jobs = <<>>
                       /\ ag[l].sends = <<>> /\ ag[l].cur = Nothing /\ ag[l].gone = FALSE
                       /\ ph[l].stops = {} /\ ph[l].subs = {} /\ ph[l].conf = {} /\ ag[l].streams = {}
  BY DEF Init, FreshPhone, FreshSlot
<1>2. \A s : Nothing # Reply(s, TRUE)
  BY DEF Nothing, Reply
<1>3. \A l \in Lines : \A F : ~Carries(l, F)
  BY <1>1, EmptyQueue DEF Carries
<1>4. NotYetAsked
  BY <1>1, <1>2, <1>3, EmptyQueue DEF NotYetAsked, Untouched, Returns
<1> QED
  BY <1>1, <1>3, <1>4 DEF CloseIsLast, EndFollows, Held, EndingInOrder

LEMMA StreamsHold == Spec => []StreamInv
<1>1. StreamInv /\ [Next]_vars => NotYetAsked' /\ CloseIsLast' /\ EndFollows' /\ EndingInOrder'
  BY NotYetStep, CloseStep, FollowStep, EndingStep DEF StreamInv
<1>2. Spec => [](NotYetAsked /\ CloseIsLast /\ EndFollows /\ EndingInOrder)
  BY <1>1, InitStreams, RouteHolds, PTL DEF Spec, StreamInv
<1> QED
  BY <1>2, RouteHolds, PTL DEF StreamInv

(* What the phone shows as live is live (relayRoute.ts, confirmedEvents):  *)
(* a subscription that was confirmed, and whose end the phone has not      *)
(* seen, is held by the agent, or the line is closed, or a frame that ends *)
(* it is in the agent's send chain or on its way.                          *)
THEOREM EventsLiveCorrect == Spec => []EventsLiveTrue
<1>1. StreamInv => EventsLiveTrue
  <2> SUFFICES ASSUME StreamInv, NEW l \in Lines, NEW s \in Subs,
                      ph[l].phase = "open", s \in ph[l].conf \cap ph[l].subs,
                      s \notin ag[l].streams, l \notin cut
               PROVE  \E f \in Ends(s) : Contains(dn[l], f) \/ Contains(ag[l].sends, f)
    BY DEF EventsLiveTrue, Ends, Close
  <2>1. Has(ag[l].sends, Ends(s)) \/ Has(dn[l], Ends(s))
    BY DEF StreamInv, EndFollows, Held
  <2> QED
    BY <2>1 DEF Has, Contains
<1> QED
  BY <1>1, StreamsHold, PTL
=============================================================================
