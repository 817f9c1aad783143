---------------------------- MODULE ScreenProofs ----------------------------
(***************************************************************************)
(* Proofs about what the phone shows and keeps (MCScreen): the list of      *)
(* machines, the list of sessions, the notifications and what is told of a *)
(* turn's end; and about the line to the relay that news comes over         *)
(* (RelayKeeper), for any set of sockets, any grace for pongs and any bound *)
(* on the failures counted.                                                *)
(***************************************************************************)
EXTENDS MCScreen, RelayKeeper, TLAPS

-----------------------------------------------------------------------------
(* The line to the relay.                                                  *)

(* What is counted stays within its bound.                                 *)
LEMMA CountedIsBounded ==
  ASSUME NEW n \in 0..MaxAttempts
  PROVE  Counted(n) \in 0..MaxAttempts /\ Counted(n + 1) \in 0..MaxAttempts /\ 1 \in 0..MaxAttempts
BY RelayKeeperAssumption DEF Counted, RelayKeeperAssumption

(* The line of the loop and the state it shows belong together.  A line    *)
(* that is dialed is new: nothing was torn down, settled or is pinged.     *)
LineOfLoop ==
  /\ state \in {"connecting", "open"} => cur \in Sockets
  /\ state = "connecting" => ws[cur] = "dialing"

NewWhenDialed ==
  \A s \in Sockets : ws[s] = "dialing" =>
    /\ (state = "connecting" /\ cur = s) \/ state = "stopped"
    /\ ~beat[s] /\ ~torn[s] /\ ~settledLong[s]

\* A line that was torn down is pinged no more, is not open, and is not the
\* one of the loop; one that is open was not torn down.
TornIsOver ==
  \A s \in Sockets : torn[s] =>
    ~beat[s] /\ ws[s] \in {"closing", "closed"} /\ (state = "open" => cur # s)

\* The count that the loop goes on from is that of the rounds since a line
\* last settled: shown while it waits or dials, remembered while one is open.
CountKept ==
  /\ state \in {"waiting", "connecting"} => attempts = falls
  /\ state \in {"connecting", "open"} => before = falls

KeeperInv == TypeOK /\ OneLink /\ LineOfLoop /\ NewWhenDialed /\ TornIsOver /\ CountKept

THEOREM InitKeeper == Init => KeeperInv
<1> SUFFICES ASSUME Init PROVE KeeperInv
  OBVIOUS
<1>1. TypeOK
  BY RelayKeeperAssumption DEF RelayKeeperAssumption, Init, TypeOK, Flags, Nowhere
<1>2. OneLink /\ LineOfLoop /\ NewWhenDialed /\ TornIsOver /\ CountKept
  BY DEF Init, OneLink, LineOfLoop, NewWhenDialed, TornIsOver, CountKept, Nowhere
<1> QED
  BY <1>1, <1>2 DEF KeeperInv

(* Types.                                                                  *)
LEMMA TypeStep ==
  ASSUME TypeOK, LineOfLoop, [Next]_vars
  PROVE  TypeOK'
<1> USE DEF TypeOK, Flags
<1> USE RelayKeeperAssumption DEF RelayKeeperAssumption
<1>1. CASE CannotDial
  BY <1>1, CountedIsBounded DEF CannotDial, lineVars
<1>2. CASE Stop
  BY <1>2 DEF Stop, LinkDown, Closing, LineOfLoop
<1>3. ASSUME NEW s \in Sockets
      PROVE  /\ Closing(s) \in {"none", "dialing", "open", "closing", "closed"}
             /\ \A ph \in {"closing", "closed"} : TearDown(s, ph) =>
                  /\ state' \in {"connecting", "waiting", "open", "stopped"}
                  /\ attempts' \in 0..MaxAttempts /\ before' \in 0..MaxAttempts /\ falls' \in 0..MaxAttempts
                  /\ cur' \in Sockets \cup {NoSocket}
                  /\ ws' \in [Sockets -> {"none", "dialing", "open", "closing", "closed"}]
                  /\ gone' \in Flags /\ torn' \in Flags /\ beat' \in Flags
                  /\ listens' \subseteq Sockets
  <2>1. Closing(s) \in {"closing", "closed"}
    BY DEF Closing
  <2>2. ASSUME Fallen(s)
        PROVE  /\ state' \in {"connecting", "waiting", "open", "stopped"}
               /\ attempts' \in 0..MaxAttempts /\ before' \in 0..MaxAttempts /\ falls' \in 0..MaxAttempts
               /\ cur' \in Sockets \cup {NoSocket}
    BY <2>2, CountedIsBounded DEF Fallen, Falls, AttemptsAfter, loopVars
  <2> QED
    BY <2>1, <2>2 DEF TearDown, LinkDown, loopVars
<1>4. ASSUME NEW s \in Sockets, Connect(s) PROVE TypeOK'
  BY <1>4 DEF Connect
<1>5. ASSUME NEW s \in Sockets, Opened(s) PROVE TypeOK'
  <2>1. CASE state = "stopped"
    BY <1>5, <2>1 DEF Opened, Late, LinkDown, loopVars
  <2>2. CASE state # "stopped"
    BY <1>5, <2>2 DEF Opened
  <2> QED
    BY <2>1, <2>2
<1>6. ASSUME NEW s \in Sockets, Failed(s) PROVE TypeOK'
  BY <1>6, <1>3 DEF Failed
<1>7. ASSUME NEW s \in Sockets, Challenge(s) \/ NotTheRelay(s) \/ Want(s) \/ BadFrame(s) PROVE TypeOK'
  <2>1. CASE Challenge(s) \/ NotTheRelay(s)
    BY <2>1 DEF Challenge, NotTheRelay, loopVars
  <2>2. CASE Want(s)
    BY <2>2 DEF Want, loopVars
  <2>3. CASE BadFrame(s)
    BY <2>3 DEF BadFrame, LinkDown, loopVars
  <2> QED
    BY <1>7, <2>1, <2>2, <2>3
<1>8. ASSUME NEW s \in Sockets, Beat(s) PROVE TypeOK'
  <2>1. CASE missed[s] >= PongGrace
    <3>1. TearDown(s, Closing(s)) /\ UNCHANGED <<missed, half, proved>>
      BY <1>8, <2>1 DEF Beat, Overdue
    <3>2. Closing(s) \in {"closing", "closed"}
      BY DEF Closing
    <3>3. settledLong' \in Flags
      BY <1>8 DEF Beat
    <3> QED
      BY <1>3, <3>1, <3>2, <3>3
  <2>2. CASE ~(missed[s] >= PongGrace)
    <3>1. missed[s] + 1 \in 0..PongGrace + 1
      BY <2>2
    <3>2. missed' = [missed EXCEPT ![s] = missed[s] + 1]
      BY <1>8, <2>2 DEF Beat
    <3>3. missed' \in [Sockets -> 0..PongGrace + 1]
      BY <3>1, <3>2
    <3> QED
      BY <1>8, <2>2, <3>3 DEF Beat, loopVars
  <2> QED
    BY <2>1, <2>2
<1>9. ASSUME NEW s \in Sockets, Pong(s) \/ Settle(s) \/ HalfDead(s) PROVE TypeOK'
  <2>1. CASE Pong(s)
    BY <2>1 DEF Pong, loopVars
  <2>2. CASE Settle(s)
    BY <2>2 DEF Settle, loopVars
  <2>3. CASE HalfDead(s)
    BY <2>3 DEF HalfDead, loopVars
  <2> QED
    BY <1>9, <2>1, <2>2, <2>3
<1>10. CASE UNCHANGED vars
  BY <1>10 DEF vars, loopVars, lineVars
<1> QED
  BY <1>1, <1>2, <1>4, <1>5, <1>6, <1>7, <1>8, <1>9, <1>10 DEF Next

(* A line is torn down: the loop waits if it was its line.                 *)
LEMMA TornDown ==
  ASSUME KeeperInv, NEW s \in Sockets, NEW phase \in {"closing", "closed"}, TearDown(s, phase),
         settledLong' \in Flags,
         \A t \in Sockets : t # s => settledLong'[t] = settledLong[t],
         ws[s] = "dialing" => settledLong'[s] = settledLong[s]
  PROVE  OneLink' /\ LineOfLoop' /\ NewWhenDialed' /\ TornIsOver' /\ CountKept'
<1> USE DEF KeeperInv, TypeOK, Flags
<1>1. CASE torn[s]
  <2>1. ws' = [ws EXCEPT ![s] = phase] /\ UNCHANGED <<loopVars, falls, gone, torn, beat, listens>>
    BY <1>1 DEF TearDown
  <2> QED
    BY <1>1, <2>1 DEF OneLink, LineOfLoop, NewWhenDialed, TornIsOver, CountKept, loopVars
<1>2. CASE ~torn[s]
  <2>1. /\ torn' = [torn EXCEPT ![s] = TRUE] /\ beat' = [beat EXCEPT ![s] = FALSE]
        /\ LinkDown(s) /\ Fallen(s) /\ ws' = [ws EXCEPT ![s] = phase]
    BY <1>2 DEF TearDown
  <2>2. CASE s # cur \/ state \notin {"connecting", "open"}
    <3>1. UNCHANGED <<loopVars, falls>>
      BY <2>1, <2>2 DEF Fallen
    <3> QED
      BY <2>1, <2>2, <3>1 DEF OneLink, LineOfLoop, NewWhenDialed, TornIsOver, CountKept, loopVars, LinkDown
  <2>3. CASE s = cur /\ state \in {"connecting", "open"}
    <3>1. /\ state' = "waiting" /\ cur' = NoSocket /\ falls' = Falls(s)
          /\ attempts' = IF state = "open" THEN AttemptsAfter(s) ELSE Counted(attempts + 1)
      BY <2>1, <2>3 DEF Fallen
    <3>2. attempts' = falls'
      BY <3>1, <2>3 DEF Falls, AttemptsAfter, CountKept, LineOfLoop, NewWhenDialed
    <3>3. \A t \in Sockets : ws'[t] \notin {"open", "dialing"}
      BY <2>1, <2>3, <3>1 DEF OneLink, NewWhenDialed
    <3> QED
      BY <2>1, <2>3, <3>1, <3>2, <3>3 DEF OneLink, LineOfLoop, NewWhenDialed, TornIsOver, CountKept, LinkDown
  <2> QED
    BY <2>2, <2>3
<1> QED
  BY <1>1, <1>2

THEOREM KeeperStep ==
  ASSUME KeeperInv, [Next]_vars
  PROVE  KeeperInv'
<1>1. TypeOK'
  BY TypeStep DEF KeeperInv
<1> SUFFICES OneLink' /\ LineOfLoop' /\ NewWhenDialed' /\ TornIsOver' /\ CountKept'
  BY <1>1 DEF KeeperInv
<1> DEFINE Kept == OneLink' /\ LineOfLoop' /\ NewWhenDialed' /\ TornIsOver' /\ CountKept'
<1> USE DEF OneLink, LineOfLoop, NewWhenDialed, TornIsOver, CountKept
<1>2. CASE CannotDial
  BY <1>2 DEF CannotDial, lineVars, KeeperInv
<1>3. CASE Stop
  <2>1. \A t \in Sockets : ws'[t] # "open"
    BY <1>3 DEF Stop, LinkDown, Closing, KeeperInv, TypeOK, Flags
  <2> QED
    BY <1>3, <2>1 DEF Stop, LinkDown, Closing, KeeperInv, TypeOK, Flags
<1>4. ASSUME NEW s \in Sockets, Connect(s) PROVE Kept
  BY <1>4 DEF Connect, KeeperInv, TypeOK, Flags
<1>5. ASSUME NEW s \in Sockets, Opened(s) PROVE Kept
  BY <1>5 DEF Opened, Late, LinkDown, loopVars, KeeperInv, TypeOK, Flags
<1>6. ASSUME NEW s \in Sockets, Failed(s) PROVE Kept
  BY <1>6, TornDown DEF Failed, KeeperInv, TypeOK, Flags
<1>7. ASSUME NEW s \in Sockets, Challenge(s) \/ NotTheRelay(s) \/ Want(s) \/ BadFrame(s) PROVE Kept
  BY <1>7 DEF Challenge, NotTheRelay, Want, BadFrame, LinkDown, loopVars, KeeperInv, TypeOK, Flags
<1>8. ASSUME NEW s \in Sockets, Beat(s) PROVE Kept
  <2>1. ws[s] # "dialing" /\ ~torn[s]
    BY <1>8 DEF Beat, KeeperInv, TypeOK, Flags
  <2>2. CASE missed[s] >= PongGrace
    BY <1>8, <2>1, <2>2, TornDown DEF Beat, Overdue, Closing, KeeperInv, TypeOK, Flags
  <2>3. CASE ~(missed[s] >= PongGrace)
    BY <1>8, <2>1, <2>3 DEF Beat, loopVars, KeeperInv, TypeOK, Flags
  <2> QED
    BY <2>2, <2>3
<1>9. ASSUME NEW s \in Sockets, Pong(s) \/ Settle(s) \/ HalfDead(s) PROVE Kept
  BY <1>9 DEF Pong, Settle, HalfDead, loopVars, KeeperInv, TypeOK, Flags
<1>10. CASE UNCHANGED vars
  BY <1>10 DEF vars, loopVars, lineVars, KeeperInv
<1> QED
  BY <1>2, <1>3, <1>4, <1>5, <1>6, <1>7, <1>8, <1>9, <1>10 DEF Next

THEOREM KeeperInvariant == Spec => []KeeperInv
<1>1. KeeperInv /\ [Next]_vars => KeeperInv'
  BY KeeperStep
<1> QED
  BY InitKeeper, <1>1, PTL DEF Spec

(* Every state has its types.                                              *)
THEOREM TypeCorrect == Spec => []TypeOK
<1>1. KeeperInv => TypeOK
  BY DEF KeeperInv
<1> QED
  BY KeeperInvariant, <1>1, PTL

(* One link at most is up and it is the one shown, and the wait grows with *)
(* the rounds since a line last settled, however the events of stale lines *)
(* and of the current one are interleaved (relayLink.ts keepRelayConnected). *)
THEOREM LineInOrderHolds == Spec => []LineInOrder
<1>1. KeeperInv => LineInOrder
  BY DEF KeeperInv, CountKept, LineInOrder, NoHammering
<1> QED
  BY KeeperInvariant, <1>1, PTL

-----------------------------------------------------------------------------
(* The machines, for any number of them and of relays.  As MCScreen names  *)
(* them: v1 is rows, v2 stored, v3 form, v4 seen, v5 dirty, v7 unlink, v8  *)
(* pair, v11 added, v12 wanted, v13 outlived.                               *)

Rows == [Machines -> Relays \cup {Direct, Out}]

Unlinkings == [m : Machines, here : BOOLEAN]
Pairings == [m : Machines, via : Relays \cup {Direct}, adds : BOOLEAN, here : BOOLEAN]

KnownTypes ==
  /\ v1 \in Rows /\ v3 \in Rows \cup {None}
  /\ v7 \in Unlinkings \cup {None} /\ v8 \in Pairings \cup {None}
  /\ v11 \subseteq Machines /\ v13 \subseteq Machines

\* What was typed in has no row yet, what outlived its row is in the copy, and the
\* copy has seen the rows as they are.
CopyInv ==
  /\ v3 = None => v11 = {} /\ v13 = {}
  /\ v3 # None => /\ v4 = v1
                  /\ \A m \in v11 : v3[m] = Direct /\ v1[m] = Out
                  /\ \A m \in v13 : v3[m] # Out

KnownInv == KnownTypes /\ CopyInv /\ Known!AsTheUserLeftIt

LEMMA KnownConstants ==
  /\ Direct # Out /\ Direct \notin Relays /\ Out \notin Relays /\ Self \in Machines
  /\ None \notin Rows /\ None \notin Unlinkings /\ None \notin Pairings
BY ScreenAssumption DEF Known!ConnectionsAssumption, Rows, Unlinkings, Pairings

LEMMA KnownStarts == Known!Init => KnownInv
BY KnownConstants DEF Known!Init, KnownInv, KnownTypes, CopyInv, Known!AsTheUserLeftIt, Rows

\* The rows change in that of m, and the copy, if it is open, is merged with them;
\* it takes the rows `left` out itself.
RowChanges(m, via, left) ==
  /\ v1' = [v1 EXCEPT ![m] = via] /\ v2' = v1' /\ v12' = [v12 EXCEPT ![m] = via]
  /\ IF v3 = None THEN v3' = v3 /\ v4' = v4
     ELSE /\ v3' = [k \in Machines |-> IF k \in left THEN Out
                                       ELSE Known!Merged([v1 EXCEPT ![m] = via])[k]]
          /\ v4' = v1'

(* The copy takes over what changed in the row of m, unless it kept that    *)
(* row when it was unlinked, and keeps what the user did to the others.     *)
LEMMA CopyFollows ==
  ASSUME KnownInv, v3 # None,
         NEW m \in Machines, NEW via \in Relays \cup {Direct, Out}, NEW left,
         m \in left => via = Out, left \subseteq {m}, RowChanges(m, via, left)
  PROVE  /\ v3' \in Rows /\ v3' # None /\ v4' = v1'
         /\ \A k \in Machines \ {m} : /\ v1'[k] = v1[k]
                                      /\ k \in v11 \/ k \notin v13 => v3'[k] = v3[k]
         /\ v1'[m] = via
         /\ m \in left \/ (via # Out /\ m \notin v13) => v3'[m] = via
         /\ m \notin left /\ via = Out => v3'[m] = v3[m]
         /\ \A k \in Machines \ left : v3[k] # Out => v3'[k] # Out
<1> DEFINE new == [v1 EXCEPT ![m] = via]
<1>1. /\ v1 \in Rows /\ v3 \in Rows /\ v4 = v1 /\ new \in Rows
      /\ \A k \in v11 : v3[k] = Direct /\ v1[k] = Out
      /\ \A k \in Machines \ (v11 \cup v13) : v3[k] = v1[k]
  BY KnownConstants DEF KnownInv, KnownTypes, CopyInv, Known!AsTheUserLeftIt, Rows
<1>2. /\ v1' = new /\ v4' = new
      /\ v3' = [k \in Machines |-> IF k \in left THEN Out ELSE Known!Merged(new)[k]]
  BY DEF RowChanges
<1>3. ASSUME NEW k \in Machines
      PROVE  Known!Merged(new)[k] =
               LET relay == IF v3[k] = Direct /\ new[k] \in Relays THEN new[k] ELSE v3[k]
                   route == IF Out \notin {relay, v1[k], new[k]} /\ new[k] # v1[k] THEN new[k] ELSE relay
               IN IF route = Out /\ v1[k] = Out THEN new[k] ELSE route
  BY <1>1 DEF Known!Merged, Known!MergeAdded, Known!MergeRoute, Known!MergeRelay
<1>4. \A k \in Machines : /\ new[k] = IF k = m THEN via ELSE v1[k]
                          /\ v1[k] \in Relays \cup {Direct, Out} /\ v3[k] \in Relays \cup {Direct, Out}
  BY <1>1 DEF Rows
<1>5. ASSUME NEW k \in Machines \ {m}
      PROVE  v1'[k] = v1[k] /\ (k \in v11 \/ k \notin v13 => v3'[k] = v3[k])
  <2>1. new[k] = v1[k] /\ k \notin left
    BY <1>4
  <2>2. k \in v11 \/ k \notin v13 => (v3[k] = Direct /\ v1[k] = Out) \/ v3[k] = v1[k]
    BY <1>1
  <2> QED BY <1>1, <1>2, <1>3, <2>1, <2>2, KnownConstants
<1>6. v1'[m] = via
  BY <1>2, <1>4
<1>7. m \in left => v3'[m] = via
  BY <1>2
<1>8. ASSUME m \notin left, via # Out, m \notin v13 PROVE v3'[m] = via
  <2>1. (v3[m] = Direct /\ v1[m] = Out) \/ v3[m] = v1[m]
    BY <1>1, <1>8
  <2> QED BY <1>2, <1>3, <1>4, <1>8, <2>1, KnownConstants
<1>9. ASSUME m \notin left, via = Out PROVE v3'[m] = v3[m]
  BY <1>2, <1>3, <1>4, <1>9, KnownConstants
<1>10. \A k \in Machines \ left : v3[k] # Out => v3'[k] # Out
  BY <1>2, <1>3, <1>4, KnownConstants
<1>11. v3' \in Rows
  <2>1. \A k \in Machines : v3'[k] \in Relays \cup {Direct, Out}
    BY <1>2, <1>3, <1>4
  <2> QED BY <1>2, <2>1 DEF Rows
<1> QED
  BY <1>2, <1>5, <1>6, <1>7, <1>8, <1>9, <1>10, <1>11, KnownConstants

(* What a change of the row of m leaves: the app, the copy and what the     *)
(* user did agree again.  A row is written; or taken out of the rows and    *)
(* out of the copy; or out of the rows, and the copy keeps it.              *)
LEMMA RowKept ==
  ASSUME KnownInv,
         NEW m \in Machines, NEW via \in Relays \cup {Direct, Out}, NEW left,
         RowChanges(m, via, left),
         \/ via # Out /\ left = {} /\ v11' = v11 \ {m} /\ v13' = v13
         \/ via = Out /\ left = {m} /\ v11' = v11 \ {m} /\ v13' = v13 \ {m}
         \/ /\ via = Out /\ left = {} /\ v11' = v11
            /\ v13' = v13 \cup {k \in {m} : v3 # None /\ v3[k] # Out},
         v7' \in Unlinkings \cup {None}, v8' \in Pairings \cup {None}
  PROVE  KnownInv'
<1>1. v1' \in Rows /\ v2' = v1' /\ v12' = v1'
  BY DEF RowChanges, KnownInv, KnownTypes, Known!AsTheUserLeftIt, Rows
<1>2. v11' \subseteq Machines /\ v13' \subseteq Machines
  BY DEF KnownInv, KnownTypes
<1>3. CASE v3 = None
  <2>1. v3' = None /\ v11' = {} /\ v13' = {}
    BY <1>3 DEF RowChanges, KnownInv, CopyInv
  <2> QED
    BY <1>1, <1>2, <2>1 DEF KnownInv, KnownTypes, CopyInv, Known!AsTheUserLeftIt
<1>4. CASE v3 # None
  <2>1. /\ v3' \in Rows /\ v3' # None /\ v4' = v1'
        /\ \A k \in Machines \ {m} : /\ v1'[k] = v1[k]
                                     /\ k \in v11 \/ k \notin v13 => v3'[k] = v3[k]
        /\ v1'[m] = via
        /\ m \in left \/ (via # Out /\ m \notin v13) => v3'[m] = via
        /\ m \notin left /\ via = Out => v3'[m] = v3[m]
        /\ \A k \in Machines \ left : v3[k] # Out => v3'[k] # Out
    BY <1>4, CopyFollows
  <2>2. \A k \in v11 : v3[k] = Direct /\ v1[k] = Out
    BY <1>4 DEF KnownInv, CopyInv
  <2>3. \A k \in Machines \ (v11 \cup v13) : v3[k] = v1[k]
    BY <1>4 DEF KnownInv, KnownTypes, Known!AsTheUserLeftIt
  <2>4. ASSUME NEW k \in v11' PROVE v3'[k] = Direct /\ v1'[k] = Out
    <3>1. k \in v11 /\ k \in Machines
      BY <1>2, <2>4
    <3>2. CASE k # m
      BY <2>1, <2>2, <3>1, <3>2
    <3>3. CASE k = m
      BY <2>1, <2>2, <2>4, <3>1, <3>3
    <3> QED BY <3>2, <3>3
  <2>5. ASSUME NEW k \in Machines \ (v11' \cup v13') PROVE v3'[k] = v12'[k]
    <3>1. CASE k # m
      BY <1>1, <2>1, <2>3, <2>5, <3>1
    <3>2. CASE k = m
      BY <1>1, <1>4, <2>1, <2>5, <3>2
    <3> QED BY <3>1, <3>2
  <2>6. ASSUME NEW k \in v13' PROVE v3'[k] # Out
    <3>1. \A j \in v13 : j \in Machines /\ v3[j] # Out
      BY <1>4 DEF KnownInv, KnownTypes, CopyInv
    <3>2. k \notin left /\ k \in Machines /\ v3[k] # Out
      BY <2>6, <3>1
    <3> QED BY <2>1, <3>2
  <2> QED
    BY <1>1, <1>2, <2>1, <2>4, <2>5, <2>6 DEF KnownInv, KnownTypes, CopyInv, Known!AsTheUserLeftIt
<1> QED BY <1>3, <1>4

LEMMA KnownStep ==
  ASSUME KnownInv, [Known!Next]_(Known!vars)
  PROVE  KnownInv'
<1> USE KnownConstants
<1>0. /\ v1 \in Rows /\ v2 = v1 /\ v12 = v1 /\ v11 \subseteq Machines /\ v13 \subseteq Machines
      /\ v7 \in Unlinkings \cup {None} /\ v8 \in Pairings \cup {None}
  BY DEF KnownInv, KnownTypes, Known!AsTheUserLeftIt
<1>1. CASE Known!OpenSettings
  BY <1>0, <1>1 DEF Known!OpenSettings, Known!app, KnownInv, KnownTypes, CopyInv, Known!AsTheUserLeftIt
<1>2. CASE Known!Leave
  <2>1. v7' \in Unlinkings \cup {None} /\ v8' \in Pairings \cup {None}
    BY <1>0, <1>2 DEF Known!Leave, Known!Orphaned, Unlinkings, Pairings
  <2> QED
    BY <1>0, <1>2, <2>1 DEF Known!Leave, Known!Closed, Known!app, KnownInv, KnownTypes, CopyInv, Known!AsTheUserLeftIt
<1>3. CASE Known!Apply
  <2>1. /\ v3 \in Rows /\ v3' = None /\ v11' = {} /\ v13' = {} /\ v7' = None /\ v8' = None
        /\ v1' = v3 /\ v2' = v3
    BY <1>3 DEF Known!Apply, Known!Closed, KnownInv, KnownTypes
  <2>2. v12' = [m \in Machines |-> IF m \in v11 \cup v13 THEN v3[m] ELSE v12[m]]
    BY <1>3 DEF Known!Apply
  <2>3. \A m \in Machines : v12'[m] = v3[m]
    BY <1>3, <2>2 DEF Known!Apply, KnownInv, Known!AsTheUserLeftIt
  <2>4. v12' = v3
    BY <2>1, <2>2, <2>3 DEF Rows
  <2> QED
    BY <2>1, <2>4 DEF KnownInv, KnownTypes, CopyInv, Known!AsTheUserLeftIt
<1>4. CASE Known!Forget
  <2> DEFINE m == v7.m
             left == IF v7.here THEN {v7.m} ELSE {}
  <2>1. v7 \in Unlinkings /\ m \in Machines /\ v7.here \in BOOLEAN /\ v7' = None /\ v8' = v8
    BY <1>0, <1>4 DEF Known!Forget, Unlinkings
  <2>2. RowChanges(m, Out, left)
    BY <1>4 DEF Known!Forget, Known!SetRows, RowChanges
  <2>3. /\ v7.here => left = {m} /\ v11' = v11 \ {m} /\ v13' = v13 \ {m}
        /\ ~v7.here => /\ left = {} /\ v11' = v11
                       /\ v13' = v13 \cup {k \in {m} : v3 # None /\ v3[k] # Out}
    BY <1>4 DEF Known!Forget
  <2> HIDE DEF m, left
  <2> QED
    BY <1>0, <2>1, <2>2, <2>3, RowKept
<1>5. CASE Known!PairDone
  <2>1. /\ v8 \in Pairings /\ v8.m \in Machines /\ v8.via \in Relays \cup {Direct} /\ v8' = None
        /\ v7' = v7 /\ v13' = v13
    BY <1>0, <1>5 DEF Known!PairDone, Pairings
  <2>2. CASE v8.adds
    <3>1. RowChanges(v8.m, v8.via, {}) /\ v11' = v11 \ {v8.m}
      BY <1>5, <2>2 DEF Known!PairDone, Known!SetRows, Known!Upsert, RowChanges
    <3> QED
      BY <1>0, <2>1, <3>1, RowKept
  <2>3. CASE ~v8.adds
    BY <1>0, <1>5, <2>1, <2>3
    DEF Known!PairDone, Known!app, KnownInv, KnownTypes, CopyInv, Known!AsTheUserLeftIt
  <2> QED BY <2>2, <2>3
<1>6. CASE Known!PairFailed
  BY <1>6 DEF Known!PairFailed, Known!app, Known!screen, KnownInv, KnownTypes, CopyInv, Known!AsTheUserLeftIt
<1>7. ASSUME NEW m \in Machines, Known!Add(m) PROVE KnownInv'
  <2>1. /\ v3 \in Rows /\ v3[m] = Out /\ v3' = [v3 EXCEPT ![m] = Direct] /\ v11' = v11 \cup {m}
        /\ v1' = v1 /\ v2' = v2 /\ v4' = v4 /\ v7' = v7 /\ v8' = v8 /\ v12' = v12 /\ v13' = v13
    BY <1>7 DEF Known!Add, Known!app, KnownInv, KnownTypes
  <2>2. m \notin v11 /\ m \notin v13 /\ v3 # None
    BY <1>7, <2>1 DEF Known!Add, KnownInv, CopyInv
  <2>3. v3' \in Rows /\ v3' # None /\ v3'[m] = Direct /\ \A k \in Machines \ {m} : v3'[k] = v3[k]
    BY <2>1 DEF Rows
  <2>4. v1[m] = Out
    BY <1>0, <2>1, <2>2 DEF KnownInv, CopyInv, Known!AsTheUserLeftIt
  <2> QED
    BY <1>0, <2>1, <2>2, <2>3, <2>4 DEF KnownInv, KnownTypes, CopyInv, Known!AsTheUserLeftIt
<1>8. ASSUME NEW m \in Machines, Known!DoUnlink(m) PROVE KnownInv'
  <2>1. v7' \in Unlinkings
    BY <1>8 DEF Known!DoUnlink, Unlinkings
  <2> QED
    BY <1>8, <2>1 DEF Known!DoUnlink, Known!app, Known!screen, KnownInv, KnownTypes, CopyInv, Known!AsTheUserLeftIt
<1>9. ASSUME NEW m \in Machines, Known!ForgetTwin(m) PROVE KnownInv'
  <2>1. RowChanges(m, Out, {m})
    BY <1>9 DEF Known!ForgetTwin, Known!SetRows, RowChanges
  <2>2. v11' = v11 \ {m} /\ v13' = v13 \ {m} /\ v7' = v7 /\ v8' = v8
    BY <1>9 DEF Known!ForgetTwin
  <2> QED
    BY <1>0, <2>1, <2>2, RowKept
<1>10. ASSUME NEW m \in Machines, NEW via \in Relays \cup {Direct}, NEW adds \in BOOLEAN,
              Known!RunPairing(m, via, adds)
       PROVE  KnownInv'
  <2>1. v8' \in Pairings
    BY <1>10 DEF Known!RunPairing, Pairings
  <2> QED
    BY <1>10, <2>1 DEF Known!RunPairing, Known!app, KnownInv, KnownTypes, CopyInv, Known!AsTheUserLeftIt
<1>11. ASSUME NEW ok \in BOOLEAN, Known!OfferSelf(ok) PROVE KnownInv'
  <2>1. CASE Known!ShouldOfferSelf(v1, ok)
    <3>1. v1 = Known!Empty
      BY <1>0, <2>1 DEF Known!ShouldOfferSelf, Known!Listed, Known!Empty, Rows
    <3>2. v3 # None => Known!Merged([v1 EXCEPT ![Self] = Direct]) =
                         [k \in Machines |-> IF k \in {} THEN Out
                                             ELSE Known!Merged([v1 EXCEPT ![Self] = Direct])[k]]
      BY DEF Known!Merged, Known!MergeAdded
    <3>3. RowChanges(Self, Direct, {})
      BY <1>11, <2>1, <3>1, <3>2 DEF Known!OfferSelf, RowChanges
    <3>4. v11' = v11 \ {Self} /\ v13' = v13 /\ v7' = v7 /\ v8' = v8
      BY <1>11, <2>1 DEF Known!OfferSelf
    <3> QED
      BY <1>0, <3>3, <3>4, RowKept
  <2>2. CASE ~Known!ShouldOfferSelf(v1, ok)
    BY <1>11, <2>2 DEF Known!OfferSelf, Known!app, KnownInv, KnownTypes, CopyInv, Known!AsTheUserLeftIt
  <2> QED BY <2>1, <2>2
<1>12. CASE UNCHANGED Known!vars
  BY <1>12 DEF Known!vars, Known!app, Known!screen, KnownInv, KnownTypes, CopyInv, Known!AsTheUserLeftIt
<1> QED
  BY <1>1, <1>2, <1>3, <1>4, <1>5, <1>6, <1>7, <1>8, <1>9, <1>10, <1>11, <1>12 DEF Known!Next

-----------------------------------------------------------------------------
(* The list of sessions, for any sessions and fetches.  As MCScreen names  *)
(* them: v6 is now, v13 fetch, v14 st.                                      *)

\* The page that fetch f has got.
Got(f) == v13[f].got

\* One fetch is the newest; what it has got is no older than what is shown.
ListInv ==
  /\ DOMAIN v13 = Slots /\ v6 \in Nat /\ v14.at \in Nat /\ v14.at <= v6
  /\ \A f, g \in Slots : List!Newest(f) /\ List!Newest(g) => f = g
  /\ \A f \in Slots : List!Newest(f) /\ Got(f) \notin {Unread, NoPage} =>
       Got(f).at \in Nat /\ v14.at <= Got(f).at /\ Got(f).at <= v6

LEMMA ListStarts == List!Init => ListInv
<1> SUFFICES ASSUME List!Init PROVE ListInv
  OBVIOUS
<1> DEFINE F == CHOOSE g \in Slots : TRUE
<1>1. v6 = 1 /\ v14.at = 0
  BY DEF List!Init, List!EmptyState
<1>2. v13 = [g \in Slots |-> IF g = F THEN [newest |-> TRUE, want |-> v10, got |-> Unread] ELSE None]
  BY DEF List!Init
<1> HIDE DEF F
<1>3. \A f \in Slots : List!Newest(f) => f = F /\ Got(f) = Unread
  BY <1>2 DEF List!Newest, Got
<1> QED BY <1>1, <1>2, <1>3 DEF ListInv

(* A fetch that starts is the newest.                                      *)
LEMMA ListFetch ==
  ASSUME ListInv, NEW o, List!Start(o), v6' = v6, v14' = v14
  PROVE  ListInv'
<1> DEFINE F == CHOOSE f \in {f \in Slots : v13[f] = None} : TRUE
<1>1. v13' = List!StartedAs(o, F)
  BY DEF List!Start
<1>2. \A g \in Slots : List!Newest(g)' => g = F /\ Got(g)' = Unread
  BY <1>1 DEF List!StartedAs, List!Newest, Got
<1> QED
  BY <1>1, <1>2 DEF ListInv, List!StartedAs

(* Of the machine and the line nothing matters but the count of changes.   *)
LEMMA ListQuiet ==
  ASSUME ListInv, v13' = v13, v14' = v14, v6' \in {v6, v6 + 1}
  PROVE  ListInv'
<1>1. \A f \in Slots : (List!Newest(f)' <=> List!Newest(f)) /\ Got(f)' = Got(f)
  BY DEF List!Newest, Got
<1>2. v6 \in Nat /\ v6' \in Nat /\ v6 <= v6'
  BY DEF ListInv
<1> QED BY <1>1, <1>2 DEF ListInv

LEMMA ListAnswer ==
  ASSUME ListInv, NEW f \in Slots, NEW a, List!Answer(f, a),
         a \notin {Unread, NoPage} => a.at = v6
  PROVE  ListInv'
<1>1. v13' = [v13 EXCEPT ![f].got = a] /\ v14' = v14 /\ v6' = v6
  BY DEF List!Answer, List!machine
<1>2. ASSUME NEW g \in Slots, List!Newest(g)'
      PROVE  List!Newest(g) /\ (Got(g)' = Got(g) \/ Got(g)' = a)
  BY <1>1, <1>2 DEF List!Newest, Got, List!Answer, ListInv
<1> QED
  BY <1>1, <1>2 DEF ListInv

(* Only the newest fetch is shown, and another is newest only later.       *)
LEMMA ListComplete ==
  ASSUME ListInv, NEW f \in Slots, List!Complete(f)
  PROVE  ListInv' /\ v14'.at >= v14.at
<1>1. v13' = [v13 EXCEPT ![f] = None] /\ v6' = v6 /\ Got(f) # Unread
  BY DEF List!Complete, List!machine, Got
<1>2. ASSUME NEW g \in Slots, List!Newest(g)'
      PROVE  List!Newest(g) /\ Got(g)' = Got(g) /\ (v13[f].newest => g # f)
  <2>1. CASE g = f
    BY <1>1, <1>2, <2>1 DEF List!Newest, ListInv
  <2>2. CASE g # f
    BY <1>1, <1>2, <2>2 DEF List!Newest, Got, ListInv
  <2> QED BY <2>1, <2>2
<1>3. CASE ~v13[f].newest
  <2>1. v14' = v14
    BY <1>3 DEF List!Complete, List!Stale
  <2> QED
    BY <1>1, <1>2, <2>1 DEF ListInv
<1>4. CASE v13[f].newest
  <2>1. List!Newest(f)
    BY <1>4 DEF List!Complete, List!Newest
  <2>2. \A g \in Slots : ~List!Newest(g)'
    BY <1>2, <1>4, <2>1 DEF ListInv
  <2>3. CASE Got(f) = NoPage
    <3>1. v14' = List!MarkOffline(v14)
      BY <1>4, <2>3 DEF List!Complete, List!Stale, Got
    <3>2. v14'.at = v14.at
      BY <3>1 DEF List!MarkOffline, List!MarkOfflineList
    <3> QED BY <1>1, <2>2, <3>2 DEF ListInv
  <2>4. CASE Got(f) # NoPage
    <3>1. v14' = List!Fetched(f)
      BY <1>4, <2>4 DEF List!Complete, List!Stale, Got
    <3>2. v14'.at = Got(f).at
      BY <3>1 DEF List!Fetched, List!ApplyPage, Got
    <3> QED BY <1>1, <2>1, <2>2, <2>4, <3>2 DEF ListInv
  <2> QED BY <2>3, <2>4
<1> QED BY <1>3, <1>4

LEMMA ListStep ==
  ASSUME ListInv, [List!Next]_(List!vars)
  PROVE  ListInv' /\ v14'.at >= v14.at
<1>1. ASSUME NEW f \in Slots, List!Complete(f) PROVE ListInv' /\ v14'.at >= v14.at
  BY <1>1, ListComplete
<1>2. v14' = v14 => v14'.at >= v14.at
  BY DEF ListInv
<1>3. CASE List!Signalled
  <2>1. List!Start(v10) /\ v6' = v6 /\ v14' = v14
    BY <1>3 DEF List!Signalled, List!machine
  <2> QED BY <1>2, <2>1, ListFetch
<1>4. CASE List!Poll
  <2>1. List!Start(v10) /\ v6' = v6 /\ v14' = v14
    BY <1>4 DEF List!Poll, List!machine
  <2> QED BY <1>2, <2>1, ListFetch
<1>5. CASE List!Resume
  <2>1. List!Start(v10) /\ v6' = v6 /\ v14' = v14
    BY <1>5 DEF List!Resume, List!Move, List!machine
  <2> QED BY <1>2, <2>1, ListFetch
<1>6. CASE List!Open
  <2>1. List!Start(TRUE) /\ v6' = v6 /\ v14' = v14
    BY <1>6 DEF List!Open, List!Move, List!machine
  <2> QED BY <1>2, <2>1, ListFetch
<1>7. ASSUME NEW f \in Slots, List!Read(f) PROVE ListInv' /\ v14'.at >= v14.at
  <2>1. List!Answer(f, IF v2 THEN List!Page(v5) ELSE NoPage) /\ v14' = v14
    BY <1>7 DEF List!Read, List!Answer
  <2>2. List!Page(v5).at = v6
    BY DEF List!Page
  <2> QED BY <1>2, <2>1, <2>2, ListAnswer
<1>8. ASSUME NEW f \in Slots, NEW a \in {NoPage, List!Page(NoPage)}, List!Fails(f, a)
      PROVE  ListInv' /\ v14'.at >= v14.at
  <2>1. List!Answer(f, a) /\ v14' = v14
    BY <1>8 DEF List!Fails, List!Answer
  <2>2. List!Page(NoPage).at = v6
    BY DEF List!Page
  <2> QED BY <1>2, <2>1, <2>2, ListAnswer
<1>9. ASSUME v13' = v13, v14' = v14, v6' \in {v6, v6 + 1} PROVE ListInv' /\ v14'.at >= v14.at
  BY <1>2, <1>9, ListQuiet
<1>10. CASE List!Asked \/ List!Down \/ List!Up
  BY <1>9, <1>10 DEF List!Asked, List!Down, List!Up, List!Changes
<1>11. CASE List!LineUp \/ List!LineDown
  BY <1>9, <1>11 DEF List!LineUp, List!LineDown, List!machine
<1>12. CASE List!Hide \/ List!Close
  BY <1>9, <1>12 DEF List!Hide, List!Close, List!Move, List!machine
<1>13. ASSUME NEW s \in Sessions, List!Begins(s) PROVE ListInv' /\ v14'.at >= v14.at
  BY <1>9, <1>13 DEF List!Begins, List!Changes
<1>14. ASSUME NEW s \in Sessions, NEW u \in Versions, List!Ends(s, u) \/ List!Summary(s, u)
       PROVE  ListInv' /\ v14'.at >= v14.at
  BY <1>9, <1>14 DEF List!Ends, List!Summary, List!Changes
<1>15. CASE UNCHANGED List!vars
  BY <1>9, <1>15 DEF List!vars, List!machine
<1> QED
  BY <1>1, <1>3, <1>4, <1>5, <1>6, <1>7, <1>8, <1>10, <1>11, <1>12, <1>13, <1>14, <1>15 DEF List!Next

-----------------------------------------------------------------------------
(* The notifications, for any machines and approvals.  As MCScreen names   *)
(* them: v2 is clock, v4 ask, v5 at, v6 pushes, v8 tray, v9 reads, v10      *)
(* lists, v11 jobs.                                                         *)

Pushes == [tag : Keys \cup {None}, m : Machines, ts : Nat \ {0}, list : (SUBSET Keys) \cup {Unread, None}]
Reads == [m : Machines, tags : SUBSET Keys, at : Nat]
Cleanings == [at : [Machines -> Nat], keep : SUBSET (Keys \cup {None})]

NoteTypes ==
  /\ v2 \in Nat \ {0}
  /\ v4 \in [Keys -> {"none", "shown", "quiet"}] /\ v5 \in [Keys -> Nat] /\ v8 \in [Keys -> Nat]
  /\ v6 \subseteq Pushes /\ v9 \subseteq Reads /\ v11 \subseteq Cleanings
  /\ v10 \in [Machines -> [known : BOOLEAN, tags : SUBSET Keys, at : Nat]]

\* What waits at machine m and is not in the list was asked for after it.
Since(tags, m, time) ==
  /\ time <= v2
  /\ \A k \in Keys : Owner[k] = m /\ Notes!Waiting(k) /\ k \notin tags => time <= v5[k]

\* Every list is of its time, and so is what a cleaning takes from lists.
ListsInv ==
  /\ \A p \in v6 : p.ts <= v2 /\ (p.list \notin {Unread, None} => Since(p.list, p.m, p.ts))
  /\ \A r \in v9 : Since(r.tags, r.m, r.at)
  /\ \A m \in Machines : v10[m].known => Since(v10[m].tags, m, v10[m].at)
  /\ \A j \in v11 : \A m \in Machines : j.at[m] # 0 => Since(j.keep, m, j.at[m])

NotesInv ==
  /\ NoteTypes
  /\ \A k \in Keys : Notes!Waiting(k) => v5[k] \in 1 .. v2
  /\ ListsInv

LEMMA NotesStart == Notes!Init => NotesInv
<1> SUFFICES ASSUME Notes!Init PROVE NotesInv
  OBVIOUS
<1>1. NoteTypes
  BY DEF Notes!Init, Notes!Unknown, NoteTypes
<1>2. ~\E k \in Keys : Notes!Waiting(k)
  BY DEF Notes!Init, Notes!Waiting
<1>3. ListsInv
  BY DEF Notes!Init, Notes!Unknown, ListsInv
<1> QED BY <1>1, <1>2, <1>3 DEF NotesInv

(* A list stays true of its time: whoever waits later was asked for later. *)
AskedLater ==
  /\ v2 \in Nat \ {0} /\ v2' \in Nat \ {0} /\ v2 <= v2'
  /\ \A k \in Keys : Notes!Waiting(k)' =>
       \/ Notes!Waiting(k) /\ v5'[k] = v5[k]
       \/ v2 <= v5'[k]

LEMMA SinceKept ==
  ASSUME NotesInv, AskedLater, v5' \in [Keys -> Nat],
         NEW tags, NEW m, NEW time \in Nat, Since(tags, m, time)
  PROVE  Since(tags, m, time)'
BY DEF NotesInv, NoteTypes, AskedLater, Since

(* The present list is of the present time.                                *)
LEMMA SinceNow ==
  ASSUME NotesInv, NEW m \in Machines, NEW time \in Nat, time <= v2
  PROVE  Since(Notes!PendingTags(m), m, time) /\ Notes!PendingTags(m) \in SUBSET Keys
BY DEF Since, Notes!PendingTags

(* What is under way keeps its time.                                        *)
LEMMA ListsKept ==
  ASSUME NotesInv, AskedLater, v5' \in [Keys -> Nat]
  PROVE  /\ \A p \in v6 : p.ts <= v2' /\ (p.list \notin {Unread, None} => Since(p.list, p.m, p.ts)')
         /\ \A r \in v9 : Since(r.tags, r.m, r.at)'
         /\ \A m \in Machines, tags \in SUBSET Keys, time \in Nat :
              v10[m].known /\ v10[m].tags = tags /\ v10[m].at = time => Since(tags, m, time)'
         /\ \A j \in v11 : \A m \in Machines : j.at[m] # 0 => Since(j.keep, m, j.at[m])'
<1>1. ASSUME NEW p \in v6
      PROVE  p.ts <= v2' /\ (p.list \notin {Unread, None} => Since(p.list, p.m, p.ts)')
  <2>1. p.ts \in Nat /\ p.ts <= v2 /\ (p.list \notin {Unread, None} => Since(p.list, p.m, p.ts))
    BY DEF NotesInv, NoteTypes, ListsInv, Pushes
  <2>2. p.ts <= v2'
    BY <2>1 DEF AskedLater
  <2> QED BY <2>1, <2>2, SinceKept
<1>2. ASSUME NEW r \in v9 PROVE Since(r.tags, r.m, r.at)'
  <2>1. r.at \in Nat /\ Since(r.tags, r.m, r.at)
    BY DEF NotesInv, NoteTypes, ListsInv, Reads
  <2> QED BY <2>1, SinceKept
<1>3. ASSUME NEW m \in Machines, NEW tags \in SUBSET Keys, NEW time \in Nat,
             v10[m].known, v10[m].tags = tags, v10[m].at = time
      PROVE  Since(tags, m, time)'
  BY <1>3, SinceKept DEF NotesInv, ListsInv
<1>4. ASSUME NEW j \in v11, NEW m \in Machines, j.at[m] # 0 PROVE Since(j.keep, m, j.at[m])'
  <2>1. j.at[m] \in Nat /\ Since(j.keep, m, j.at[m])
    BY <1>4 DEF NotesInv, NoteTypes, ListsInv, Cleanings
  <2> QED BY <2>1, SinceKept
<1> QED BY <1>1, <1>2, <1>3, <1>4

(* Enough that what is new is of its time.                                  *)
LEMMA NotesKept ==
  ASSUME NotesInv, AskedLater, NoteTypes',
         \A k \in Keys : Notes!Waiting(k)' => v5'[k] \in 1 .. v2',
         \A p \in v6' \ v6 : p.ts <= v2' /\ (p.list \notin {Unread, None} => Since(p.list, p.m, p.ts)'),
         \A r \in v9' \ v9 : Since(r.tags, r.m, r.at)',
         \A m \in Machines : v10'[m] # v10[m] /\ v10'[m].known => Since(v10[m].tags, m, v10[m].at)',
         \A j \in v11' \ v11 : \A m \in Machines : j.at[m] # 0 => Since(j.keep, m, j.at[m])'
  PROVE  NotesInv'
<1>1. v5' \in [Keys -> Nat]
  BY DEF NoteTypes
<1>2. ASSUME NEW m \in Machines, v10'[m].known PROVE Since(v10[m].tags, m, v10[m].at)'
  <2>1. CASE v10'[m] = v10[m]
    <3>1. PICK tags \in SUBSET Keys, time \in Nat : tags = v10'[m].tags /\ time = v10'[m].at
      BY DEF NoteTypes
    <3>2. v10[m].known /\ v10[m].tags = tags /\ v10[m].at = time
      BY <1>2, <2>1, <3>1
    <3>3. Since(tags, m, time)'
      BY <1>1, <3>2, ListsKept
    <3> QED BY <3>1, <3>3
  <2>2. CASE v10'[m] # v10[m]
    BY <1>2, <2>2
  <2> QED BY <2>1, <2>2
<1>3. ListsInv'
  BY <1>1, <1>2, ListsKept DEF ListsInv
<1> QED BY <1>3 DEF NotesInv

(* Between two steps of the agents nothing is asked for.                   *)
LEMMA AgentsRest ==
  ASSUME NotesInv, v2' = v2, v4' = v4, v5' = v5
  PROVE  /\ AskedLater
         /\ \A k \in Keys : Notes!Waiting(k)' => v5'[k] \in 1 .. v2'
         /\ \A tags, m, time : Since(tags, m, time)' <=> Since(tags, m, time)
BY DEF NotesInv, NoteTypes, AskedLater, Notes!Waiting, Since

(* The agents.                                                             *)
LEMMA RaiseKept ==
  ASSUME NotesInv, NEW k \in Keys, NEW sub \in BOOLEAN, NEW time \in v2 .. v2 + 1,
         Notes!Raise(k, sub, time)
  PROVE  NotesInv' /\ Notes!LiveStays
<1>1. /\ v2 \in Nat \ {0} /\ time \in Nat \ {0} /\ v2 <= time /\ v2' = time
      /\ v5' = [v5 EXCEPT ![k] = time] /\ v4' = [v4 EXCEPT ![k] = IF sub THEN "quiet" ELSE "shown"]
      /\ v8' = v8 /\ v9' = v9 /\ v10' = v10 /\ v11' = v11
  BY DEF Notes!Raise, Notes!app, NotesInv, NoteTypes
<1>2. v5 \in [Keys -> Nat] /\ v4 \in [Keys -> {"none", "shown", "quiet"}]
  BY DEF NotesInv, NoteTypes
<1>3. AskedLater
  BY <1>1, <1>2 DEF AskedLater, Notes!Waiting
<1>4. \A q \in Keys : Notes!Waiting(q)' => v5'[q] \in 1 .. v2'
  BY <1>1, <1>2 DEF NotesInv, Notes!Waiting
<1>5. v6' \subseteq v6 \cup {[tag |-> k, m |-> Owner[k], ts |-> time, list |-> Unread]}
  BY DEF Notes!Raise, Notes!Push
<1>6. Owner[k] \in Machines
  BY ScreenAssumption DEF Notes!TrayAssumption
<1>7. [tag |-> k, m |-> Owner[k], ts |-> time, list |-> Unread] \in Pushes
  BY <1>1, <1>6 DEF Pushes
<1>8. NoteTypes'
  BY <1>1, <1>2, <1>5, <1>7 DEF NotesInv, NoteTypes
<1>9. \A p \in v6' \ v6 : p.ts <= v2' /\ p.list = Unread
  BY <1>1, <1>5
<1>10. NotesInv'
  BY <1>1, <1>3, <1>4, <1>8, <1>9, NotesKept
<1> QED BY <1>1, <1>10 DEF Notes!LiveStays

(* A push is sent of a request that waits, or of the end of a turn.        *)
LEMMA PushKept ==
  ASSUME NotesInv, NEW tag \in Keys \cup {None}, NEW m \in Machines, NEW time \in 1 .. v2,
         Notes!Push(tag, m, time),
         v2' = v2, v5' = v5, v4' \in [Keys -> {"none", "shown", "quiet"}],
         \A k \in Keys : Notes!Waiting(k)' => Notes!Waiting(k),
         UNCHANGED <<v8, v9, v10, v11>>
  PROVE  NotesInv' /\ Notes!LiveStays
<1>1. v2 \in Nat \ {0} /\ time \in Nat \ {0} /\ time <= v2
  BY DEF NotesInv, NoteTypes
<1>2. v6' = v6 \cup {[tag |-> tag, m |-> m, ts |-> time, list |-> Unread]}
  BY DEF Notes!Push
<1>3. [tag |-> tag, m |-> m, ts |-> time, list |-> Unread] \in Pushes
  BY <1>1 DEF Pushes
<1>4. AskedLater /\ \A k \in Keys : Notes!Waiting(k)' => v5'[k] \in 1 .. v2'
  BY DEF NotesInv, NoteTypes, AskedLater
<1>5. NoteTypes'
  BY <1>2, <1>3 DEF NotesInv, NoteTypes
<1>6. \A p \in v6' \ v6 : p.ts <= v2' /\ p.list = Unread
  BY <1>1, <1>2
<1>7. NotesInv'
  BY <1>4, <1>5, <1>6, NotesKept
<1> QED BY <1>7 DEF Notes!LiveStays

LEMMA PromoteKept ==
  ASSUME NotesInv, NEW k \in Keys, Notes!Promote(k)
  PROVE  NotesInv' /\ Notes!LiveStays
<1>1. v4 \in [Keys -> {"none", "shown", "quiet"}] /\ Owner[k] \in Machines
  BY ScreenAssumption DEF NotesInv, NoteTypes, Notes!TrayAssumption
<1>2. v5[k] \in 1 .. v2
  BY DEF NotesInv, Notes!Promote, Notes!Waiting
<1>3. v4' \in [Keys -> {"none", "shown", "quiet"}] /\ \A q \in Keys : Notes!Waiting(q)' => Notes!Waiting(q)
  BY <1>1 DEF Notes!Promote, Notes!Waiting
<1> QED
  BY <1>1, <1>2, <1>3, PushKept DEF Notes!Promote, Notes!app

LEMMA StopsKept ==
  ASSUME NotesInv, NEW m \in Machines, Notes!Stops(m)
  PROVE  NotesInv' /\ Notes!LiveStays
<1>1. v2 \in 1 .. v2 /\ v4' = v4 /\ v4' \in [Keys -> {"none", "shown", "quiet"}]
  BY DEF NotesInv, NoteTypes, Notes!Stops, Notes!agent
<1>2. \A q \in Keys : Notes!Waiting(q)' => Notes!Waiting(q)
  BY <1>1 DEF Notes!Waiting
<1> QED
  BY <1>1, <1>2, PushKept DEF Notes!Stops, Notes!agent, Notes!app

LEMMA SettleKept ==
  ASSUME NotesInv, NEW k \in Keys, Notes!Settle(k)
  PROVE  NotesInv' /\ Notes!LiveStays
<1>1. NoteTypes'
  BY DEF Notes!Settle, Notes!app, NotesInv, NoteTypes
<1>2. \A q \in Keys : Notes!Waiting(q)' => Notes!Waiting(q)
  BY DEF Notes!Settle, Notes!Waiting, NotesInv, NoteTypes
<1>3. AskedLater /\ \A q \in Keys : Notes!Waiting(q)' => v5'[q] \in 1 .. v2'
  BY <1>2 DEF Notes!Settle, NotesInv, NoteTypes, AskedLater
<1>4. UNCHANGED <<v6, v8, v9, v10, v11>>
  BY DEF Notes!Settle, Notes!app
<1>5. NotesInv'
  BY <1>1, <1>3, <1>4, NotesKept
<1> QED BY <1>4, <1>5 DEF Notes!LiveStays

(* What is under way, while the agents rest.                               *)
LEMMA PayloadKept ==
  ASSUME NotesInv, NEW p \in v6, NEW room \in BOOLEAN, Notes!WithPendingPerms(p, room)
  PROVE  NotesInv' /\ Notes!LiveStays
<1> DEFINE L == IF room THEN Notes!PendingTags(p.m) ELSE None
           q == [p EXCEPT !.list = L]
<1>1. /\ UNCHANGED <<v2, v4, v5, v8, v9, v10, v11>>
      /\ v6' = (v6 \ {p}) \cup {q}
  BY DEF Notes!WithPendingPerms, Notes!agent, Notes!app
<1>2. /\ p \in Pushes /\ p.ts \in Nat /\ p.ts <= v2 /\ p.m \in Machines
  BY DEF NotesInv, NoteTypes, ListsInv, Pushes
<1>3. Since(Notes!PendingTags(p.m), p.m, p.ts) /\ Notes!PendingTags(p.m) \in SUBSET Keys
  BY <1>2, SinceNow
<1>4. q \in Pushes /\ q.m = p.m /\ q.ts = p.ts /\ q.list = L
  BY <1>2, <1>3 DEF Pushes
<1>5. q.list \notin {Unread, None} => Since(q.list, q.m, q.ts)
  BY <1>3, <1>4
<1> HIDE DEF q
<1>6. NoteTypes'
  BY <1>1, <1>4 DEF NotesInv, NoteTypes
<1>7. ASSUME NEW r \in v6' \ v6
      PROVE  r.ts <= v2' /\ (r.list \notin {Unread, None} => Since(r.list, r.m, r.ts)')
  <2>1. r = q
    BY <1>1
  <2>2. r.list \notin {Unread, None} => Since(r.list, r.m, r.ts)
    BY <1>5, <2>1
  <2>3. r.ts <= v2'
    BY <1>1, <1>2, <1>4, <2>1
  <2> QED BY <1>1, <2>2, <2>3, AgentsRest
<1>8. NotesInv'
  BY <1>1, <1>6, <1>7, AgentsRest, NotesKept
<1> QED BY <1>1, <1>8 DEF Notes!LiveStays

(* Its list goes on with the cleaning that a notification asks for.        *)
LEMMA DeliverKept ==
  ASSUME NotesInv, NEW p \in v6, Notes!Deliver(p)
  PROVE  NotesInv' /\ Notes!LiveStays
<1> DEFINE at == [m \in Machines |-> IF m = p.m THEN p.ts ELSE 0]
           j == [at |-> at, keep |-> p.list \cup {p.tag}]
<1>1. /\ UNCHANGED <<v2, v4, v5, v9, v10>> /\ v6' \subseteq v6
      /\ v8' = IF p.tag = None THEN v8 ELSE [v8 EXCEPT ![p.tag] = p.ts]
      /\ p.list # Unread
      /\ IF p.list = None THEN v11' = v11 ELSE v11' = v11 \cup {j}
  BY DEF Notes!Deliver, Notes!agent, Notes!app, Notes!Adds, Notes!Job
<1>2. /\ p \in Pushes /\ p.ts \in Nat \ {0} /\ p.m \in Machines /\ p.tag \in Keys \cup {None}
      /\ p.list # None => p.list \in SUBSET Keys /\ Since(p.list, p.m, p.ts)
  BY <1>1 DEF NotesInv, NoteTypes, ListsInv, Pushes
<1>3. v8' \in [Keys -> Nat]
  BY <1>1, <1>2 DEF NotesInv, NoteTypes
<1>4. p.list # None => j \in Cleanings
  BY <1>2 DEF Cleanings
<1>5. NoteTypes'
  BY <1>1, <1>3, <1>4 DEF NotesInv, NoteTypes
<1>6. ASSUME NEW c \in v11' \ v11, NEW m \in Machines, c.at[m] # 0
      PROVE  Since(c.keep, m, c.at[m])'
  <2>1. p.list # None /\ c.at = at /\ c.keep = p.list \cup {p.tag}
    BY <1>1, <1>6
  <2>2. m = p.m /\ at[m] = p.ts
    BY <1>6, <2>1
  <2>3. Since(c.keep, m, p.ts)
    BY <1>2, <2>1, <2>2 DEF Since
  <2>4. c.at[m] = p.ts
    BY <2>1, <2>2
  <2> QED BY <1>1, <2>3, <2>4, AgentsRest
<1>7. NotesInv'
  BY <1>1, <1>5, <1>6, AgentsRest, NotesKept
<1>8. ASSUME NEW k \in Keys, v8[k] # 0 PROVE v8'[k] # 0
  BY <1>1, <1>2, <1>8 DEF NotesInv, NoteTypes
<1> QED BY <1>7, <1>8 DEF Notes!LiveStays

LEMMA LostKept ==
  ASSUME NotesInv, NEW p \in v6, Notes!Lost(p)
  PROVE  NotesInv' /\ Notes!LiveStays
<1>1. UNCHANGED <<v2, v4, v5, v8, v9, v10, v11>> /\ v6' \subseteq v6
  BY DEF Notes!Lost, Notes!agent, Notes!app
<1>2. NoteTypes'
  BY <1>1 DEF NotesInv, NoteTypes
<1>3. NotesInv'
  BY <1>1, <1>2, AgentsRest, NotesKept
<1> QED BY <1>1, <1>3 DEF Notes!LiveStays

LEMMA PermissionsKept ==
  ASSUME NotesInv, NEW m \in Machines, Notes!Permissions(m)
  PROVE  NotesInv' /\ Notes!LiveStays
<1> DEFINE r == [m |-> m, tags |-> Notes!PendingTags(m), at |-> v2]
<1>1. UNCHANGED <<v2, v4, v5, v6, v8, v10, v11>> /\ v9' = v9 \cup {r}
  BY DEF Notes!Permissions, Notes!agent
<1>2. v2 \in Nat
  BY DEF NotesInv, NoteTypes
<1>3. Since(Notes!PendingTags(m), m, v2) /\ Notes!PendingTags(m) \in SUBSET Keys
  BY <1>2, SinceNow
<1>4. r \in Reads /\ Since(r.tags, r.m, r.at)
  BY <1>2, <1>3 DEF Reads
<1> HIDE DEF r
<1>5. NoteTypes'
  BY <1>1, <1>4 DEF NotesInv, NoteTypes
<1>6. \A x \in v9' \ v9 : Since(x.tags, x.m, x.at)'
  <2> SUFFICES ASSUME NEW x \in v9' \ v9 PROVE Since(x.tags, x.m, x.at)'
    OBVIOUS
  <2>1. x = r
    BY <1>1
  <2>2. Since(x.tags, x.m, x.at)
    BY <1>4, <2>1
  <2> QED BY <1>1, <2>2, AgentsRest
<1>7. NotesInv'
  BY <1>1, <1>5, <1>6, AgentsRest, NotesKept
<1> QED BY <1>1, <1>7 DEF Notes!LiveStays

(* What the app knows is of its time, and so is the cleaning for which it   *)
(* is put together from all machines that can be reached.                   *)
LEMMA TidiesKept ==
  ASSUME NotesInv, UNCHANGED <<v2, v4, v5, v6, v8>>, v9' \subseteq v9,
         v10' \in [Machines -> [known : BOOLEAN, tags : SUBSET Keys, at : Nat]],
         \A m \in Machines : v10'[m] # v10[m] /\ v10'[m].known => Since(v10[m].tags, m, v10[m].at)',
         Notes!Tidies(v10')
  PROVE  NotesInv' /\ Notes!LiveStays
<1> DEFINE L == v10'
           at == [m \in Machines |-> IF L[m].known THEN L[m].at ELSE 0]
           keep == UNION {L[m].tags : m \in {x \in Machines : L[x].known}}
           j == [at |-> at, keep |-> keep]
<1>1. v11' \subseteq v11 \cup {j}
  BY DEF Notes!Tidies, Notes!Adds, Notes!Job
<1>2. at \in [Machines -> Nat] /\ keep \in SUBSET Keys
  OBVIOUS
<1>3. j \in Cleanings
  BY <1>2 DEF Cleanings
<1>4. NoteTypes'
  BY <1>1, <1>3 DEF NotesInv, NoteTypes
<1>5. \A m \in Machines : L[m].known => Since(L[m].tags, m, L[m].at)
  <2> SUFFICES ASSUME NEW m \in Machines, L[m].known PROVE Since(L[m].tags, m, L[m].at)
    OBVIOUS
  <2>1. CASE L[m] = v10[m]
    BY <2>1 DEF NotesInv, ListsInv
  <2>2. CASE L[m] # v10[m]
    <3>1. PICK tags, time : tags = L[m].tags /\ time = L[m].at
      OBVIOUS
    <3>2. Since(v10[m].tags, m, v10[m].at)'
      BY <2>2
    <3>3. Since(tags, m, time)'
      BY <3>1, <3>2
    <3>4. Since(tags, m, time)
      BY <3>3, AgentsRest
    <3> QED BY <3>1, <3>4
  <2> QED BY <2>1, <2>2
<1>6. ASSUME NEW c \in v11' \ v11, NEW m \in Machines, c.at[m] # 0
      PROVE  Since(c.keep, m, c.at[m])'
  <2>1. c.at = at /\ c.keep = keep
    BY <1>1, <1>6
  <2>2. L[m].known /\ at[m] = L[m].at
    BY <1>6, <2>1
  <2>3. L[m].tags \subseteq keep
    BY <2>2
  <2>4. Since(keep, m, L[m].at)
    BY <1>5, <2>2, <2>3 DEF Since
  <2>5. c.at[m] = L[m].at
    BY <2>1, <2>2
  <2>6. Since(c.keep, m, c.at[m])
    BY <2>1, <2>4, <2>5
  <2> QED BY <2>6, AgentsRest
<1>7. \A r \in v9' \ v9 : Since(r.tags, r.m, r.at)'
  OBVIOUS
<1>8. NotesInv'
  BY <1>4, <1>6, <1>7, AgentsRest, NotesKept
<1> QED BY <1>8 DEF Notes!LiveStays

LEMMA ArriveKept ==
  ASSUME NotesInv, NEW r \in v9, Notes!Arrive(r)
  PROVE  NotesInv' /\ Notes!LiveStays
<1>1. /\ UNCHANGED <<v2, v4, v5, v6, v8>> /\ v9' \subseteq v9 /\ Notes!Tidies(v10')
      /\ v10' = [v10 EXCEPT ![r.m] = [known |-> TRUE, tags |-> r.tags, at |-> r.at]]
  BY DEF Notes!Arrive, Notes!agent
<1>2. r \in Reads /\ Since(r.tags, r.m, r.at)
  BY DEF NotesInv, NoteTypes, ListsInv
<1>3. /\ r.m \in Machines /\ r.tags \in SUBSET Keys /\ r.at \in Nat
      /\ v10 \in [Machines -> [known : BOOLEAN, tags : SUBSET Keys, at : Nat]]
  BY <1>2 DEF Reads, NotesInv, NoteTypes
<1>4. v10' \in [Machines -> [known : BOOLEAN, tags : SUBSET Keys, at : Nat]]
  BY <1>1, <1>3
<1>5. ASSUME NEW m \in Machines, v10'[m] # v10[m] PROVE Since(v10[m].tags, m, v10[m].at)'
  <2>1. m = r.m /\ v10'[m].tags = r.tags /\ v10'[m].at = r.at
    BY <1>1, <1>3, <1>5
  <2>2. Since(r.tags, m, r.at)'
    BY <1>1, <1>2, <2>1, AgentsRest
  <2> QED BY <2>1, <2>2
<1> QED BY <1>1, <1>4, <1>5, TidiesKept

LEMMA OfflineKept ==
  ASSUME NotesInv, NEW m \in Machines, Notes!Offline(m)
  PROVE  NotesInv' /\ Notes!LiveStays
<1>1. /\ UNCHANGED <<v2, v4, v5, v6, v8, v9>> /\ Notes!Tidies(v10')
      /\ v10' = [v10 EXCEPT ![m].known = FALSE, ![m].at = 0]
  BY DEF Notes!Offline, Notes!agent
<1>2. v10 \in [Machines -> [known : BOOLEAN, tags : SUBSET Keys, at : Nat]]
  BY DEF NotesInv, NoteTypes
<1>3. v10' \in [Machines -> [known : BOOLEAN, tags : SUBSET Keys, at : Nat]]
  BY <1>1, <1>2
<1>4. \A x \in Machines : v10'[x] # v10[x] => ~v10'[x].known
  BY <1>1, <1>2
<1> QED BY <1>1, <1>3, <1>4, TidiesKept

(* An approval that waits and is not in a list was asked for after it, and  *)
(* so its notification is no older than the list.                           *)
LEMMA CleanKept ==
  ASSUME NotesInv, NEW j \in v11, Notes!Clean(j)
  PROVE  NotesInv' /\ Notes!LiveStays
<1>1. /\ UNCHANGED <<v2, v4, v5, v6, v9, v10>> /\ v11' \subseteq v11
      /\ v8' = [k \in Keys |-> IF k \in Notes!StaleTags(j) THEN 0 ELSE v8[k]]
  BY DEF Notes!Clean, Notes!agent, Notes!app
<1>2. NoteTypes'
  BY <1>1 DEF NotesInv, NoteTypes
<1>3. NotesInv'
  BY <1>1, <1>2, AgentsRest, NotesKept
<1>4. ASSUME NEW k \in Keys, v8[k] # 0, v8[k] = v5[k], v8'[k] = 0, Notes!Waiting(k) PROVE FALSE
  <2>1. k \notin j.keep /\ j.at[Owner[k]] # 0 /\ v8[k] < j.at[Owner[k]]
    BY <1>1, <1>4 DEF Notes!StaleTags
  <2>2. Owner[k] \in Machines /\ v5[k] \in Nat /\ j.at \in [Machines -> Nat]
    BY ScreenAssumption DEF Notes!TrayAssumption, NotesInv, NoteTypes, Cleanings
  <2>3. Since(j.keep, Owner[k], j.at[Owner[k]])
    BY <2>1, <2>2 DEF NotesInv, ListsInv
  <2>4. j.at[Owner[k]] <= v5[k]
    BY <1>4, <2>1, <2>3 DEF Since
  <2> QED BY <1>4, <2>1, <2>2, <2>4
<1> QED BY <1>3, <1>4 DEF Notes!LiveStays

LEMMA NotesStep ==
  ASSUME NotesInv, Notes!Next \/ UNCHANGED Notes!vars
  PROVE  NotesInv' /\ Notes!LiveStays
<1>1. CASE UNCHANGED Notes!vars
  <2>1. UNCHANGED <<v2, v4, v5, v6, v8, v9, v10, v11>>
    BY <1>1 DEF Notes!vars, Notes!agent, Notes!app
  <2>2. NoteTypes'
    BY <2>1 DEF NotesInv, NoteTypes
  <2>3. NotesInv'
    BY <2>1, <2>2, AgentsRest, NotesKept
  <2> QED BY <2>1, <2>3 DEF Notes!LiveStays
<1>2. ASSUME NEW k \in Keys, NEW sub \in BOOLEAN, NEW time \in v2 .. v2 + 1, Notes!Raise(k, sub, time)
      PROVE  NotesInv' /\ Notes!LiveStays
  BY <1>2, RaiseKept
<1>3. ASSUME NEW k \in Keys, Notes!Promote(k) \/ Notes!Settle(k)
      PROVE  NotesInv' /\ Notes!LiveStays
  BY <1>3, PromoteKept, SettleKept
<1>4. ASSUME NEW m \in Machines, Notes!Stops(m) \/ Notes!Permissions(m) \/ Notes!Offline(m)
      PROVE  NotesInv' /\ Notes!LiveStays
  BY <1>4, StopsKept, PermissionsKept, OfflineKept
<1>5. ASSUME NEW p \in v6,
             Notes!Deliver(p) \/ Notes!Lost(p) \/ \E room \in BOOLEAN : Notes!WithPendingPerms(p, room)
      PROVE  NotesInv' /\ Notes!LiveStays
  BY <1>5, DeliverKept, LostKept, PayloadKept
<1>6. ASSUME NEW r \in v9, Notes!Arrive(r) PROVE NotesInv' /\ Notes!LiveStays
  BY <1>6, ArriveKept
<1>7. ASSUME NEW j \in v11, Notes!Clean(j) PROVE NotesInv' /\ Notes!LiveStays
  BY <1>7, CleanKept
<1> QED BY <1>1, <1>2, <1>3, <1>4, <1>5, <1>6, <1>7 DEF Notes!Next

-----------------------------------------------------------------------------
(* The ends of turns, for any number of turns and announcements.  v1 is     *)
(* cli, v3 record, v4 owes, v7 stop, v8 fresh, v9 asked, v10 cards, v11     *)
(* task, v12 last, v13 told, v14 carded, v15 dropped.                       *)

Status == {"busy", "waiting", "shell", "idle"}
Said == {"needs attention", "failed", "responding", "background", "done", "starting", "unknown"}
Waits == [step : {"wait", "look", "decide"}, event : {"Stop", "StopFailure", "permission", "idle"},
          turn : Nat, probe : Status \cup {"gone", "unknown"},
          rested : BOOLEAN, needed : BOOLEAN, resumed : BOOLEAN]
Sends == [step : {"send", "sent"}, turn : Nat, label : Said, asItIs : BOOLEAN]

TurnTypes ==
  /\ v1 \in {"busy", "dialog", "shell", "idle", "gone"} /\ v2 \in Nat
  /\ v3 \in Status /\ v4 \in BOOLEAN /\ v9 \in BOOLEAN
  /\ v12 \in [turn : Nat, label : Said] \cup {None}

\* The session and its record: at rest nobody is waited for, and the record
\* says "busy" only while it is owed.
CliInv ==
  /\ v4 => v1 \in {"idle", "shell", "gone"} /\ v3 = "busy"
  /\ v1 \in {"idle", "shell"} => ~v9 /\ v3 # "waiting" /\ (v3 = "busy" => v4)
  /\ v1 = "shell" => v3 # "idle"

\* What an announcement t has seen bears out what it may find: in the record
\* and the notes now, or when it has looked.
Heeds(t, cli, record, owes, asked) ==
  /\ t.step = "wait" => t.event = "Stop"
  /\ t.step = "look" => t.event \in {"permission", "idle"}
  /\ t.event = "permission" => t.needed
  /\ t.event \in {"Stop", "idle"} =>
       /\ cli \in {"idle", "gone"} \/ record = "idle" => t.rested
       /\ cli = "dialog" \/ record = "waiting" \/ asked => t.needed
       /\ cli \in {"busy", "dialog"} \/ (record = "busy" /\ (t.event = "idle" \/ ~owes)) => t.resumed
       /\ t.step = "decide" =>
            /\ t.probe \in {"idle", "gone"} => t.rested
            /\ t.probe = "waiting" => t.needed
            /\ t.probe = "busy" => t.resumed

\* An announcement under way; that of a turn's end that was sent is told.
Fits(t, cli, record, owes, asked, told) ==
  \/ t = Turns!Idle
  \/ t \in Waits /\ Heeds(t, cli, record, owes, asked)
  \/ t \in Sends /\ t.asItIs /\ (t.step = "sent" /\ t.turn # 0 => t.turn \in told)

TaskInv ==
  v11 = [p \in Tasks |-> v11[p]] /\ \A p \in Tasks : Fits(v11[p], v1, v3, v4, v9, v13)

LastInv == v12 # None /\ v12.turn # 0 => v12.turn \in v13 \cup v14

TurnInv == TurnTypes /\ CliInv /\ TaskInv /\ LastInv /\ Turns!EveryTurnTold

(* The announcements, told apart by their step.                            *)
LEMMA Kinds ==
  ASSUME TaskInv, NEW p \in Tasks
  PROVE  /\ v11[p] \in Waits <=> v11[p].step \in {"wait", "look", "decide"}
         /\ v11[p] \in Sends <=> v11[p].step \in {"send", "sent"}
         /\ v11[p] = Turns!Idle <=> v11[p].step = "none"
         /\ v11[p].step \in {"wait", "look", "decide", "send", "sent", "none"}
BY DEF TaskInv, Fits, Turns!Idle, Waits, Sends

LEMMA TurnStart == Turns!Init => TurnInv
<1> SUFFICES ASSUME Turns!Init PROVE TurnInv
  OBVIOUS
<1>1. TurnTypes /\ CliInv /\ LastInv /\ Turns!EveryTurnTold
  BY DEF Turns!Init, TurnTypes, CliInv, LastInv, Turns!EveryTurnTold, Status
<1>2. TaskInv
  BY DEF Turns!Init, TaskInv, Fits
<1> QED BY <1>1, <1>2 DEF TurnInv

LEMMA TurnsTold == TurnInv => Turns!ToldAsItIs /\ Turns!EveryTurnTold
<1> SUFFICES ASSUME TurnInv, NEW p \in Tasks, v11[p].step \in {"send", "sent"} PROVE v11[p].asItIs
  BY DEF TurnInv, Turns!ToldAsItIs
<1>1. TaskInv /\ v11[p] \in Sends
  BY Kinds DEF TurnInv
<1>2. v11[p] \notin Waits /\ v11[p] # Turns!Idle
  BY <1>1 DEF Sends, Waits, Turns!Idle
<1> QED BY <1>1, <1>2 DEF TaskInv, Fits

(* What an announcement sees of what happens next.                         *)
LEMMA SinceWatches ==
  ASSUME TaskInv, NEW p \in Tasks, NEW c, NEW cs
  PROVE  LET t == v11[p]
             n == Turns!Since(c, cs)[p]
         IN /\ t \notin Waits => n = t
            /\ t \in Waits =>
                 /\ n \in Waits /\ n.step = t.step /\ n.event = t.event /\ n.turn = t.turn /\ n.probe = t.probe
                 /\ n.rested <=> t.rested \/ c \in {"idle", "gone"}
                 /\ n.needed <=> t.needed \/ c = "dialog" \/ cs # {}
                 /\ n.resumed <=> t.resumed \/ c = "busy"
<1> DEFINE t == v11[p]
           n == Turns!Since(c, cs)[p]
<1>1. CASE t \notin Waits
  <2>1. t.step \in {"none", "send", "sent"}
    BY <1>1, Kinds
  <2> QED BY <1>1, <2>1 DEF Turns!Since
<1>2. CASE t \in Waits
  <2>1. t.step \notin {"none", "send", "sent"}
    BY <1>2 DEF Waits
  <2>2. n = [t EXCEPT !.rested = @ \/ c \in {"idle", "gone"},
                      !.needed = @ \/ c = "dialog" \/ cs # {},
                      !.resumed = @ \/ c = "busy"]
    BY <2>1 DEF Turns!Since
  <2>3. /\ n \in Waits /\ n.step = t.step /\ n.event = t.event /\ n.turn = t.turn /\ n.probe = t.probe
        /\ n.rested = (t.rested \/ c \in {"idle", "gone"})
        /\ n.needed = (t.needed \/ c = "dialog" \/ cs # {})
        /\ n.resumed = (t.resumed \/ c = "busy")
    <3> HIDE DEF n
    <3> QED BY <1>2, <2>2 DEF Waits
  <2> QED BY <1>2, <2>3
<1> QED BY <1>1, <1>2

(* Nothing that happens between two steps of an announcement is missed: the *)
(* record says what it said, the session comes to ask only at work.         *)
SessionMoves(c) ==
  /\ v3' = v3 /\ (v4 => v4') /\ (v9' => v9 \/ c = "dialog")
  /\ c = "dialog" => v1 \in {"busy", "dialog"}

LEMMA SinceFits ==
  ASSUME TurnInv, NEW p \in Tasks, NEW c, NEW cs, SessionMoves(c), v13' = v13
  PROVE  Fits(Turns!Since(c, cs)[p], c, v3', v4', v9', v13')
<1>1. TaskInv /\ TurnTypes
  BY DEF TurnInv
<1>2. CASE v11[p] \in Waits
  <2>1. Heeds(v11[p], v1, v3, v4, v9)
    BY <1>1, <1>2 DEF TaskInv, Fits, Waits, Sends, Turns!Idle
  <2>2. Turns!Since(c, cs)[p] \in Waits /\ Heeds(Turns!Since(c, cs)[p], c, v3', v4', v9')
    BY <1>1, <1>2, <2>1, SinceWatches DEF TurnTypes, Heeds, SessionMoves
  <2> QED BY <2>2 DEF Fits
<1>3. CASE v11[p] \notin Waits
  <2>1. Turns!Since(c, cs)[p] = v11[p]
    BY <1>1, <1>3, SinceWatches
  <2> QED BY <1>1, <1>3, <2>1 DEF TaskInv, Fits
<1> QED BY <1>2, <1>3

(* A step of the session, with an announcement that begins or without.      *)
LEMMA SessionStep ==
  ASSUME TurnInv, NEW c, NEW cs, SessionMoves(c), v1' = c, CliInv', TurnTypes',
         v11' = [p \in Tasks |-> v11'[p]],
         \A p \in Tasks : \/ v11'[p] = Turns!Since(c, cs)[p]
                          \/ v11'[p] \in Waits /\ Heeds(v11'[p], c, v3', v4', v9'),
         UNCHANGED <<v12, v13, v14, v15>>
  PROVE  TurnInv'
<1>1. ASSUME NEW p \in Tasks PROVE Fits(v11'[p], c, v3', v4', v9', v13')
  <2>1. CASE v11'[p] = Turns!Since(c, cs)[p]
    BY <2>1, SinceFits
  <2>2. CASE v11'[p] \in Waits /\ Heeds(v11'[p], c, v3', v4', v9')
    BY <2>2 DEF Fits
  <2> QED BY <2>1, <2>2
<1>2. TaskInv' /\ LastInv' /\ Turns!EveryTurnTold'
  BY <1>1 DEF TaskInv, TurnInv, LastInv, Turns!EveryTurnTold
<1> QED BY <1>2 DEF TurnInv

(* Without one.                                                             *)
LEMMA SessionAlone ==
  ASSUME TurnInv, NEW c, NEW cs, SessionMoves(c), v1' = c, CliInv', TurnTypes',
         v11' = Turns!Since(c, cs), UNCHANGED <<v12, v13, v14, v15>>
  PROVE  TurnInv'
<1>1. v11' = [p \in Tasks |-> v11'[p]]
  BY DEF Turns!Since
<1>2. \A p \in Tasks : Fits(v11'[p], c, v3', v4', v9', v13')
  BY SinceFits
<1>3. TaskInv' /\ LastInv' /\ Turns!EveryTurnTold'
  BY <1>1, <1>2 DEF TaskInv, TurnInv, LastInv, Turns!EveryTurnTold
<1> QED BY <1>3 DEF TurnInv

(* The session does on its own.                                            *)
LEMMA SessionKept ==
  ASSUME TurnInv,
         \/ Turns!StartTurn \/ Turns!Answered \/ Turns!SubagentAsks
         \/ Turns!EndsUnheard \/ Turns!ShellEnds \/ Turns!CliExits
  PROVE  TurnInv'
<1> USE DEF Turns!Does, Turns!Active
<1>0. TurnTypes /\ CliInv
  BY DEF TurnInv
<1>1. CASE Turns!StartTurn
  <2>1. v4 = FALSE
    BY <1>0, <1>1 DEF Turns!StartTurn, Turns!Raw, CliInv, TurnTypes
  <2>2. v2' \in Nat
    BY <1>0, <1>1 DEF Turns!StartTurn, TurnTypes
  <2>3. SessionMoves("busy") /\ CliInv' /\ TurnTypes' /\ v1' = "busy"
    BY <1>0, <1>1, <2>1, <2>2 DEF Turns!StartTurn, SessionMoves, CliInv, TurnTypes
  <2> QED BY <1>1, <2>3, SessionAlone DEF Turns!StartTurn, Turns!ends
<1>2. CASE Turns!Answered
  <2>1. SessionMoves("busy") /\ CliInv' /\ TurnTypes' /\ v1' = "busy"
    BY <1>0, <1>2 DEF Turns!Answered, SessionMoves, CliInv, TurnTypes
  <2> QED BY <1>2, <2>1, SessionAlone DEF Turns!Answered, Turns!ends
<1>3. CASE Turns!SubagentAsks
  <2>1. SessionMoves(v1) /\ CliInv' /\ TurnTypes' /\ v1' = v1
    BY <1>0, <1>3 DEF Turns!SubagentAsks, SessionMoves, CliInv, TurnTypes
  <2> QED BY <1>3, <2>1, SessionAlone DEF Turns!SubagentAsks, Turns!ends
<1>4. CASE Turns!EndsUnheard
  <2>1. PICK c \in {"idle", "shell"} : v1' = c /\ v11' = Turns!Since(c, v10)
    BY <1>4 DEF Turns!EndsUnheard
  <2>2. SessionMoves(c) /\ CliInv' /\ TurnTypes'
    BY <1>0, <1>4, <2>1 DEF Turns!EndsUnheard, SessionMoves, CliInv, TurnTypes
  <2> QED BY <1>4, <2>1, <2>2, SessionAlone DEF Turns!EndsUnheard, Turns!ends
<1>5. CASE Turns!ShellEnds
  <2>1. SessionMoves("idle") /\ CliInv' /\ TurnTypes' /\ v1' = "idle"
    BY <1>0, <1>5 DEF Turns!ShellEnds, SessionMoves, CliInv, TurnTypes
  <2> QED BY <1>5, <2>1, SessionAlone DEF Turns!ShellEnds, Turns!ends
<1>6. CASE Turns!CliExits
  <2>1. SessionMoves("gone") /\ CliInv' /\ TurnTypes' /\ v1' = "gone"
    BY <1>0, <1>6 DEF Turns!CliExits, SessionMoves, CliInv, TurnTypes
  <2> QED BY <1>6, <2>1, SessionAlone DEF Turns!CliExits, Turns!ends
<1> QED BY <1>1, <1>2, <1>3, <1>4, <1>5, <1>6

(* Nothing new of the session, and no approval more.                       *)
LEMMA QuietKept ==
  ASSUME TurnInv, UNCHANGED <<v1, v2, v3, v4, v11, v12, v13, v14, v15>>, v9' = FALSE \/ v9' = v9
  PROVE  TurnInv'
<1>1. TurnTypes /\ CliInv /\ TaskInv /\ LastInv /\ Turns!EveryTurnTold
  BY DEF TurnInv
<1>2. TurnTypes' /\ CliInv' /\ LastInv' /\ Turns!EveryTurnTold'
  <2>1. CASE v9' = FALSE
    BY <1>1, <2>1 DEF TurnTypes, CliInv, LastInv, Turns!EveryTurnTold
  <2>2. CASE v9' = v9
    BY <1>1, <2>2 DEF TurnTypes, CliInv, LastInv, Turns!EveryTurnTold
  <2> QED BY <2>1, <2>2
<1>3. ASSUME NEW p \in Tasks PROVE Fits(v11[p], v1, v3, v4, v9', v13)
  <2>1. Fits(v11[p], v1, v3, v4, v9, v13)
    BY <1>1 DEF TaskInv
  <2>2. Heeds(v11[p], v1, v3, v4, v9) => Heeds(v11[p], v1, v3, v4, v9')
    BY DEF Heeds
  <2> QED BY <2>1, <2>2 DEF Fits
<1>4. TaskInv'
  BY <1>1, <1>3 DEF TaskInv
<1> QED BY <1>2, <1>4 DEF TurnInv

(* The record comes to say what the session does.                          *)
LEMMA RecordKept ==
  ASSUME TurnInv, Turns!WriteRecord
  PROVE  TurnInv'
<1>1. TurnTypes /\ CliInv /\ TaskInv /\ LastInv /\ Turns!EveryTurnTold
  BY DEF TurnInv
<1>2. UNCHANGED <<v1, v2, v9, v11, v12, v13, v14, v15>> /\ v4' = FALSE /\ v1 # "gone"
  BY DEF Turns!WriteRecord, Turns!noteVars, Turns!ends
<1>3. v3' = IF v1 = "dialog" THEN "waiting" ELSE v1
  BY DEF Turns!WriteRecord, Turns!Raw
<1>4. TurnTypes' /\ CliInv' /\ LastInv' /\ Turns!EveryTurnTold'
  BY <1>1, <1>2, <1>3 DEF TurnTypes, CliInv, LastInv, Turns!EveryTurnTold, Status
<1>5. ASSUME NEW p \in Tasks PROVE Fits(v11[p], v1, v3', v4', v9, v13)
  <2>1. Fits(v11[p], v1, v3, v4, v9, v13)
    BY <1>1 DEF TaskInv
  <2>2. Heeds(v11[p], v1, v3, v4, v9) => Heeds(v11[p], v1, v3', v4', v9)
    BY <1>1, <1>2, <1>3 DEF Heeds, TurnTypes
  <2> QED BY <2>1, <2>2 DEF Fits
<1>6. TaskInv'
  BY <1>1, <1>2, <1>5 DEF TaskInv
<1> QED BY <1>4, <1>6 DEF TurnInv

LEMMA RestartKept ==
  ASSUME TurnInv, Turns!Restart
  PROVE  TurnInv'
<1>1. UNCHANGED <<v1, v2, v3, v4, v13, v14, v15>> /\ v9' = FALSE /\ v12' = None
      /\ v11' = [p \in Tasks |-> Turns!Idle]
  BY DEF Turns!Restart, Turns!cliVars, Turns!ends
<1>2. TurnTypes' /\ CliInv' /\ LastInv' /\ Turns!EveryTurnTold'
  BY <1>1 DEF TurnInv, TurnTypes, CliInv, LastInv, Turns!EveryTurnTold
<1>3. TaskInv'
  BY <1>1 DEF TaskInv, Fits
<1> QED BY <1>2, <1>3 DEF TurnInv

(* An announcement begins, as the hook is called.                          *)
LEMMA Announces ==
  ASSUME TurnInv, NEW c, NEW cs, SessionMoves(c), v1' = c, CliInv', TurnTypes',
         NEW p \in Tasks, NEW n, v11' = [Turns!Since(c, cs) EXCEPT ![p] = n],
         n \in Waits, Heeds(n, c, v3', v4', v9'),
         UNCHANGED <<v12, v13, v14, v15>>
  PROVE  TurnInv'
<1>1. \A q \in Tasks : v11'[q] = IF q = p THEN n ELSE Turns!Since(c, cs)[q]
  BY DEF Turns!Since
<1>2. v11' = [q \in Tasks |-> v11'[q]]
  BY DEF Turns!Since
<1>3. ASSUME NEW q \in Tasks PROVE Fits(v11'[q], c, v3', v4', v9', v13')
  <2>1. CASE q = p
    BY <1>1, <2>1 DEF Fits
  <2>2. CASE q # p
    BY <1>1, <2>2, SinceFits
  <2> QED BY <2>1, <2>2
<1>4. TaskInv' /\ LastInv' /\ Turns!EveryTurnTold'
  BY <1>2, <1>3 DEF TaskInv, TurnInv, LastInv, Turns!EveryTurnTold
<1> QED BY <1>4 DEF TurnInv

LEMMA EventSeen ==
  ASSUME NEW e \in {"Stop", "StopFailure", "permission", "idle"}, NEW step \in {"wait", "look", "decide"},
         NEW c, NEW cs, v2 \in Nat
  PROVE  LET n == Turns!Event(e, step, c, cs)
         IN /\ n \in Waits /\ n.step = step /\ n.event = e /\ n.probe = "unknown"
            /\ n.rested <=> c \in {"idle", "gone"}
            /\ n.needed <=> c = "dialog" \/ cs # {}
<1> DEFINE n == Turns!Event(e, step, c, cs)
<1>1. PICK turn \in Nat : turn = Turns!TurnOf(e)
  BY DEF Turns!TurnOf
<1>2. PICK r \in BOOLEAN : r = (c \in {"idle", "gone"})
  <2>1. (c \in {"idle", "gone"}) \in BOOLEAN
    OBVIOUS
  <2> QED BY <2>1
<1>3. PICK a \in BOOLEAN : a = (c = "dialog" \/ cs # {})
  OBVIOUS
<1>4. n = [step |-> step, event |-> e, turn |-> turn, probe |-> "unknown",
           rested |-> r, needed |-> a, resumed |-> FALSE]
  BY <1>1, <1>2, <1>3 DEF Turns!Event
<1> HIDE DEF n
<1>5. n \in Waits /\ n.step = step /\ n.event = e /\ n.probe = "unknown" /\ n.rested = r /\ n.needed = a
  BY <1>4 DEF Waits
<1> QED BY <1>2, <1>3, <1>5 DEF n

LEMMA AsksKept ==
  ASSUME TurnInv, NEW p \in Tasks, Turns!Asks(p)
  PROVE  TurnInv'
<1>1. TurnTypes /\ CliInv /\ v1 = "busy" /\ v1' = "dialog" /\ v9' = TRUE
      /\ UNCHANGED <<v2, v3, v4, v12, v13, v14, v15>>
  BY DEF TurnInv, Turns!Asks, Turns!ends
<1>2. SessionMoves("dialog") /\ CliInv' /\ TurnTypes'
  BY <1>1 DEF SessionMoves, CliInv, TurnTypes
<1>3. PICK cs : \/ v11' = Turns!Since("dialog", cs)
                \/ v11' = [Turns!Since("dialog", cs) EXCEPT ![p] = Turns!Event("permission", "look", "dialog", cs)]
  BY DEF Turns!Asks
<1>4. CASE v11' = Turns!Since("dialog", cs)
  BY <1>1, <1>2, <1>4, SessionAlone
<1>5. CASE v11' = [Turns!Since("dialog", cs) EXCEPT ![p] = Turns!Event("permission", "look", "dialog", cs)]
  <2>1. PICK n : n = Turns!Event("permission", "look", "dialog", cs)
    OBVIOUS
  <2>2. n \in Waits /\ n.step = "look" /\ n.event = "permission" /\ n.needed
    BY <1>1, <2>1, EventSeen DEF TurnTypes
  <2>3. Heeds(n, "dialog", v3', v4', v9')
    BY <2>2 DEF Heeds
  <2> QED BY <1>1, <1>2, <1>5, <2>1, <2>2, <2>3, Announces
<1> QED BY <1>3, <1>4, <1>5

(* At a turn's end the record is still to be written.                      *)
LEMMA TurnEndKept ==
  ASSUME TurnInv, NEW p \in Tasks, NEW e \in {"Stop", "StopFailure"}, NEW c \in {"idle", "shell"},
         Turns!TurnEnds(p, e, c), v4' \in BOOLEAN, v4 => v4', CliInv',
         \* as EndTurn and StopAgain find it
         v3 = "idle" => c = "idle", v3 # "waiting", v3 = "busy" => v4'
  PROVE  TurnInv'
<1>1. TurnTypes /\ UNCHANGED <<v2, v3, v12, v13, v14, v15>> /\ v1' = c /\ v9' = FALSE
  BY DEF TurnInv, Turns!TurnEnds, Turns!ends
<1>2. SessionMoves(c) /\ TurnTypes'
  BY <1>1 DEF SessionMoves, TurnTypes
<1>3. PICK cs, n : /\ v11' = [Turns!Since(c, cs) EXCEPT ![p] = n]
                   /\ n = Turns!Event(e, IF e = "Stop" THEN "wait" ELSE "decide", c, cs)
  BY DEF Turns!TurnEnds
<1>4. n \in Waits
  BY <1>1, <1>3 DEF Turns!Event, Turns!TurnOf, Turns!Ends, Waits, TurnTypes
<1>5. Heeds(n, c, v3', v4', v9')
  BY <1>1, <1>3 DEF Turns!Event, Heeds
<1> QED BY <1>1, <1>2, <1>3, <1>4, <1>5, Announces

LEMMA EndTurnKept ==
  ASSUME TurnInv, NEW p \in Tasks, Turns!EndTurn(p) \/ Turns!StopAgain(p)
  PROVE  TurnInv'
<1>1. TurnTypes /\ CliInv
  BY DEF TurnInv
<1>2. CASE Turns!EndTurn(p)
  <2>1. PICK e \in {"Stop", "StopFailure"}, c \in {"idle", "shell"} : Turns!TurnEnds(p, e, c)
    BY <1>2 DEF Turns!EndTurn, Turns!Ends
  <2>2. v3 = "busy" /\ v4' = TRUE /\ v3' = v3 /\ v9' = FALSE /\ v1' = c
    BY <1>2, <2>1 DEF Turns!EndTurn, Turns!TurnEnds
  <2>3. CliInv'
    BY <2>2 DEF CliInv
  <2> QED BY <2>1, <2>2, <2>3, TurnEndKept
<1>3. CASE Turns!StopAgain(p)
  <2>1. PICK c \in {"idle", "shell"} : c = v1 /\ Turns!TurnEnds(p, "Stop", c)
    BY <1>3 DEF Turns!StopAgain
  <2>2. v4' = v4 /\ v3' = v3 /\ v9' = FALSE /\ v1' = v1
    BY <1>3, <2>1 DEF Turns!StopAgain, Turns!TurnEnds
  <2>3. CliInv'
    BY <1>1, <2>2 DEF CliInv
  <2>4. (v3 = "idle" => c = "idle") /\ v3 # "waiting" /\ (v3 = "busy" => v4')
    BY <1>1, <2>1, <2>2 DEF CliInv
  <2>5. v4' \in BOOLEAN /\ (v4 => v4')
    BY <1>1, <2>2 DEF TurnTypes
  <2> QED BY <2>1, <2>3, <2>4, <2>5, TurnEndKept
<1> QED BY <1>2, <1>3

(* One announcement goes on, and the session rests.                        *)
LEMMA TaskGoesOn ==
  ASSUME TurnInv, UNCHANGED <<v1, v2, v3, v4, v9>>, v13 \subseteq v13',
         NEW p \in Tasks, NEW n, v11' = [v11 EXCEPT ![p] = n],
         Fits(n, v1, v3, v4, v9, v13'),
         v12' \in [turn : Nat, label : Said] \cup {None}, LastInv', Turns!EveryTurnTold'
  PROVE  TurnInv'
<1>1. TurnTypes /\ CliInv /\ TaskInv
  BY DEF TurnInv
<1>2. TurnTypes' /\ CliInv'
  BY <1>1 DEF TurnTypes, CliInv
<1>3. v11' = [q \in Tasks |-> v11'[q]] /\ \A q \in Tasks : v11'[q] = IF q = p THEN n ELSE v11[q]
  BY <1>1 DEF TaskInv
<1>4. ASSUME NEW q \in Tasks PROVE Fits(v11'[q], v1', v3', v4', v9', v13')
  <2>1. CASE q = p
    BY <1>3, <2>1
  <2>2. CASE q # p
    <3>1. Fits(v11[q], v1, v3, v4, v9, v13)
      BY <1>1 DEF TaskInv
    <3> QED BY <1>3, <2>2, <3>1 DEF Fits
  <2> QED BY <2>1, <2>2
<1>5. TaskInv'
  BY <1>3, <1>4 DEF TaskInv
<1> QED BY <1>2, <1>5 DEF TurnInv

(* The notice is called of a session at rest whose record is written.      *)
LEMMA IdleNoticeKept ==
  ASSUME TurnInv, NEW p \in Tasks, Turns!IdleNotice(p)
  PROVE  TurnInv'
<1>1. TurnTypes /\ CliInv /\ LastInv /\ Turns!EveryTurnTold
  BY DEF TurnInv
<1>2. /\ v1 = "idle" /\ ~v4 /\ UNCHANGED <<v1, v2, v3, v4, v9, v12, v13, v14, v15>>
      /\ v11' = [v11 EXCEPT ![p] = Turns!Event("idle", "look", v1, v10)]
  BY DEF Turns!IdleNotice, Turns!noteVars, Turns!ends
<1>3. PICK n : n = Turns!Event("idle", "look", v1, v10)
  OBVIOUS
<1>4. n \in Waits /\ n.step = "look" /\ n.event = "idle" /\ n.rested
  BY <1>1, <1>2, <1>3, EventSeen DEF TurnTypes
<1>5. ~v9 /\ v3 \in {"shell", "idle"}
  BY <1>1, <1>2 DEF CliInv, TurnTypes, Status
<1>6. Heeds(n, v1, v3, v4, v9)
  BY <1>2, <1>4, <1>5 DEF Heeds
<1>7. Fits(n, v1, v3, v4, v9, v13')
  BY <1>4, <1>6 DEF Fits
<1>8. v12' \in [turn : Nat, label : Said] \cup {None} /\ LastInv' /\ Turns!EveryTurnTold'
  BY <1>1, <1>2 DEF TurnTypes, LastInv, Turns!EveryTurnTold
<1> QED BY <1>2, <1>3, <1>7, <1>8, TaskGoesOn

(* It finds what it has seen the session come to; where the record is still *)
(* owed, the agent is stopping.                                             *)
LEMMA LookKept ==
  ASSUME TurnInv, NEW p \in Tasks, Turns!Look(p) \/ Turns!Flush(p)
  PROVE  TurnInv'
<1>1. TurnTypes /\ CliInv /\ TaskInv /\ LastInv /\ Turns!EveryTurnTold
  BY DEF TurnInv
<1>2. PICK early \in BOOLEAN :
        /\ v11[p].step = "look" \/ (v11[p].step = "wait" /\ (~v4 \/ early))
        /\ Turns!Probe(p, early)
  BY DEF Turns!Look, Turns!Flush
<1>3. UNCHANGED <<v1, v2, v3, v4, v9, v12, v13, v14, v15>>
  BY DEF Turns!Look, Turns!Flush, Turns!cliVars, Turns!noteVars, Turns!ends
<1>4. PICK r \in {IF v1 = "gone" THEN "gone" ELSE v3, "unknown"} :
        v11' = [v11 EXCEPT ![p].probe = r, ![p].step = "decide", ![p].resumed = @ \/ early]
  BY <1>2 DEF Turns!Probe
<1>5. v11[p] \in Waits /\ Heeds(v11[p], v1, v3, v4, v9)
  <2>1. v11[p] \in Waits
    BY <1>1, <1>2, Kinds
  <2> QED BY <1>1, <2>1 DEF TaskInv, Fits, Waits, Sends, Turns!Idle
<1>6. PICK t : t = v11[p]
  OBVIOUS
<1>7. PICK n : n = [t EXCEPT !.probe = r, !.step = "decide", !.resumed = @ \/ early]
  OBVIOUS
<1>8. v11' = [v11 EXCEPT ![p] = n]
  BY <1>1, <1>4, <1>6, <1>7 DEF TaskInv
<1>9. r \in Status \cup {"gone", "unknown"}
  BY <1>1 DEF TurnTypes
<1>10. /\ n \in Waits /\ n.step = "decide" /\ n.event = t.event /\ n.probe = r
       /\ n.rested = t.rested /\ n.needed = t.needed /\ n.resumed = (t.resumed \/ early)
  BY <1>5, <1>6, <1>7, <1>9 DEF Waits
<1>11. Heeds(n, v1, v3, v4, v9)
  <2>1. /\ r \in {"idle", "gone"} => v1 \in {"idle", "gone"} \/ v3 = "idle"
        /\ r = "waiting" => v3 = "waiting"
        /\ r = "busy" => v3 = "busy" /\ (t.step = "look" \/ ~v4 \/ early)
    BY <1>1, <1>2, <1>6 DEF TurnTypes, Status
  <2>2. Heeds(t, v1, v3, v4, v9)
    BY <1>5, <1>6
  <2>3. t.event \in {"Stop", "idle"} =>
          /\ r \in {"idle", "gone"} => t.rested
          /\ r = "waiting" => t.needed
          /\ r = "busy" => t.resumed \/ early
    BY <2>1, <2>2 DEF Heeds
  <2> QED BY <1>10, <2>2, <2>3 DEF Heeds
<1>12. Fits(n, v1, v3, v4, v9, v13')
  BY <1>10, <1>11 DEF Fits
<1>13. v12' \in [turn : Nat, label : Said] \cup {None} /\ LastInv' /\ Turns!EveryTurnTold'
  BY <1>1, <1>3 DEF TurnTypes, LastInv, Turns!EveryTurnTold
<1> QED BY <1>3, <1>8, <1>12, <1>13, TaskGoesOn

(* What is going to be said is borne out by what has happened.             *)
LEMMA LabelAsItIs ==
  ASSUME NEW t \in Waits, t.step = "decide", Heeds(t, v1, v3, v4, v9), v9 \in BOOLEAN, ~Turns!HasCard
  PROVE  Turns!AsItIs(t, Turns!Label(t)) /\ Turns!Label(t) \in Said
<1>1. CASE t.event = "StopFailure"
  <2>1. Turns!Label(t) = "failed"
    BY <1>1 DEF Turns!Label
  <2> QED BY <2>1 DEF Turns!AsItIs, Said
<1>2. CASE t.event # "StopFailure" /\ t.probe = "unknown"
  <2>1. Turns!Label(t) = "unknown"
    BY <1>2 DEF Turns!Label
  <2> QED BY <2>1 DEF Turns!AsItIs, Said
<1>3. CASE t.event = "permission" /\ t.probe # "unknown"
  <2>1. Turns!Label(t) = "needs attention"
    BY <1>3 DEF Turns!Label, Turns!Status
  <2>2. t.needed
    BY <1>3 DEF Heeds
  <2> QED BY <2>1, <2>2 DEF Turns!AsItIs, Said
<1>4. CASE t.event \in {"Stop", "idle"} /\ t.probe # "unknown"
  <2>1. Turns!Label(t) = Turns!Status(t.probe, FALSE)
    BY <1>4 DEF Turns!Label
  <2>2. PICK l : l = Turns!Status(t.probe, FALSE)
    OBVIOUS
  <2>3. t.probe \in {"busy", "shell", "waiting", "idle", "gone"}
    BY <1>4 DEF Waits, Status
  <2>4. l \in {"failed", "responding", "background", "needs attention", "done", "starting"}
    BY <2>2, <2>3 DEF Turns!Status
  <2>5. /\ l = "done" => t.probe \in {"idle", "gone"}
        /\ l = "responding" => t.probe = "busy"
        /\ l = "needs attention" => t.probe = "waiting" \/ v9
    BY <2>2, <2>3 DEF Turns!Status
  <2>6. /\ l = "done" => t.rested
        /\ l = "needs attention" => t.needed
        /\ l = "responding" => t.resumed
    BY <1>4, <2>5 DEF Heeds
  <2>7. l \in Said
    BY <2>4 DEF Said
  <2> QED BY <2>1, <2>2, <2>6, <2>7 DEF Turns!AsItIs
<1> QED BY <1>1, <1>2, <1>3, <1>4 DEF Waits

LEMMA LabelSaid ==
  ASSUME NEW t \in Waits
  PROVE  Turns!Label(t) \in Said
<1>1. CASE t.event = "StopFailure" \/ t.probe = "unknown"
  BY <1>1 DEF Turns!Label, Said
<1>2. CASE t.event # "StopFailure" /\ t.probe # "unknown"
  <2>1. PICK card \in BOOLEAN : card <=> (Turns!HasCard \/ t.event = "permission")
    OBVIOUS
  <2>2. CASE card
    <3>1. Turns!Label(t) = "needs attention"
      BY <1>2, <2>1, <2>2 DEF Turns!Label, Turns!Status
    <3> QED BY <3>1 DEF Said
  <2>3. CASE ~card
    <3>1. Turns!Label(t) = Turns!Status(t.probe, FALSE)
      BY <1>2, <2>1, <2>3 DEF Turns!Label, Turns!HasCard
    <3>2. t.probe \in {"busy", "shell", "waiting", "idle", "gone"}
      BY <1>2 DEF Waits, Status
    <3>3. Turns!Status(t.probe, FALSE) \in Said
      BY <3>2 DEF Turns!Status, Said
    <3> QED BY <3>1, <3>3
  <2> QED BY <2>2, <2>3
<1> QED BY <1>1, <1>2

(* What is remembered is of a turn whose end the phone knows of.           *)
LEMMA RememberedFits ==
  ASSUME TurnInv, NEW t, t.turn \in Nat, NEW l \in Said,
         v12' = Turns!Remembered(t, l), v13 \subseteq v13', v14 \subseteq v14',
         t.turn # 0 => t.turn \in v13' \cup v14'
  PROVE  v12' \in [turn : Nat, label : Said] \cup {None} /\ LastInv'
<1>1. TurnTypes /\ LastInv
  BY DEF TurnInv
<1>2. PICK n : n = IF t.turn # 0 THEN t.turn ELSE IF v12 = None THEN 0 ELSE v12.turn
  OBVIOUS
<1>3. v12' = [turn |-> n, label |-> l]
  BY <1>2 DEF Turns!Remembered
<1>4. n \in Nat /\ (n # 0 => n \in v13' \cup v14')
  BY <1>1, <1>2 DEF TurnTypes, LastInv
<1>5. v12'.turn = n
  BY <1>3
<1> QED BY <1>3, <1>4, <1>5 DEF LastInv

LEMMA DecideKept ==
  ASSUME TurnInv, NEW p \in Tasks, Turns!Decide(p)
  PROVE  TurnInv'
<1>1. TurnTypes /\ CliInv /\ TaskInv /\ LastInv /\ Turns!EveryTurnTold
  BY DEF TurnInv
<1>2. PICK t, l : t = v11[p] /\ l = Turns!Label(t)
  OBVIOUS
<1>3. UNCHANGED <<v1, v2, v3, v4, v9, v13>> /\ t.step = "decide"
  BY <1>2 DEF Turns!Decide, Turns!cliVars, Turns!noteVars
<1>4. t \in Waits /\ Heeds(t, v1, v3, v4, v9)
  <2>1. t \in Waits
    BY <1>1, <1>2, <1>3, Kinds
  <2> QED BY <1>1, <1>2, <2>1 DEF TaskInv, Fits, Waits, Sends, Turns!Idle
<1>5. t.turn \in Nat /\ l \in Said
  BY <1>2, <1>4, LabelSaid DEF Waits
<1>6. Fits(Turns!Idle, v1, v3, v4, v9, v13')
  BY DEF Fits
<1>7. CASE /\ v12' = Turns!Remembered(t, l) /\ v14' = v14 \cup Turns!EndOf(t)
           /\ v11' = [v11 EXCEPT ![p] = Turns!Idle] /\ v15' = v15
  <2>1. t.turn # 0 => t.turn \in v14'
    BY <1>7 DEF Turns!EndOf
  <2>2. v12' \in [turn : Nat, label : Said] \cup {None} /\ LastInv'
    BY <1>3, <1>5, <1>7, <2>1, RememberedFits
  <2>3. Turns!EveryTurnTold'
    BY <1>1, <1>3, <1>7 DEF Turns!EveryTurnTold
  <2> QED BY <1>3, <1>6, <1>7, <2>2, <2>3, TaskGoesOn
<1>8. CASE /\ ~Turns!ShouldSend(t, l) /\ v15' = v15 \cup Turns!EndOf(t)
           /\ v11' = [v11 EXCEPT ![p] = Turns!Idle] /\ v12' = v12 /\ v14' = v14
  <2>1. v12 # None /\ (t.turn # 0 => t.turn = v12.turn)
    BY <1>8 DEF Turns!ShouldSend
  <2>2. Turns!EndOf(t) \subseteq v13 \cup v14
    BY <1>1, <2>1 DEF LastInv, Turns!EndOf
  <2>3. Turns!EveryTurnTold' /\ LastInv' /\ v12' \in [turn : Nat, label : Said] \cup {None}
    BY <1>1, <1>3, <1>8, <2>2 DEF Turns!EveryTurnTold, LastInv, TurnTypes
  <2> QED BY <1>3, <1>6, <1>8, <2>3, TaskGoesOn
<1>9. CASE /\ ~Turns!HasCard /\ UNCHANGED <<v12, v14, v15>>
           /\ v11' = [v11 EXCEPT ![p] = [step |-> "send", turn |-> t.turn, label |-> l,
                                         asItIs |-> Turns!AsItIs(t, l)]]
  <2>1. Turns!AsItIs(t, l)
    BY <1>1, <1>2, <1>3, <1>4, <1>9, LabelAsItIs DEF TurnTypes
  <2>2. PICK n : n = [step |-> "send", turn |-> t.turn, label |-> l, asItIs |-> Turns!AsItIs(t, l)]
    OBVIOUS
  <2>3. n = [step |-> "send", turn |-> t.turn, label |-> l, asItIs |-> TRUE]
    BY <2>1, <2>2
  <2>4. n \in Sends /\ n.asItIs /\ n.step = "send"
    BY <1>5, <2>3 DEF Sends
  <2>5. Fits(n, v1, v3, v4, v9, v13')
    BY <2>4 DEF Fits
  <2>6. Turns!EveryTurnTold' /\ LastInv' /\ v12' \in [turn : Nat, label : Said] \cup {None}
    BY <1>1, <1>3, <1>9 DEF Turns!EveryTurnTold, LastInv, TurnTypes
  <2> QED BY <1>3, <1>9, <2>2, <2>5, <2>6, TaskGoesOn
<1>10. \/ /\ v12' = Turns!Remembered(t, l) /\ v14' = v14 \cup Turns!EndOf(t)
          /\ v11' = [v11 EXCEPT ![p] = Turns!Idle] /\ v15' = v15
       \/ /\ ~Turns!ShouldSend(t, l) /\ v15' = v15 \cup Turns!EndOf(t)
          /\ v11' = [v11 EXCEPT ![p] = Turns!Idle] /\ v12' = v12 /\ v14' = v14
       \/ /\ ~Turns!HasCard /\ UNCHANGED <<v12, v14, v15>>
          /\ v11' = [v11 EXCEPT ![p] = [step |-> "send", turn |-> t.turn, label |-> l,
                                        asItIs |-> Turns!AsItIs(t, l)]]
  BY <1>2 DEF Turns!Decide
<1> QED BY <1>7, <1>8, <1>9, <1>10

LEMMA SendKept ==
  ASSUME TurnInv, NEW p \in Tasks, Turns!Send(p)
  PROVE  TurnInv'
<1>1. TurnTypes /\ TaskInv /\ LastInv /\ Turns!EveryTurnTold
  BY DEF TurnInv
<1>2. UNCHANGED <<v1, v2, v3, v4, v9, v12, v14, v15>> /\ v11[p].step = "send"
  BY DEF Turns!Send, Turns!cliVars, Turns!noteVars
<1>3. PICK t : t = v11[p]
  OBVIOUS
<1>4. t \in Sends /\ t.asItIs
  <2>1. v11[p] \in Sends
    BY <1>1, <1>2, Kinds
  <2> QED BY <1>1, <1>2, <1>3, <2>1 DEF TaskInv, Fits, Waits, Sends, Turns!Idle
<1>5. PICK n : n = [t EXCEPT !.step = "sent"]
  OBVIOUS
<1>6. n \in Sends /\ n.asItIs /\ n.turn = t.turn
  BY <1>4, <1>5 DEF Sends
<1>7. \/ v11' = [v11 EXCEPT ![p] = n] /\ v13' = v13 \cup Turns!EndOf(t)
      \/ v11' = [v11 EXCEPT ![p] = Turns!Idle] /\ v13' = v13
  BY <1>1, <1>3, <1>5 DEF Turns!Send, TaskInv
<1>8. v13 \subseteq v13'
  BY <1>7
<1>9. v12' \in [turn : Nat, label : Said] \cup {None} /\ LastInv' /\ Turns!EveryTurnTold'
  BY <1>1, <1>2, <1>8 DEF TurnTypes, LastInv, Turns!EveryTurnTold
<1>10. CASE v11' = [v11 EXCEPT ![p] = n] /\ v13' = v13 \cup Turns!EndOf(t)
  <2>1. Fits(n, v1, v3, v4, v9, v13')
    BY <1>6, <1>10 DEF Fits, Turns!EndOf
  <2> QED BY <1>2, <1>8, <1>9, <1>10, <2>1, TaskGoesOn
<1>11. CASE v11' = [v11 EXCEPT ![p] = Turns!Idle] /\ v13' = v13
  <2>1. Fits(Turns!Idle, v1, v3, v4, v9, v13')
    BY DEF Fits
  <2> QED BY <1>2, <1>8, <1>9, <1>11, <2>1, TaskGoesOn
<1> QED BY <1>7, <1>10, <1>11

LEMMA RememberKept ==
  ASSUME TurnInv, NEW p \in Tasks, Turns!Remember(p)
  PROVE  TurnInv'
<1>1. TurnTypes /\ TaskInv /\ LastInv /\ Turns!EveryTurnTold
  BY DEF TurnInv
<1>2. PICK t, l : t = v11[p] /\ l = t.label
  OBVIOUS
<1>3. /\ UNCHANGED <<v1, v2, v3, v4, v9, v13, v14, v15>> /\ t.step = "sent"
      /\ v12' = Turns!Remembered(t, l) /\ v11' = [v11 EXCEPT ![p] = Turns!Idle]
  BY <1>2 DEF Turns!Remember, Turns!cliVars, Turns!noteVars, Turns!ends
<1>4. t \in Sends /\ (t.turn # 0 => t.turn \in v13)
  <2>1. v11[p] \in Sends
    BY <1>1, <1>2, <1>3, Kinds
  <2> QED BY <1>1, <1>2, <1>3, <2>1 DEF TaskInv, Fits, Waits, Sends, Turns!Idle
<1>5. t.turn \in Nat /\ l \in Said
  BY <1>2, <1>4 DEF Sends
<1>6. v12' \in [turn : Nat, label : Said] \cup {None} /\ LastInv'
  BY <1>3, <1>4, <1>5, RememberedFits
<1>7. Fits(Turns!Idle, v1, v3, v4, v9, v13') /\ Turns!EveryTurnTold'
  BY <1>1, <1>3 DEF Fits, Turns!EveryTurnTold
<1> QED BY <1>3, <1>6, <1>7, TaskGoesOn

LEMMA TurnStep ==
  ASSUME TurnInv, Turns!Next \/ UNCHANGED Turns!vars
  PROVE  TurnInv'
<1>1. CASE UNCHANGED Turns!vars
  BY <1>1, QuietKept DEF Turns!vars, Turns!cliVars, Turns!noteVars, Turns!ends
<1>2. CASE Turns!Work \/ Turns!Sweep \/ Turns!SubagentAnswered
  <2>1. UNCHANGED <<v1, v2, v3, v4, v11, v12, v13, v14, v15>> /\ (v9' = FALSE \/ v9' = v9)
    <3>1. CASE Turns!Work
      BY <3>1 DEF Turns!Work, Turns!Active, Turns!cliVars, Turns!ends
    <3>2. CASE Turns!Sweep
      BY <3>2 DEF Turns!Sweep, Turns!cliVars, Turns!ends
    <3>3. CASE Turns!SubagentAnswered
      BY <3>3 DEF Turns!SubagentAnswered, Turns!cliVars, Turns!ends
    <3> QED BY <1>2, <3>1, <3>2, <3>3
  <2> QED BY <2>1, QuietKept
<1>3. CASE \/ Turns!StartTurn \/ Turns!Answered \/ Turns!SubagentAsks
           \/ Turns!EndsUnheard \/ Turns!ShellEnds \/ Turns!CliExits
  BY <1>3, SessionKept
<1>4. CASE Turns!WriteRecord \/ Turns!Restart
  BY <1>4, RecordKept, RestartKept
<1>5. ASSUME NEW p \in Tasks,
             \/ Turns!Asks(p) \/ Turns!EndTurn(p) \/ Turns!StopAgain(p) \/ Turns!IdleNotice(p)
             \/ Turns!Look(p) \/ Turns!Flush(p) \/ Turns!Decide(p) \/ Turns!Send(p) \/ Turns!Remember(p)
      PROVE  TurnInv'
  BY <1>5, AsksKept, EndTurnKept, IdleNoticeKept, LookKept, DecideKept, SendKept, RememberKept
<1> QED BY <1>1, <1>2, <1>3, <1>4, <1>5 DEF Turns!Next

-----------------------------------------------------------------------------
(* The parts, side by side.                                                *)

(* The list of machines is what the user made of it, and so is the copy in *)
(* Settings, but for what was typed in and for machines that were unlinked *)
(* from an earlier screen: no pairing, unlinking or offer that comes late  *)
(* takes another row away or brings one back (endpoints.ts, Endpoints.tsx). *)
THEOREM AsTheUserLeftItHolds == MCSpec => []AsTheUserLeftIt
<1> DEFINE I == part = "known" => KnownInv
<1>1. MCInit => I
  BY KnownStarts DEF MCInit
<1>2. I /\ [MCNext]_<<part, v>> => I'
  <2> SUFFICES ASSUME I, [MCNext]_<<part, v>>, part' = "known" PROVE KnownInv'
    OBVIOUS
  <2>1. KnownInv /\ [Known!Next]_(Known!vars)
    BY DEF MCNext, InList, InNotes, InKnown, InTurns, v, Known!vars, Known!app, Known!screen
  <2> QED BY <2>1, KnownStep
<1>3. I => AsTheUserLeftIt
  BY DEF KnownInv, AsTheUserLeftIt
<1> HIDE DEF I
<1>4. MCSpec => []I
  BY <1>1, <1>2, PTL DEF MCSpec
<1> QED BY <1>3, <1>4, PTL

(* What an older fetch brings is not shown over what a newer one brought,  *)
(* in whatever order they end (main.tsx refresh).                          *)
THEOREM NeverBackHolds == MCSpec => NeverBack
<1> DEFINE I == part = "list" => ListInv
           A == part = "list" => v14'.at >= v14.at
<1>1. MCInit => I
  BY ListStarts DEF MCInit
<1>2. I /\ [MCNext]_<<part, v>> => I' /\ A
  <2> SUFFICES ASSUME I, [MCNext]_<<part, v>>, part = "list" \/ part' = "list" PROVE ListInv' /\ v14'.at >= v14.at
    OBVIOUS
  <2>1. ListInv /\ [List!Next]_(List!vars)
    BY DEF MCNext, InList, InNotes, InKnown, InTurns, v, List!vars, List!machine, List!screen
  <2> QED BY <2>1, ListStep
<1>3. NeverBack <=> [][A]_<<part, v>>
  BY DEF NeverBack
<1> HIDE DEF I, A
<1> QED BY <1>1, <1>2, <1>3, PTL DEF MCSpec

(* The notification of an approval that still waits is not closed, however *)
(* late pushes, lists and cleanings are (push-core.js staleTags,            *)
(* notifications.ts staleAppTags).                                          *)
THEOREM LiveNotificationStaysHolds == MCSpec => LiveNotificationStays
<1> DEFINE I == part = "notes" => NotesInv
           A == part = "notes" => Notes!LiveStays
<1>1. MCInit => I
  BY NotesStart DEF MCInit
<1>2. I /\ [MCNext]_<<part, v>> => I' /\ A
  <2> SUFFICES ASSUME I, [MCNext]_<<part, v>>, part = "notes" \/ part' = "notes" PROVE NotesInv' /\ Notes!LiveStays
    OBVIOUS
  <2>1. NotesInv /\ (Notes!Next \/ UNCHANGED Notes!vars)
    BY DEF MCNext, InList, InNotes, InKnown, InTurns, v, Notes!vars, Notes!agent, Notes!app
  <2> QED BY <2>1, NotesStep
<1>3. LiveNotificationStays <=> [][A]_<<part, v>>
  BY DEF LiveNotificationStays
<1> HIDE DEF I, A
<1> QED BY <1>1, <1>2, <1>3, PTL DEF MCSpec

(* What is told of a turn's end is so, and the end of every turn that the  *)
(* agent heard of is told unless it was already, however announcements of  *)
(* it overlap with each other and with the record (hook.ts sendSettled).   *)
THEOREM TurnsToldAsTheyEndHolds == MCSpec => []TurnsToldAsTheyEnd
<1> DEFINE I == part \in {"turns", "twice"} => TurnInv
<1>1. MCInit => I
  BY TurnStart DEF MCInit
<1>2. I /\ [MCNext]_<<part, v>> => I'
  <2> SUFFICES ASSUME I, [MCNext]_<<part, v>>, part' \in {"turns", "twice"} PROVE TurnInv'
    OBVIOUS
  <2>1. TurnInv /\ (Turns!Next \/ UNCHANGED Turns!vars)
    BY DEF MCNext, InList, InNotes, InKnown, InTurns, v, Turns!vars, Turns!cliVars, Turns!noteVars, Turns!ends
  <2> QED BY <2>1, TurnStep
<1>3. I => TurnsToldAsTheyEnd
  BY TurnsTold DEF TurnsToldAsTheyEnd
<1> HIDE DEF I
<1>4. MCSpec => []I
  BY <1>1, <1>2, PTL DEF MCSpec
<1> QED BY <1>3, <1>4, PTL
=============================================================================
