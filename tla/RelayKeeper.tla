---------------------------- MODULE RelayKeeper ----------------------------
(***************************************************************************)
(* The agent's single line to the relay: connectRelay, which opens one     *)
(* WebSocket, and keepRelayConnected, the loop that keeps one open         *)
(* (agent/src/relayLink.ts), started and stopped by relayRun.ts.           *)
(*                                                                         *)
(*   - A WebSocket may go half dead: no error and no close event comes,    *)
(*     and only the missing pongs tell.                                    *)
(*   - The loop shows "open" with no failures counted, but remembers the   *)
(*     count: a line that falls before it settles goes on backing off.     *)
(*   - stop() takes effect at once, whatever the loop is waiting for.      *)
(*                                                                         *)
(* Callbacks and the continuations they resolve run to completion before   *)
(* the next event, so each is one action.  The ping interval (45 s) is     *)
(* longer than the time to settle (30 s).  A wait is its exponent, and     *)
(* its jitter is left out.                                                 *)
(***************************************************************************)
EXTENDS Naturals, FiniteSets

CONSTANTS
  Sockets,      \* WebSockets; one that is closed for good may be used again
  NoSocket,
  PongGrace,    \* PONG_GRACE
  MaxAttempts   \* bound: failures are counted up to here

RelayKeeperAssumption ==
  NoSocket \notin Sockets /\ PongGrace \in Nat /\ MaxAttempts \in Nat \ {0}

ASSUME RelayKeeperAssumption

VARIABLES
  state,      \* connecting, waiting, open, stopped
  attempts,   \* status.attempts
  before,     \* attemptsBefore
  cur,        \* the WebSocket of this round of the loop
  ws,         \* ws[s]: none, dialing, open, closing (close() was called), closed
  half,       \* half[s]: nothing gets through, and nobody is told
  proved,     \* proved[s]: the challenge was answered
  gone,       \* gone[s]: linkGone, the link of s is down
  torn,       \* torn[s]: tearDown has run
  beat,       \* beat[s]: the interval runs
  missed,     \* missed[s]: pings since the last pong
  settledLong,\* settledLong[s]: open for STABLE_MS
  listens,    \* the sockets whose link listens for tickets (account.ts, listeners)
  \* history
  falls       \* rounds since a line last settled

loopVars == <<state, attempts, before, cur>>
lineVars == <<ws, half, proved, gone, torn, beat, missed, settledLong, listens>>
vars == <<loopVars, lineVars, falls>>

Flags == [Sockets -> BOOLEAN]

TypeOK ==
  /\ state \in {"connecting", "waiting", "open", "stopped"}
  /\ attempts \in 0..MaxAttempts /\ before \in 0..MaxAttempts /\ falls \in 0..MaxAttempts
  /\ cur \in Sockets \cup {NoSocket}
  /\ ws \in [Sockets -> {"none", "dialing", "open", "closing", "closed"}]
  /\ missed \in [Sockets -> 0..PongGrace + 1]
  /\ half \in Flags /\ proved \in Flags /\ gone \in Flags
  /\ torn \in Flags /\ beat \in Flags /\ settledLong \in Flags
  /\ listens \subseteq Sockets

Nowhere == [s \in Sockets |-> FALSE]

Init ==
  /\ state = "waiting" /\ attempts = 0 /\ before = 0 /\ cur = NoSocket /\ falls = 0
  /\ ws = [s \in Sockets |-> "none"] /\ missed = [s \in Sockets |-> 0] /\ listens = {}
  /\ half = Nowhere /\ proved = Nowhere /\ gone = Nowhere /\ torn = Nowhere /\ beat = Nowhere /\ settledLong = Nowhere

Counted(n) == IF n > MaxAttempts THEN MaxAttempts ELSE n
Falls(s) == IF settledLong[s] THEN 1 ELSE Counted(falls + 1)

-----------------------------------------------------------------------------
(* The loop.                                                               *)

\* The wait is over (at first there is none): the next round dials.
Connect(s) ==
  /\ state = "waiting" /\ ws[s] \in {"none", "closed"} /\ ~beat[s]
  /\ state' = "connecting" /\ before' = attempts /\ cur' = s
  /\ ws' = [ws EXCEPT ![s] = "dialing"] /\ missed' = [missed EXCEPT ![s] = 0]
  /\ half' = [half EXCEPT ![s] = FALSE] /\ proved' = [proved EXCEPT ![s] = FALSE]
  /\ gone' = [gone EXCEPT ![s] = FALSE] /\ torn' = [torn EXCEPT ![s] = FALSE]
  /\ settledLong' = [settledLong EXCEPT ![s] = FALSE]
  /\ UNCHANGED <<attempts, beat, listens, falls>>

\* connectRelay throws: the key of the agent, or the address, is unusable.
CannotDial ==
  /\ state = "waiting" /\ attempts' = Counted(attempts + 1) /\ falls' = Counted(falls + 1)
  /\ before' = attempts
  /\ UNCHANGED <<state, cur, lineVars>>

\* A fault: the count that is shown decides the wait.
AttemptsAfterFault(s) == IF settledLong[s] THEN 1 ELSE Counted(attempts + 1)

\* The failures counted once an open line has fallen: the count starts over
\* if the line had settled, and else goes on from before it opened.
AttemptsAfter(s) == IF settledLong[s] THEN 1 ELSE Counted(before + 1)

\* The loop hears that the line s failed or fell, if it still waits for it.
Fallen(s) ==
  IF s # cur \/ state \notin {"connecting", "open"} THEN UNCHANGED <<loopVars, falls>>
  ELSE /\ state' = "waiting" /\ cur' = NoSocket /\ UNCHANGED before /\ falls' = Falls(s)
       /\ attempts' = IF state = "open" THEN AttemptsAfter(s) ELSE Counted(attempts + 1)

\* down of the link: it no longer listens for tickets, its slots are retired
\* (Tunnel, LinkDown), and the socket is asked to close.
LinkDown(s) ==
  /\ gone' = [gone EXCEPT ![s] = TRUE] /\ listens' = listens \ {s}

Closing(s) == IF ws[s] = "closed" THEN "closed" ELSE "closing"

\* tearDown: once, without waiting for the close event.
TearDown(s, phase) ==
  IF torn[s] THEN ws' = [ws EXCEPT ![s] = phase]
                  /\ UNCHANGED <<loopVars, falls, gone, torn, beat, listens>>
  ELSE /\ torn' = [torn EXCEPT ![s] = TRUE] /\ beat' = [beat EXCEPT ![s] = FALSE]
       /\ LinkDown(s) /\ Fallen(s) /\ ws' = [ws EXCEPT ![s] = phase]

\* A fault: a line that opens after the stop is kept.
LateFault(s) == UNCHANGED <<gone, listens>> /\ ws' = [ws EXCEPT ![s] = "open"]

\* The line opened after the stop: it is put down on the spot.
Late(s) == LinkDown(s) /\ ws' = [ws EXCEPT ![s] = "closing"]

\* Event "open": the interval starts, and the loop takes the line over.
Opened(s) ==
  /\ ws[s] = "dialing" /\ beat' = [beat EXCEPT ![s] = TRUE]
  /\ IF state = "stopped" THEN Late(s) /\ UNCHANGED loopVars
     ELSE /\ state' = "open" /\ attempts' = 0 /\ UNCHANGED <<before, cur, gone, listens>>
          /\ ws' = [ws EXCEPT ![s] = "open"]
  /\ UNCHANGED <<half, proved, torn, missed, settledLong, falls>>

\* Events "error" and "close".
Failed(s) ==
  /\ ws[s] \in {"dialing", "open", "closing"} /\ (half[s] => ws[s] = "closing")
  /\ TearDown(s, "closed")
  /\ UNCHANGED <<half, proved, missed, settledLong>>

\* The challenge of the relay is answered with the proof.
Challenge(s) ==
  /\ ws[s] = "open" /\ ~half[s] /\ ~proved[s] /\ proved' = [proved EXCEPT ![s] = TRUE]
  /\ UNCHANGED <<loopVars, ws, half, gone, torn, beat, missed, settledLong, listens, falls>>

\* The first message is no challenge, or the proof cannot be made.
NotTheRelay(s) ==
  /\ ws[s] = "open" /\ ~half[s] /\ ~proved[s] /\ ws' = [ws EXCEPT ![s] = "closing"]
  /\ UNCHANGED <<loopVars, half, proved, gone, torn, beat, missed, settledLong, listens, falls>>

\* A frame after the proof, on a link that is not down: "want" makes the link
\* listen for tickets, and a frame that breaks the rules takes it down.
Want(s) ==
  /\ ws[s] \in {"open", "closing"} /\ ~half[s] /\ proved[s] /\ ~gone[s]
  /\ listens' = listens \cup {s}
  /\ UNCHANGED <<loopVars, ws, half, proved, gone, torn, beat, missed, settledLong, falls>>

BadFrame(s) ==
  /\ ws[s] = "open" /\ ~half[s] /\ proved[s] /\ ~gone[s]
  /\ LinkDown(s) /\ ws' = [ws EXCEPT ![s] = "closing"]
  /\ UNCHANGED <<loopVars, half, proved, torn, beat, missed, settledLong, falls>>

\* A fault: an overdue line is closed, and its close event awaited.
OverdueFault(s) ==
  /\ ws' = [ws EXCEPT ![s] = Closing(s)]
  /\ UNCHANGED <<loopVars, falls, gone, torn, beat, listens>>

\* A line whose pongs are overdue is given up, without waiting for its close.
Overdue(s) == TearDown(s, Closing(s))

\* The interval: a line whose pongs are overdue is thrown away; else a ping.
Beat(s) ==
  /\ beat[s] /\ settledLong' = [settledLong EXCEPT ![s] = TRUE]
  /\ IF missed[s] >= PongGrace
     THEN Overdue(s) /\ UNCHANGED missed
     ELSE /\ missed' = [missed EXCEPT ![s] = @ + 1]
          /\ UNCHANGED <<loopVars, ws, gone, torn, beat, listens, falls>>
  /\ UNCHANGED <<half, proved>>

Pong(s) ==
  /\ ws[s] \in {"open", "closing"} /\ ~half[s] /\ missed[s] > 0 /\ missed' = [missed EXCEPT ![s] = 0]
  /\ UNCHANGED <<loopVars, ws, half, proved, gone, torn, beat, settledLong, listens, falls>>

\* Thirty seconds after it opened.
Settle(s) ==
  /\ ws[s] = "open" /\ ~settledLong[s] /\ settledLong' = [settledLong EXCEPT ![s] = TRUE]
  /\ UNCHANGED <<loopVars, ws, half, proved, gone, torn, beat, missed, listens, falls>>

\* The network: TCP is cut silently.
HalfDead(s) ==
  /\ ws[s] \in {"open", "closing"} /\ ~half[s] /\ half' = [half EXCEPT ![s] = TRUE]
  /\ UNCHANGED <<loopVars, ws, proved, gone, torn, beat, missed, settledLong, listens, falls>>

\* stop: the loop ends at once, and its line is put down.
Stop ==
  /\ state # "stopped" /\ state' = "stopped"
  /\ IF state = "open"
     THEN LinkDown(cur) /\ ws' = [ws EXCEPT ![cur] = Closing(cur)]
     ELSE UNCHANGED <<gone, listens, ws>>
  /\ cur' = NoSocket
  /\ UNCHANGED <<attempts, before, half, proved, torn, beat, missed, settledLong, falls>>

-----------------------------------------------------------------------------
Next ==
  \/ CannotDial \/ Stop
  \/ \E s \in Sockets : \/ Connect(s) \/ Opened(s) \/ Failed(s) \/ Challenge(s) \/ NotTheRelay(s)
                        \/ Want(s) \/ BadFrame(s) \/ Beat(s) \/ Pong(s) \/ Settle(s) \/ HalfDead(s)

Spec == Init /\ [][Next]_vars

\* The interval fires, and the wait ends.  Nothing is promised of the network.
FairSpec ==
  /\ Spec
  /\ \A s \in Sockets : WF_vars(Beat(s))
  /\ WF_vars(\E s \in Sockets : Connect(s))

-----------------------------------------------------------------------------
(* Properties.                                                             *)

\* The link of one line at most is up, it is the one the loop shows, and
\* after a stop none is, although one that was dialed may open late.
OneLink ==
  \A s \in Sockets :
    /\ ws[s] = "open" => (state = "open" /\ cur = s)
    /\ s \in listens => ~gone[s]

\* A relay that cuts right after connecting is not hammered: the wait grows
\* with the rounds since a line last settled (relayLink.ts, STABLE_MS).
NoHammering == state = "waiting" => attempts = falls

\* Both at once (relayLink.ts, keepRelayConnected).
LineInOrder == OneLink /\ NoHammering

\* A line over which nothing gets through any more does not stay "open", and
\* is pinged no more (relayLink.ts, PONG_GRACE and tearDown).
DeadButPinged(s) == half[s] /\ (beat[s] \/ (state = "open" /\ cur = s))
HalfDeadEnds == \A s \in Sockets : []<>~DeadButPinged(s)

=============================================================================
