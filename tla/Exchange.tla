------------------------------ MODULE Exchange ------------------------------
(***************************************************************************)
(* What the tunnel promises of requests: a request that was asked is       *)
(* started at most once, ends at most once, and ends well only if it was   *)
(* started.  A request may end as failed and still be started: no promise  *)
(* is made about that.                                                     *)
(***************************************************************************)
EXTENDS Naturals

CONSTANT AllReqs

VARIABLES
  asked,     \* requests the screen has asked
  started,   \* requests whose handler was started
  times,     \* how often
  ended      \* open, or how they ended for the screen

vars == <<asked, started, times, ended>>

Init ==
  /\ asked = {} /\ started = {}
  /\ times = [r \in AllReqs |-> 0] /\ ended = [r \in AllReqs |-> "open"]

Ask(r) == r \notin asked /\ asked' = asked \cup {r} /\ UNCHANGED <<started, times, ended>>

Start(r) ==
  /\ r \in asked \ started
  /\ started' = started \cup {r} /\ times' = [times EXCEPT ![r] = 1]
  /\ UNCHANGED <<asked, ended>>

Answer(r) ==
  /\ r \in started /\ ended[r] = "open" /\ ended' = [ended EXCEPT ![r] = "ok"]
  /\ UNCHANGED <<asked, started, times>>

\* Refused or failed, with or without having been started: a line may fail
\* with several, and the screen may fail one at once.
Fail(rs, o) ==
  /\ \A r \in rs : ended[r] = "open"
  /\ asked' \in {asked, asked \cup rs} /\ rs \subseteq asked'
  /\ ended' = [r \in AllReqs |-> IF r \in rs THEN o ELSE ended[r]]
  /\ UNCHANGED <<started, times>>

Next ==
  \/ \E r \in AllReqs : Ask(r) \/ Start(r) \/ Answer(r)
  \/ \E rs \in SUBSET AllReqs, o \in {"refused", "failed"} : Fail(rs, o)

Spec == Init /\ [][Next]_vars

=============================================================================
