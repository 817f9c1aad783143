------------------------------- MODULE Tunnel -------------------------------
(***************************************************************************)
(* One phone and one agent over the relay: the route of the phone          *)
(* (web/src/transport/relayRoute.ts) with its carrier and its wire         *)
(* (relayCarrier.ts, relay.ts), and the slot and the tunnel of the agent   *)
(* (agent/src/relayLink.ts, tunnel.ts) with the authentication of a        *)
(* request (auth.ts).                                                      *)
(*                                                                         *)
(*   - The route opens a line when something is asked for and none is      *)
(*     there.  A request is sent once, on one line; a subscription lives   *)
(*     on, and is asked for again on each line.                            *)
(*   - The relay passes frames in order in each direction and tells the    *)
(*     agent, behind them, that a line is closed.  A line may break and    *)
(*     lose what is on its way.                                            *)
(*   - The agent works through the frames of a line one after the other,   *)
(*     and sends through a chain of its own.                               *)
(*                                                                         *)
(* Simplifications:                                                        *)
(*   - The numbers of requests grow and are not reused on a line: the      *)
(*     number of an item on a line is the item.                            *)
(*   - Sealing keeps the order of each side (a frame opens if it comes in  *)
(*     order), so tampering and replay are not modelled.                   *)
(*   - Relay's own rules (challenge, limits, numbers of connections) are   *)
(*     those of Room; a line it refuses is a line that breaks at once.     *)
(*   - A line's frames are processed one at a time, so a close never meets *)
(*     a request in progress: the set "cancelled" of the tunnel stays      *)
(*     empty and is left out.                                              *)
(***************************************************************************)
EXTENDS Naturals, Sequences, SequencesExt, FiniteSets

CONSTANTS
  Reqs,      \* ordinary requests, each asked at most once
  Pair,      \* the request that registers the phone
  Subs,      \* subscriptions of the screen to /events
  MaxLine,   \* lines that the route may open
  MaxGen,    \* registrations of the phone at the agent
  Scenes     \* what a behaviour may show: acts and faults (names), and the requests asked

Lines == 1..MaxLine
AllReqs == Reqs \cup {Pair}
PairingOnly == MaxGen + 1

ASSUME TunnelAssumption ==
  /\ MaxLine \in Nat /\ MaxGen \in Nat \ {0}
  /\ IsFiniteSet(Reqs) /\ IsFiniteSet(Subs)
  /\ AllReqs \cap Subs = {}

VARIABLES
  scene,     \* the faults and acts of this behaviour
  \* the phone: relayRoute
  live,      \* the line in use, 0 if none
  opening,   \* the line being opened, 0 if none
  made,      \* lines opened so far
  closed,    \* the endpoint was left
  takeover,  \* the next connect moves the free slot here
  req,       \* req[r]: idle, waiting (for a line), sent, ok, refused, failed
  on,        \* on[r]: the line that carried request r
  screen,    \* screen[s]: subscription s is new, on, or off
  \* the phone's end of each line: phase, out (the send chain), stops (entries
  \* of the route that have a stop), subs (subscribers), conf (confirmedEvents)
  ph,
  \* the relay
  cut,       \* lines that are closed at the relay
  up, dn,    \* frames on their way to the agent and to the phone
  \* the agent's end: slot, gone, jobs, cur (the frame in progress), shut (the
  \* tunnel is closed), streams, sends (the send chain), gen (its registration)
  ag,
  \* the registration of the phone's key at the agent
  gen,       \* generations so far
  valid,     \* the last one is registered
  token,     \* a one-time code is out
  ran        \* ran[r]: the lines on which the handler of r was started

routeVars == <<live, opening, made, closed, takeover>>
askVars == <<req, on, screen>>
netVars == <<cut, up, dn>>
regVars == <<gen, valid, token>>
vars == <<scene, routeVars, askVars, ph, netVars, ag, regVars, ran>>

Acts == scene.acts
Wanted == {s \in Subs : screen[s] = "on"}

Nothing == [t |-> "nothing"]
Frame(t) == [t |-> t]
Of(t, x) == [t |-> t, x |-> x]
Reply(x, ok) == [t |-> "response", x |-> x, ok |-> ok]

Bare == {"nothing", "init", "closed", "abandon", "reply", "confirm", "end", "closeall", "drop", "sending"}
Things == AllReqs \cup Subs
Frames == [t : Bare] \cup [t : {"request", "close", "event"}, x : Things]
          \cup [t : {"response"}, x : Things, ok : BOOLEAN]
Phones == [phase : {"none", "reply", "confirm", "open", "dead"}, out : Seq(Frames),
           stops : SUBSET Subs, subs : SUBSET Subs, conf : SUBSET Subs]
Slots == [slot : {"none", "fresh", "open", "dead"}, gone : BOOLEAN, jobs : Seq(Frames),
          cur : Frames, shut : BOOLEAN, streams : SUBSET Subs, sends : Seq(Frames),
          gen : 0..PairingOnly, served : Nat]

FreshPhone == [phase |-> "none", out |-> <<>>, stops |-> {}, subs |-> {}, conf |-> {}]
FreshSlot == [slot |-> "none", gone |-> FALSE, jobs |-> <<>>, cur |-> Nothing,
              shut |-> FALSE, streams |-> {}, sends |-> <<>>, gen |-> 0, served |-> 0]

TypeOK ==
  /\ live \in 0..MaxLine /\ opening \in 0..MaxLine /\ made \in 0..MaxLine
  /\ closed \in BOOLEAN /\ takeover \in BOOLEAN
  /\ req \in [AllReqs -> {"idle", "waiting", "sent", "ok", "refused", "failed"}]
  /\ on \in [AllReqs -> 0..MaxLine] /\ screen \in [Subs -> {"new", "on", "off"}]
  /\ ph \in [Lines -> Phones] /\ ag \in [Lines -> Slots]
  /\ cut \subseteq Lines /\ up \in [Lines -> Seq(Frames)] /\ dn \in [Lines -> Seq(Frames)]
  /\ valid \in BOOLEAN /\ token \in BOOLEAN
  /\ gen \in 0..MaxGen /\ (token => gen < MaxGen)
  /\ ran \in [AllReqs -> SUBSET Lines]

Init ==
  /\ scene \in Scenes
  /\ live = 0 /\ opening = 0 /\ made = 0 /\ closed = FALSE /\ takeover = FALSE
  /\ req = [r \in AllReqs |-> "idle"] /\ on = [r \in AllReqs |-> 0] /\ screen = [s \in Subs |-> "new"]
  /\ ph = [l \in Lines |-> FreshPhone] /\ ag = [l \in Lines |-> FreshSlot]
  /\ cut = {} /\ up = [l \in Lines |-> <<>>] /\ dn = [l \in Lines |-> <<>>]
  /\ IF "pair" \in Acts THEN gen = 0 /\ valid = FALSE /\ token = TRUE
                        ELSE gen = 1 /\ valid = TRUE /\ token = FALSE
  /\ ran = [r \in AllReqs |-> {}]

-----------------------------------------------------------------------------
(* The phone: lines.                                                       *)

\* A line that the phone, or the relay, closes: the agent is told behind what
\* is on its way.
Closed(l) ==
  /\ cut' = cut \cup {l}
  /\ up' = IF l \in cut THEN up ELSE [up EXCEPT ![l] = Append(@, Frame("closed"))]

\* A fault: requests that wait for the line do not end with it.
EndsWithFault(l) == {r \in AllReqs : req[r] = "sent" /\ on[r] = l}
\* Requests that end with the line l: those sent on it, and those that waited
\* for it.
EndsWith(l) == {r \in AllReqs : (req[r] = "sent" /\ on[r] = l) \/ (req[r] = "waiting" /\ opening = l)}

\* A fault: they are tried again.
EndedFault == "waiting"
\* How they end: they are not tried again.
Ended == "failed"

\* down and fail: the line is given up for good, and closed.
Dead(l) ==
  /\ ph' = [ph EXCEPT ![l].phase = "dead", ![l].out = <<>>, ![l].stops = {}]
  /\ req' = [r \in AllReqs |-> IF r \in EndsWith(l) THEN Ended ELSE req[r]]
  /\ live' = IF live = l THEN 0 ELSE live
  /\ opening' = IF opening = l THEN 0 ELSE opening
  /\ Closed(l)
  /\ UNCHANGED <<made, takeover, on, screen, dn, ag, regVars, ran, scene>>

\* Each attempt to connect uses up the flag, whatever its outcome.
Used == FALSE

\* ensure: nothing to do, wait for the line being opened, or open one.
Ensure ==
  IF live # 0 \/ opening # 0
  THEN UNCHANGED <<opening, made, takeover, up, ag>> /\ UNCHANGED ph
  ELSE /\ made < MaxLine /\ opening' = made + 1 /\ made' = made + 1
       /\ takeover' = Used
       /\ ph' = [ph EXCEPT ![made + 1].phase = "reply"]
       /\ ag' = [ag EXCEPT ![made + 1].slot = "fresh"]
       /\ up' = [up EXCEPT ![made + 1] = <<Frame("init")>>]

\* AgentTransport: a request goes out on the line, or waits for one.
Ask(r) ==
  /\ r \in scene.asks /\ req[r] = "idle" /\ ~closed
  /\ IF live # 0
     THEN /\ ph' = [ph EXCEPT ![live].out = Append(@, Of("request", r))]
          /\ req' = [req EXCEPT ![r] = "sent"] /\ on' = [on EXCEPT ![r] = live]
          /\ UNCHANGED <<opening, made, takeover, up, ag>>
     ELSE /\ Ensure /\ req' = [req EXCEPT ![r] = "waiting"] /\ UNCHANGED on
  /\ UNCHANGED <<scene, live, closed, screen, cut, dn, regVars, ran>>

\* The key of the phone cannot be used: the attempt ends before any line.
KeyMissing(r) ==
  /\ "nokey" \in Acts /\ req[r] = "idle" /\ ~closed /\ live = 0 /\ opening = 0
  /\ takeover' = Used /\ req' = [req EXCEPT ![r] = "failed"]
  /\ UNCHANGED <<scene, live, opening, made, closed, on, screen, ph, netVars, ag, regVars, ran>>

\* The button "use this machine for free".
TakeoverNext ==
  /\ "move" \in Acts /\ live = 0 /\ opening = 0 /\ ~closed /\ takeover' = TRUE
  /\ UNCHANGED <<scene, live, opening, made, closed, askVars, ph, netVars, ag, regVars, ran>>

Subscribe(s) ==
  /\ "sub" \in Acts /\ screen[s] = "new" /\ ~closed
  /\ screen' = [screen EXCEPT ![s] = "on"]
  /\ IF live # 0
     THEN /\ ph' = [ph EXCEPT ![live].out = Append(@, Of("request", s)),
                              ![live].stops = @ \cup {s}, ![live].subs = @ \cup {s}]
          /\ UNCHANGED <<opening, made, takeover, up, ag>>
     ELSE Ensure
  /\ UNCHANGED <<scene, live, closed, req, on, cut, dn, regVars, ran>>

\* The screen goes away: the line is told if the subscription is alive on it.
Unsubscribe(s) ==
  /\ screen[s] = "on" /\ screen' = [screen EXCEPT ![s] = "off"]
  /\ ph' = IF live = 0 \/ s \notin ph[live].stops THEN ph
           ELSE [ph EXCEPT ![live].stops = @ \ {s}, ![live].subs = @ \ {s},
                           ![live].out = IF s \in ph[live].subs THEN Append(@, Of("close", s)) ELSE @]
  /\ UNCHANGED <<scene, routeVars, req, on, netVars, ag, regVars, ran>>

\* close of the route: the endpoint was left.  A line still being opened is
\* given up when it opens.
Leave ==
  /\ "leave" \in Acts /\ ~closed /\ closed' = TRUE
  /\ screen' = [s \in Subs |-> IF screen[s] = "on" THEN "off" ELSE screen[s]]
  /\ IF live # 0
     THEN /\ ph' = [ph EXCEPT ![live].phase = "dead", ![live].out = <<>>, ![live].stops = {}]
          /\ req' = [r \in AllReqs |-> IF r \in EndsWith(live) THEN "failed" ELSE req[r]]
          /\ Closed(live) /\ live' = 0
     ELSE UNCHANGED <<ph, req, cut, up, live>>
  /\ UNCHANGED <<scene, opening, made, takeover, on, dn, ag, regVars, ran>>

\* A sealed frame leaves in its turn.
Send(l) ==
  /\ ph[l].out # <<>>
  /\ ph' = [ph EXCEPT ![l].out = Tail(@)]
  /\ up' = IF l \in cut THEN up ELSE [up EXCEPT ![l] = Append(@, Head(ph[l].out))]
  /\ UNCHANGED <<scene, routeVars, askVars, cut, dn, ag, regVars, ran>>

Waiting == {r \in AllReqs : req[r] = "waiting"}
Requests(S) == SetToSeq({Of("request", x) : x \in S})

ResubscribedFault == {}
\* The wire is opened: what was wanted is subscribed again, then the waiting
\* requests go out.
Resubscribed == Wanted

Opened(l) ==
  /\ ph' = [ph EXCEPT ![l].phase = "open", ![l].stops = Resubscribed, ![l].subs = Resubscribed,
                       ![l].out = Requests(Resubscribed) \o Requests(Waiting)]
  /\ live' = l /\ opening' = 0
  /\ req' = [r \in AllReqs |-> IF r \in Waiting THEN "sent" ELSE req[r]]
  /\ on' = [r \in AllReqs |-> IF r \in Waiting THEN l ELSE on[r]]
  /\ UNCHANGED <<made, takeover, screen, cut, up, ag, regVars, ran, scene>>

\* An answer of the agent, on the open wire.
Answered(l, f) ==
  IF f.x \in ph[l].subs
  THEN /\ ph' = IF f.ok THEN [ph EXCEPT ![l].conf = @ \cup {f.x}]
                ELSE [ph EXCEPT ![l].subs = @ \ {f.x}]
       /\ UNCHANGED req
  ELSE /\ req' = [r \in AllReqs |-> IF r = f.x /\ req[r] = "sent" /\ on[r] = l
                                    THEN IF f.ok THEN "ok" ELSE "refused" ELSE req[r]]
       /\ UNCHANGED ph

\* receive: the frames of a line are handled one after the other.
Receive(l) ==
  /\ dn[l] # <<>> /\ ph[l].phase # "dead" /\ UNCHANGED closed
  /\ LET f == Head(dn[l])
         p == ph[l].phase
     IN CASE p = "reply" /\ f.t = "reply" ->
               /\ ph' = [ph EXCEPT ![l].phase = "confirm"] /\ dn' = [dn EXCEPT ![l] = Tail(@)]
               /\ UNCHANGED <<scene, live, opening, made, takeover, askVars, cut, up, ag, regVars, ran>>
          [] p = "confirm" /\ f.t = "confirm" /\ ~closed ->
               Opened(l) /\ dn' = [dn EXCEPT ![l] = Tail(@)]
          [] p = "open" /\ f.t = "response" ->
               /\ Answered(l, f) /\ dn' = [dn EXCEPT ![l] = Tail(@)]
               /\ UNCHANGED <<scene, live, opening, made, takeover, on, screen, cut, up, ag, regVars, ran>>
          [] p = "open" /\ f.t = "event" ->
               /\ dn' = [dn EXCEPT ![l] = Tail(@)]
               /\ UNCHANGED <<scene, live, opening, made, takeover, askVars, ph, cut, up, ag, regVars, ran>>
          [] p = "open" /\ f.t = "close" ->
               /\ ph' = [ph EXCEPT ![l].subs = @ \ {f.x}] /\ dn' = [dn EXCEPT ![l] = Tail(@)]
               /\ req' = [r \in AllReqs |-> IF r = f.x /\ req[r] = "sent" THEN "failed" ELSE req[r]]
               /\ UNCHANGED <<scene, live, opening, made, takeover, on, screen, cut, up, ag, regVars, ran>>
          [] OTHER -> Dead(l)      \* end of the line or of the tunnel, or not the frame of this phase

\* Ten seconds without the end of the handshake.
HandshakeTimeout(l) ==
  ph[l].phase \in {"reply", "confirm"} /\ Dead(l) /\ UNCHANGED closed

\* Ten seconds without an answer: the whole line is thrown away.
RequestTimeout(r) ==
  /\ "slow" \in Acts /\ req[r] = "sent"
  /\ \E l \in Lines : on[r] = l /\ ph[l].phase = "open" /\ Dead(l)
  /\ UNCHANGED closed

-----------------------------------------------------------------------------
(* The network.                                                            *)

\* The line breaks: what is on its way is lost from some point on, and the
\* phone learns of it, unless the line is half dead.
Break(l) ==
  /\ "break" \in Acts /\ ph[l].phase # "none" /\ l \notin cut
  /\ cut' = cut \cup {l}
  /\ \E n \in 0..Len(up[l]) : up' = [up EXCEPT ![l] = Append(SubSeq(@, 1, n), Frame("closed"))]
  /\ \E n \in 0..Len(dn[l]), told \in {TRUE, "slow" \notin Acts} :
       dn' = [dn EXCEPT ![l] = SubSeq(@, 1, n) \o IF told THEN <<Frame("end")>> ELSE <<>>]
  /\ UNCHANGED <<scene, routeVars, askVars, ph, ag, regVars, ran>>

\* The end of a line is known at once; what was begun on it ends in its turn.
Gone(a) == [a EXCEPT !.gone = TRUE, !.jobs = Append(@, Frame("abandon"))]

\* down of the agent's link: every slot is retired, every line closed.
LinkDown ==
  /\ "linkdown" \in Acts /\ \E l \in Lines : ag[l].slot # "none" /\ ~ag[l].gone
  /\ ag' = [l \in Lines |-> IF ag[l].slot = "none" THEN ag[l]
             ELSE Gone(ag[l])]
  /\ up' = [l \in Lines |-> <<>>]
  /\ dn' = [l \in Lines |-> IF ag[l].slot = "none" \/ l \in cut THEN dn[l] ELSE Append(dn[l], Frame("end"))]
  /\ cut' = cut \cup {l \in Lines : ag[l].slot # "none"}
  /\ UNCHANGED <<scene, routeVars, askVars, ph, regVars, ran>>

\* dropConn: the relay closes the line of the phone.
Dropped(l, a) ==
  /\ ag' = [ag EXCEPT ![l] = a]
  /\ cut' = cut \cup {l}
  /\ IF l \in cut THEN UNCHANGED <<up, dn>>
     ELSE /\ dn' = [dn EXCEPT ![l] = Append(@, Frame("end"))]
          /\ up' = [up EXCEPT ![l] = Append(@, Frame("closed"))]

-----------------------------------------------------------------------------
(* The agent.                                                              *)

\* authorizeConnection: the registration a new line is accepted under; 0 is
\* none.  While a code is out, anybody may come in to pair.
Accepted == IF valid THEN gen ELSE IF token THEN PairingOnly ELSE 0

\* A fault: the registration is looked up by the key.
LiveRegFault(g) == g = PairingOnly \/ valid
\* isDeviceConnectionLive: the registration of the handshake is the current
\* one; a line that came to pair has none to lose.
LiveReg(g) == g = PairingOnly \/ (valid /\ g = gen)

\* authenticate: a line that came to pair may ask for that only.
MayRun(l, x) == LiveReg(ag[l].gen) /\ (ag[l].gen = PairingOnly => x = Pair)

\* receive: a frame joins the jobs of its line.
Arrive(l) ==
  /\ up[l] # <<>> /\ up' = [up EXCEPT ![l] = Tail(@)]
  /\ LET f == Head(up[l]) IN
     ag' = [ag EXCEPT ![l] = IF f.t = "closed" THEN Gone(ag[l])
                             ELSE IF @.slot = "dead" THEN @ ELSE [ag[l] EXCEPT !.jobs = Append(@, f)]]
  /\ UNCHANGED <<scene, routeVars, askVars, ph, cut, dn, regVars, ran>>

Skipped(a) == a.slot = "dead" \/ a.gone

AbandonedFault(a) == [a EXCEPT !.shut = TRUE]
\* abandon: subscriptions end, nothing is sent.
Abandoned(a) == [a EXCEPT !.shut = TRUE, !.streams = {}]

\* handshake: the first message is answered if its key is accepted.
Handshake(l, f, a) ==
  /\ f.t # "abandon" /\ ~Skipped(a) /\ a.slot = "fresh" /\ UNCHANGED ran
  /\ IF f.t = "init" /\ Accepted # 0
     THEN ag' = [ag EXCEPT ![l] = [a EXCEPT !.cur = f, !.gen = Accepted]] /\ UNCHANGED netVars
     ELSE Dropped(l, [a EXCEPT !.slot = "dead"])

\* fatal: a frame for a tunnel that is closed ends the line.
Fatal(l, f, a) ==
  /\ f.t # "abandon" /\ ~Skipped(a) /\ a.slot = "open" /\ a.shut
  /\ ag' = [ag EXCEPT ![l] = [a EXCEPT !.slot = "dead",
                                       !.sends = @ \o <<Frame("closeall"), Frame("drop")>>]]
  /\ UNCHANGED <<netVars, ran>>

\* dropStream: the phone is done with a subscription.
DropStream(l, f, a) ==
  /\ f.t = "close" /\ ~Skipped(a) /\ a.slot = "open" /\ ~a.shut
  /\ ag' = [ag EXCEPT ![l] = [a EXCEPT !.streams = @ \ {f.x}]] /\ UNCHANGED <<netVars, ran>>

\* A request is authenticated, and its handler starts.
Begin(l, f, a) ==
  /\ f.t = "request" /\ ~Skipped(a) /\ a.slot = "open" /\ ~a.shut
  /\ ag' = [ag EXCEPT ![l] = [a EXCEPT !.cur = Reply(f.x, MayRun(l, f.x)),
                                       !.served = IF a.gen = PairingOnly THEN @ + 1 ELSE @]]
  /\ ran' = IF f.x \in AllReqs /\ MayRun(l, f.x) THEN [ran EXCEPT ![f.x] = @ \cup {l}] ELSE ran
  /\ UNCHANGED netVars

\* Jobs of a line that is dead or gone are passed over, but for its end.
Pass(l, f, a) ==
  /\ f.t = "abandon" \/ Skipped(a)
  /\ ag' = [ag EXCEPT ![l] = IF f.t = "abandon" THEN Abandoned(a) ELSE a] /\ UNCHANGED <<netVars, ran>>

\* The next job of a line.
Job(l) ==
  /\ ag[l].jobs # <<>> /\ ag[l].cur = Nothing
  /\ LET f == Head(ag[l].jobs)
         a == [ag[l] EXCEPT !.jobs = Tail(@)]
     IN Pass(l, f, a) \/ Handshake(l, f, a) \/ Fatal(l, f, a) \/ DropStream(l, f, a) \/ Begin(l, f, a)
  /\ UNCHANGED <<scene, routeVars, askVars, ph, regVars>>

\* handshake, continued: reply and confirmation, then the tunnel, unless the
\* registration has gone meanwhile.
Handshaken(l) ==
  /\ ag[l].cur.t = "init"
  /\ dn' = IF ag[l].gone \/ l \in cut THEN dn ELSE [dn EXCEPT ![l] = @ \o <<Frame("reply"), Frame("confirm")>>]
  /\ ag' = [ag EXCEPT ![l].cur = Nothing, ![l].slot = IF LiveReg(ag[l].gen) THEN "open" ELSE @]
  /\ UNCHANGED <<scene, routeVars, askVars, ph, cut, up, regVars, ran>>

\* An answer that is too large for a frame ends the line.
TooLarge(l) ==
  /\ "big" \in Acts /\ ag[l].cur.t = "response" /\ ag[l].cur.x \in Reqs
  /\ ag' = [ag EXCEPT ![l] = [Abandoned(ag[l]) EXCEPT !.cur = Nothing, !.slot = "dead",
                                                 !.sends = @ \o <<Frame("closeall"), Frame("drop")>>]]
  /\ UNCHANGED <<scene, routeVars, askVars, ph, netVars, regVars, ran>>

\* The handler is done: pairing registers the key if the code still holds, a
\* subscription becomes a stream, the answer goes to the send chain.
Done(l) ==
  /\ ag[l].cur.t = "response"
  /\ LET x == ag[l].cur.x
         ok == ag[l].cur.ok /\ (x = Pair => token)
     IN /\ ag' = [ag EXCEPT ![l].cur = Frame("sending"),
                            ![l].streams = IF ok /\ x \in Subs THEN @ \cup {x} ELSE @,
                            ![l].sends = Append(@, Reply(x, ok))]
        /\ IF ok /\ x = Pair
           THEN gen' = (IF valid THEN gen ELSE gen + 1) /\ valid' = TRUE /\ token' = FALSE
           ELSE UNCHANGED regVars
  /\ UNCHANGED <<scene, routeVars, askVars, ph, netVars, ran>>

\* An event for a stream.  Bound: one event is on its way at a time.
Event(l, x) ==
  /\ "events" \in Acts /\ x \in ag[l].streams
  /\ ~Contains(ag[l].sends, Of("event", x)) /\ ~Contains(dn[l], Of("event", x))
  /\ ag' = [ag EXCEPT ![l].sends = Append(@, Of("event", x))]
  /\ UNCHANGED <<scene, routeVars, askVars, ph, netVars, regVars, ran>>

\* A line that came to pair is closed behind its one answer.
OneShot(a) == IF a.gen = PairingOnly
              THEN [Abandoned(a) EXCEPT !.sends = Append(@, Frame("closeall"))] ELSE a

\* A fault: the end of a stream is not announced.
StreamEndsFault(a, x) == [a EXCEPT !.streams = @ \ {x}]
\* A stream whose registration is gone ends with a close.
StreamEnds(a, x) == [a EXCEPT !.streams = @ \ {x}, !.sends = Append(@, Of("close", x))]

\* What is sealed goes out while the line is there.
GoesOut(l, f, a) ==
  /\ dn' = IF a.gone \/ l \in cut THEN dn ELSE [dn EXCEPT ![l] = Append(@, f)]
  /\ UNCHANGED <<cut, up>>

\* An event is dropped if its stream is gone, and turned into a close if the
\* registration is.
NoEvent(l, f, a) ==
  /\ f.t = "event" /\ (f.x \in a.streams => ~LiveReg(a.gen))
  /\ ag' = [ag EXCEPT ![l] = IF f.x \in a.streams THEN StreamEnds(a, f.x) ELSE a] /\ UNCHANGED netVars

\* With the answer, the next job may begin.
Answers(l, f, a) ==
  f.t = "response" /\ ag' = [ag EXCEPT ![l] = OneShot([a EXCEPT !.cur = Nothing])] /\ GoesOut(l, f, a)

Passes(l, f, a) ==
  /\ f.t \notin {"response", "drop"} /\ (f.t = "event" => f.x \in a.streams /\ LiveReg(a.gen))
  /\ ag' = [ag EXCEPT ![l] = a] /\ GoesOut(l, f, a)

\* The send chain: the next frame is sealed and sent.
Sealed(l) ==
  /\ ag[l].sends # <<>>
  /\ LET f == Head(ag[l].sends)
         a == [ag[l] EXCEPT !.sends = Tail(@)]
     IN NoEvent(l, f, a) \/ Answers(l, f, a) \/ Passes(l, f, a) \/ (f.t = "drop" /\ Dropped(l, a))
  /\ UNCHANGED <<scene, routeVars, askVars, ph, regVars, ran>>

\* A line that came to pair is kept for thirty seconds.
PairingTTL(l) ==
  /\ ag[l].slot = "open" /\ ag[l].gen = PairingOnly /\ ~ag[l].gone
  /\ Dropped(l, [ag[l] EXCEPT !.slot = "dead", !.jobs = Append(@, Frame("abandon"))])
  /\ UNCHANGED <<scene, routeVars, askVars, ph, regVars, ran>>

\* At the PC: the registration is revoked, and made again over another line;
\* a code runs out.
Revoke ==
  /\ "revoke" \in Acts /\ valid /\ valid' = FALSE
  /\ UNCHANGED <<scene, routeVars, askVars, ph, netVars, ag, gen, token, ran>>

\* Bound: MaxGen registrations, one of them kept for the code that is out.
PairElsewhere ==
  /\ "revoke" \in Acts /\ ~valid /\ gen + (IF token THEN 1 ELSE 0) < MaxGen /\ gen' = gen + 1 /\ valid' = TRUE
  /\ UNCHANGED <<scene, routeVars, askVars, ph, netVars, ag, token, ran>>

TokenExpires ==
  /\ token /\ token' = FALSE
  /\ UNCHANGED <<scene, routeVars, askVars, ph, netVars, ag, gen, valid, ran>>

-----------------------------------------------------------------------------
PhoneStep(l) == Send(l) \/ Receive(l)
AgentStep(l) == Arrive(l) \/ Job(l) \/ Handshaken(l) \/ Done(l) \/ Sealed(l)
Act == (\E r \in AllReqs : Ask(r) \/ KeyMissing(r)) \/ TakeoverNext \/ Leave
       \/ \E s \in Subs : Subscribe(s) \/ Unsubscribe(s)

Next ==
  \/ Act
  \/ \E l \in Lines : PhoneStep(l) \/ AgentStep(l) \/ HandshakeTimeout(l) \/ Break(l)
                      \/ TooLarge(l) \/ PairingTTL(l) \/ \E x \in Subs : Event(l, x)
  \/ \E r \in AllReqs : RequestTimeout(r)
  \/ LinkDown \/ Revoke \/ PairElsewhere \/ TokenExpires

Spec == Init /\ [][Next]_vars

\* Frames arrive, each chain goes on by itself, and timers fire.
FairSpec ==
  /\ Spec
  /\ \A l \in Lines : /\ WF_vars(Send(l)) /\ WF_vars(Receive(l)) /\ WF_vars(HandshakeTimeout(l))
                      /\ WF_vars(Arrive(l)) /\ WF_vars(Job(l) \/ Handshaken(l) \/ Done(l)) /\ WF_vars(Sealed(l))
  /\ \A r \in AllReqs : WF_vars(RequestTimeout(r))

-----------------------------------------------------------------------------
(* Properties.                                                             *)

\* What the screen may count on: each request is an exchange, whose handler
\* is started at most once and whose answer, if any, is its own (tunnel.ts,
\* relayRoute.ts "requests are not retried").
Exchange == INSTANCE Exchange WITH
  asked <- {r \in AllReqs : req[r] # "idle"},
  started <- {r \in AllReqs : ran[r] # {}},
  times <- [r \in AllReqs |-> Cardinality(ran[r])],
  ended <- [r \in AllReqs |-> IF req[r] \in {"ok", "refused", "failed"} THEN req[r] ELSE "open"]
ExchangeSpec == Exchange!Spec

\* Revocation holds for lines that are open, and registering the key again
\* does not bring them back (devices.ts, isLiveRegistration): no handler is
\* started for a line that was accepted under an earlier registration.
NoRevival ==
  [][\A r \in AllReqs : \A l \in ran'[r] \ ran[r] :
        ag[l].gen = PairingOnly \/ (valid /\ ag[l].gen = gen)]_vars

\* "Live" on the screen is not a lie: the agent holds the stream, or the end
\* of it is on its way to the phone.
EventsLiveTrue ==
  \A l \in Lines, s \in Subs :
    (ph[l].phase = "open" /\ s \in ph[l].conf \cap ph[l].subs) =>
      \/ s \in ag[l].streams \/ l \in cut
      \/ \E f \in {Of("close", s), Frame("closeall")} : Contains(dn[l], f) \/ Contains(ag[l].sends, f)

\* After a reconnect no screen stays silent: what is wanted is asked for on
\* the line in use.
NoneSilent == live # 0 => Wanted \subseteq ph[live].stops

\* Lines given up are closed, so that they do not fill the relay's places for
\* phones; the flag of the button never meets an automatic reconnect.
NoLineLeaks == \A l \in 1..made : l \in {live, opening} \/ l \in cut
TakeoverIsNext == takeover => live = 0 /\ opening = 0

\* A one-time code is tried once per line.
OneTry == \A l \in Lines : ag[l].served <= 1

\* The route is in order between any two steps (relayRoute.ts).
RouteInOrder == NoneSilent /\ NoLineLeaks /\ TakeoverIsNext /\ OneTry

\* Every request ends, with its answer or with a reason.
AskEnds == \A r \in AllReqs : req[r] \in {"waiting", "sent"} ~> req[r] \in {"ok", "refused", "failed"}

\* The agent does not go on sending to a screen that is gone.
StreamsGo ==
  \A l \in Lines, s \in Subs :
    (s \in ag[l].streams /\ (ph[l].phase = "dead" \/ s \notin ph[l].subs)) ~> s \notin ag[l].streams

=============================================================================
