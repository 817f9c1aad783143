-------------------------------- MODULE Tray --------------------------------
(***************************************************************************)
(* The notifications of waiting approvals on a phone, and who clears them   *)
(* away: the service worker, with the list that a push brings along         *)
(* (push-core.js), and the app, with the lists it has fetched               *)
(* (notifications.ts, main.tsx).  Both compare times of the agent's clock.  *)
(*                                                                         *)
(* Simplified: the machines share a clock (their times are never compared); *)
(* machines have names of their own; pushes of one approval arrive in the   *)
(* order they were sent; the phone's user closes nothing.                   *)
(***************************************************************************)
EXTENDS Naturals, FiniteSets

CONSTANTS
    Machines,
    Keys,       \* approvals; the tag of a notification tells one
    Owner,      \* the machine of an approval
    Scenes,     \* who cleans up: of {"worker", "app"}
    MaxClock,   \* bound: time
    MaxAsks,    \* bound: requests made
    MaxPushes,  \* bound: pushes sent
    MaxWork,    \* bound: cleanings under way
    Unread,     \* a push that is not made up yet
    None        \* no approval; no list

TrayAssumption == Owner \in [Keys -> Machines]

VARIABLES
    scene,
    clock,
    asked,   \* requests made so far
    ask,     \* "none", "shown" or "quiet"
    at,      \* when it was asked, last
    pushes,  \* on their way
    sent,    \* pushes sent so far
    tray,    \* the time of the notification shown for an approval; 0 if none
    reads,   \* a list on its way to the app (no other is used, PhoneList)
    lists,   \* what the app knows of a machine
    jobs     \* cleanings under way

agent == <<scene, asked, clock, ask, at>>
app == <<reads, lists>>
vars == <<agent, pushes, sent, tray, app, jobs>>

Waiting(k) == ask[k] # "none"

\* A fault: without those that are held quiet.
PendingTagsFault(m) == {k \in Keys : Owner[k] = m /\ ask[k] = "shown"}

(* All that wait, the quiet ones too.                                       *)
PendingTags(m) == {k \in Keys : Owner[k] = m /\ Waiting(k)}

Unknown == [known |-> FALSE, tags |-> {}, at |-> 0]

Init ==
    /\ scene \in Scenes
    /\ clock = 1 /\ asked = 0 /\ ask = [k \in Keys |-> "none"] /\ at = [k \in Keys |-> 0]
    /\ pushes = {} /\ sent = 0 /\ tray = [k \in Keys |-> 0]
    /\ reads = {} /\ lists = [m \in Machines |-> Unknown] /\ jobs = {}

-----------------------------------------------------------------------------
(* The agents.                                                              *)

Push(tag, m, time) ==
    /\ sent < MaxPushes /\ sent' = sent + 1
    /\ pushes' = pushes \cup {[tag |-> tag, m |-> m, ts |-> time, list |-> Unread]}

(* A hook asks, or asks again while its request waits; that of a subagent   *)
(* is held quiet.                                                           *)
Raise(k, sub, time) ==
    /\ asked < MaxAsks /\ asked' = asked + 1 /\ time \in clock .. clock + 1 /\ time <= MaxClock
    /\ clock' = time /\ scene' = scene /\ at' = [at EXCEPT ![k] = time]
    /\ ask' = [ask EXCEPT ![k] = IF sub THEN "quiet" ELSE "shown"]
    /\ IF sub THEN UNCHANGED <<pushes, sent>> ELSE Push(k, Owner[k], time)
    /\ UNCHANGED <<tray, app, jobs>>

Promote(k) ==
    /\ ask[k] = "quiet" /\ ask' = [ask EXCEPT ![k] = "shown"] /\ Push(k, Owner[k], at[k])
    /\ UNCHANGED <<scene, asked, clock, at, tray, app, jobs>>

Settle(k) ==
    /\ Waiting(k) /\ ask' = [ask EXCEPT ![k] = "none"]
    /\ UNCHANGED <<scene, asked, clock, at, pushes, sent, tray, app, jobs>>

(* A notification of another kind, of the end of a turn.                    *)
Stops(m) == Push(None, m, clock) /\ UNCHANGED <<agent, tray, app, jobs>>

(* The payload is made up some time after: the list goes along, if there is *)
(* room for it.                                                             *)
WithPendingPerms(p, room) ==
    /\ p.list = Unread /\ room \in {FALSE, scene = "worker"}
    /\ pushes' = (pushes \ {p}) \cup {[p EXCEPT !.list = IF room THEN PendingTags(p.m) ELSE None]}
    /\ UNCHANGED <<agent, sent, tray, app, jobs>>

-----------------------------------------------------------------------------
(* The service worker.                                                      *)

Job(time, keep) == [at |-> time, keep |-> keep]
Adds(j) == Cardinality(jobs) < MaxWork /\ jobs' = jobs \cup {j}

(* A notification is shown, in the place of one of the same tag; what its   *)
(* machine no longer waits for is looked for next.                          *)
Deliver(p) ==
    /\ p.list # Unread
    /\ \A q \in pushes : q.tag = p.tag /\ p.tag # None => q.ts >= p.ts
    /\ pushes' = pushes \ {p}
    /\ tray' = IF p.tag = None THEN tray ELSE [tray EXCEPT ![p.tag] = p.ts]
    /\ IF p.list = None THEN UNCHANGED jobs
       ELSE Adds(Job([m \in Machines |-> IF m = p.m THEN p.ts ELSE 0], p.list \cup {p.tag}))
    /\ UNCHANGED <<agent, sent, app>>

Lost(p) == pushes' = pushes \ {p} /\ UNCHANGED <<agent, sent, tray, app, jobs>>

\* A fault: a notification as old as the list is not newer than it.
StaleTagsFault(j) ==
    {k \in Keys : /\ tray[k] # 0 /\ k \notin j.keep
                  /\ j.at[Owner[k]] # 0 /\ tray[k] <= j.at[Owner[k]]}

(* Only what is older than the list of its machine and not in it.           *)
StaleTags(j) ==
    {k \in Keys : /\ tray[k] # 0 /\ k \notin j.keep
                  /\ j.at[Owner[k]] # 0 /\ tray[k] < j.at[Owner[k]]}

Clean(j) ==
    /\ tray' = [k \in Keys |-> IF k \in StaleTags(j) THEN 0 ELSE tray[k]]
    /\ jobs' = jobs \ {j}
    /\ UNCHANGED <<agent, pushes, sent, app>>

-----------------------------------------------------------------------------
(* The app.                                                                 *)

(* A machine lists what waits, with the time of its clock.                  *)
Permissions(m) ==
    /\ scene = "app" /\ reads = {}
    /\ reads' = reads \cup {[m |-> m, tags |-> PendingTags(m), at |-> clock]}
    /\ UNCHANGED <<agent, pushes, sent, tray, lists, jobs>>

(* The effect of main.tsx runs when the key of the lists changes: with all  *)
(* the lists there are, and nothing of machines that are out of reach.      *)
KeyOf(l) == [m \in Machines |-> <<l[m].known, l[m].tags>>]

Tidies(l) ==
    IF KeyOf(l) = KeyOf(lists) \/ \A m \in Machines : ~l[m].known THEN UNCHANGED jobs
    ELSE Adds(Job([m \in Machines |-> IF l[m].known THEN l[m].at ELSE 0],
                  UNION {l[m].tags : m \in {x \in Machines : l[x].known}}))

Arrive(r) ==
    /\ reads' = reads \ {r}
    /\ lists' = [lists EXCEPT ![r.m] = [known |-> TRUE, tags |-> r.tags, at |-> r.at]]
    /\ Tidies(lists')
    /\ UNCHANGED <<agent, pushes, sent, tray>>

(* The machine cannot be reached: its approvals are not gone, but unknown.  *)
Offline(m) ==
    /\ lists[m].known
    /\ lists' = [lists EXCEPT ![m].known = FALSE, ![m].at = 0] /\ Tidies(lists')
    /\ UNCHANGED <<agent, pushes, sent, tray, reads>>

Next ==
    \/ \E k \in Keys : Promote(k) \/ Settle(k)
          \/ \E sub \in BOOLEAN, time \in clock .. clock + 1 : Raise(k, sub, time)
    \/ \E m \in Machines : Stops(m) \/ Permissions(m) \/ Offline(m)
    \/ \E p \in pushes : Deliver(p) \/ Lost(p) \/ \E room \in BOOLEAN : WithPendingPerms(p, room)
    \/ \E r \in reads : Arrive(r)
    \/ \E j \in jobs : Clean(j)

Spec == Init /\ [][Next]_vars

-----------------------------------------------------------------------------
TypeOK ==
    /\ clock \in 1 .. MaxClock
    /\ ask \in [Keys -> {"none", "shown", "quiet"}]
    /\ tray \in [Keys -> 0 .. MaxClock]

(* However late pushes, lists and cleanings are, the notification of an     *)
(* approval that still waits is not closed: it may be the only sign of it   *)
(* (push-core.js staleTags, notifications.ts staleAppTags).                 *)
LiveStays == \A k \in Keys : tray[k] # 0 /\ tray[k] = at[k] /\ tray'[k] = 0 => ~Waiting(k)

LiveNotificationStays == [][LiveStays]_vars
=============================================================================
