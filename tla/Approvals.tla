----------------------------- MODULE Approvals -----------------------------
(***************************************************************************)
(* Remote approval of one session (agent/src/permission.ts,                *)
(* permissionSweep.ts and routes/permission.ts).  Claude asks for approval *)
(* of a tool call through a hook, a request that the agent keeps waiting   *)
(* while a phone may answer.  Claude shows the same question on the PC,    *)
(* and does not close the request when it is answered there: the agent     *)
(* finds out by sweeping the transcript.                                   *)
(*                                                                         *)
(*   - A call is known by its key (tool, arguments, turn, subagent), which *)
(*     is that of any equal call of the turn.  A request carries the key   *)
(*     and a generation of its own.                                        *)
(*   - Requests of subagents are held quiet for some seconds and announced *)
(*     only if they still wait then.                                       *)
(*                                                                         *)
(* Simplifications:                                                        *)
(*   - Equal calls of one turn run one after the other.                    *)
(*   - The transcript is the set of calls whose use, and whose result, has *)
(*     been written; a call's records may come late.  A result is newer    *)
(*     than a request if it was not there when the request came.           *)
(*   - A sweep reads the file of each key and drops its requests in one    *)
(*     step, as the code does after its await.                             *)
(*   - quietUntil passes when the timer of the request fires: both are     *)
(*     QUIET_MS after the request.                                         *)
(***************************************************************************)
EXTENDS Naturals, FiniteSets

CONSTANTS
  Calls,     \* tool calls, numbered in the order they are asked for
  Keys,
  KeyMaps,   \* the keys that calls may have
  SubKeys,   \* keys of calls of subagents
  Requests,  \* the requests of hooks, each with its generation
  List,      \* the sweep of GET /permissions
  None

ApprovalsAssumption ==
  /\ Calls \subseteq Nat
  /\ KeyMaps \subseteq [Calls -> Keys]
  /\ SubKeys \subseteq Keys
  /\ List \notin Requests /\ None \notin Requests

VARIABLES
  \* Claude and its transcript
  keyOf,     \* keyOf[c]: baseKey of the requests of call c; never changes
  call,      \* call[c]: new, asked, or done (decided, on the PC or not)
  uses,      \* calls whose tool_use is written
  results,   \* calls whose tool_result is written
  \* the agent
  entry,     \* pending: the request that waits under a key
  of,        \* the call a request asks for
  req,       \* idle, waiting, or how it ended
  old,       \* results that were there when it came
  quiet,     \* quietUntil: no (undefined), hold, past
  tm,        \* its quiet timer: off, set, sweeping
  promoted,  \* promotedOnce
  cont,      \* settled, the handler has not gone on yet
  items,     \* items[x]: what a sweep in progress has still to look at
  listing,   \* GET /permissions is being served
  label,     \* hookState: the session needs attention
  \* the phones
  telling,   \* requests whose notification is being made up
  notified,  \* requests announced
  seen       \* requests whose card a phone has

claudeVars == <<keyOf, call, uses, results>>
mapVars == <<entry, of, req, old, quiet, promoted>>
sweepVars == <<items, listing>>
phoneVars == <<telling, notified, seen>>
vars == <<claudeVars, mapVars, tm, cont, sweepVars, label, phoneVars>>

Sweeps == Requests \cup {List}
Ends == {"allow", "deny", "auto", "replaced", "closed", "swept", "stopped"}

KeyOfReq(r) == keyOf[of[r]]
Waits(r) == req[r] = "waiting"

(* Beside the types: the mark "shown once" is kept for waiting requests    *)
(* only, so that it does not grow for ever.                                *)
TypeOK ==
  /\ keyOf \in KeyMaps
  /\ call \in [Calls -> {"new", "asked", "done"}]
  /\ uses \subseteq Calls /\ results \subseteq uses
  /\ entry \in [Keys -> Requests \cup {None}]
  /\ of \in [Requests -> Calls]
  /\ req \in [Requests -> {"idle", "waiting"} \cup Ends]
  /\ old \in [Requests -> SUBSET Calls]
  /\ quiet \in [Requests -> {"no", "hold", "past"}]
  /\ tm \in [Requests -> {"off", "set", "sweeping"}]
  /\ promoted \subseteq {k \in Keys : entry[k] # None}
  /\ cont \subseteq Requests
  /\ items \in [Sweeps -> SUBSET Requests]
  /\ listing \in BOOLEAN /\ label \in BOOLEAN
  /\ telling \subseteq Requests /\ notified \subseteq Requests /\ seen \subseteq Requests

Init ==
  /\ keyOf \in KeyMaps
  /\ call = [c \in Calls |-> "new"]
  /\ uses = {} /\ results = {}
  /\ entry = [k \in Keys |-> None]
  /\ of \in [Requests -> Calls]
  /\ req = [r \in Requests |-> "idle"]
  /\ old = [r \in Requests |-> {}]
  /\ quiet = [r \in Requests |-> "no"]
  /\ tm = [r \in Requests |-> "off"]
  /\ promoted = {}
  /\ cont = {}
  /\ items = [x \in Sweeps |-> {}]
  /\ listing = FALSE /\ label = FALSE
  /\ telling = {} /\ notified = {} /\ seen = {}

-----------------------------------------------------------------------------
(* Settling requests.                                                      *)

\* A fault: the mark "shown once" outlives its request.
UnpromotedFault(rs) == promoted

\* promotedOnce after the requests rs have left the map.
Unpromoted(rs) == promoted \ {k \in Keys : entry[k] \in rs}

\* finish: the requests rs end as o, leave the map, and their handlers go on.
Settle(rs, o) ==
  /\ req' = [r \in Requests |-> IF r \in rs THEN o ELSE req[r]]
  /\ entry' = [k \in Keys |-> IF entry[k] \in rs THEN None ELSE entry[k]]
  /\ promoted' = Unpromoted(rs)
  /\ cont' = cont \cup rs
  /\ UNCHANGED <<of, old, quiet>>

\* A fault: quiet requests do not count.
SettledFault == \A r \in Requests : ~(req'[r] = "waiting" /\ quiet'[r] # "hold")

\* hasPendingForSession, after the step.
SettledAfter == \A r \in Requests : req'[r] # "waiting"

\* clearLabelIfSettled.
ClearLabel == label' = (label /\ ~SettledAfter)

-----------------------------------------------------------------------------
(* Claude and the PC.                                                      *)

\* Claude is done with call c: answered on the PC, by a phone, or passed by itself.
Decided(c) ==
  /\ call[c] = "asked"
  /\ call' = [call EXCEPT ![c] = "done"]
  /\ UNCHANGED <<keyOf, uses, results, mapVars, tm, cont, sweepVars, label, phoneVars>>

WriteUse(c) ==
  /\ call[c] # "new" /\ c \notin uses
  /\ uses' = uses \cup {c}
  /\ UNCHANGED <<keyOf, call, results, mapVars, tm, cont, sweepVars, label, phoneVars>>

WriteResult(c) ==
  /\ call[c] = "done" /\ c \in uses \ results
  /\ results' = results \cup {c}
  /\ UNCHANGED <<keyOf, call, uses, mapVars, tm, cont, sweepVars, label, phoneVars>>

\* The hook Notification/permission: a question is, or was, on the PC.
Notice ==
  /\ \E c \in Calls : call[c] # "new"
  /\ label' = TRUE
  /\ UNCHANGED <<claudeVars, mapVars, tm, cont, sweepVars, phoneVars>>

\* A request for call c may come: the first, or the hook firing once more for it.
Comes(r, c) ==
  /\ req[r] = "idle"
  /\ call[c] # "done"
  /\ \A d \in Calls : keyOf[d] = keyOf[c] /\ d < c => d \in results
  /\ \A d \in Calls : keyOf[d] = keyOf[c] /\ d > c => call[d] = "new"

\* A fault: nobody tells the old handler.
ReplacedQuietFault(r, e) ==
  /\ req' = [req EXCEPT ![r] = "waiting"]
  /\ UNCHANGED cont

\* The request e that waits under the key of r, if any, ends without a decision.
Replaced(r, e) ==
  /\ req' = [s \in Requests |-> IF s = r THEN "waiting"
                                ELSE IF s = e THEN "replaced" ELSE req[s]]
  /\ cont' = IF e = None THEN cont ELSE cont \cup {e}

\* permissionRequest up to its await: the request takes its key, a subagent's is
\* held quiet unless it was shown once, for any other notifyPermission begins.
Hook(r, c) ==
  LET k == keyOf[c]
      sub == k \in SubKeys
  IN
  /\ Comes(r, c)
  /\ call' = [call EXCEPT ![c] = "asked"]
  /\ of' = [of EXCEPT ![r] = c]
  /\ old' = [old EXCEPT ![r] = results]
  /\ Replaced(r, entry[k])
  /\ entry' = [entry EXCEPT ![k] = r]
  /\ promoted' = Unpromoted({entry[k]})
  /\ quiet' = [quiet EXCEPT ![r] = IF sub /\ k \notin promoted' THEN "hold" ELSE "no"]
  /\ tm' = [tm EXCEPT ![r] = IF sub THEN "set" ELSE "off"]
  /\ telling' = IF sub THEN telling ELSE telling \cup {r}
  /\ UNCHANGED <<keyOf, uses, results, sweepVars, label, notified, seen>>

\* Auto-approve is on: the request is answered without entering the map.
HookPassed(r, c) ==
  /\ Comes(r, c)
  /\ call' = [call EXCEPT ![c] = "done"]
  /\ of' = [of EXCEPT ![r] = c]
  /\ req' = [req EXCEPT ![r] = "auto"]
  /\ UNCHANGED <<entry, old, quiet, promoted>>
  /\ ClearLabel
  /\ UNCHANGED <<keyOf, uses, results, tm, cont, sweepVars, phoneVars>>

\* abandonSession: the requests that the end of a turn makes void.
Stopped == {r \in Requests : Waits(r) /\ KeyOfReq(r) \notin SubKeys}

\* The hook Stop: the turn of the main agent is over, and so are its calls.
Stop ==
  /\ call' = [c \in Calls |-> IF call[c] = "asked" /\ keyOf[c] \notin SubKeys
                              THEN "done" ELSE call[c]]
  /\ Settle(Stopped, "stopped")
  /\ UNCHANGED <<keyOf, uses, results, tm, sweepVars, label, phoneVars>>

\* The connection of the hook closes.
Closes(r) ==
  /\ Waits(r)
  /\ Settle({r}, "closed")
  /\ UNCHANGED <<claudeVars, tm, sweepVars, label, phoneVars>>

\* The agent stops: requests, timers, sweeps, labels and notifications not yet
\* sent are gone; cards stay.
Restart ==
  /\ req' = [r \in Requests |-> IF Waits(r) THEN "closed" ELSE req[r]]
  /\ entry' = [k \in Keys |-> None]
  /\ promoted' = {}
  /\ tm' = [r \in Requests |-> "off"]
  /\ cont' = {}
  /\ items' = [x \in Sweeps |-> {}]
  /\ listing' = FALSE /\ label' = FALSE
  /\ telling' = {}
  /\ UNCHANGED <<claudeVars, of, old, quiet, notified, seen>>

\* permissionRequest goes on: its timer is stopped, the hook is answered.
Continue(r) ==
  /\ r \in cont
  /\ cont' = cont \ {r}
  /\ tm' = [tm EXCEPT ![r] = IF @ = "set" THEN "off" ELSE @]
  /\ UNCHANGED <<mapVars, claudeVars, sweepVars, phoneVars>>
  /\ IF req[r] \in {"allow", "deny"} THEN UNCHANGED label ELSE ClearLabel

-----------------------------------------------------------------------------
(* Sweeping.                                                               *)

\* A fault: the result of an earlier, equal call counts.
ResolvedFault(r) ==
  \E c \in results : keyOf[c] = KeyOfReq(r)

\* executedAt: the latest use written for the key has a result, newer than r.
Resolved(r) ==
  LET same == {c \in uses : keyOf[c] = KeyOfReq(r)} IN
  \E c \in same : /\ \A d \in same : d <= c
                  /\ c \in results \ old[r]

\* A fault: requests that have been shown are left to the phones.
SweepItemsFault(x) ==
  items' = [items EXCEPT ![x] = {r \in Requests : Waits(r) /\ quiet[r] = "hold"}]

\* A sweep starts with the requests that wait now.
SweepItems(x) == items' = [items EXCEPT ![x] = {r \in Requests : Waits(r)}]

\* Its next file is read, or cannot be: the requests of key k are looked at.
SweepFile(x, k, readable) ==
  LET rs == {r \in items[x] : KeyOfReq(r) = k}
      gone == IF readable THEN {r \in rs : entry[k] = r /\ Resolved(r)} ELSE {}
  IN
  /\ rs # {}
  /\ items' = [items EXCEPT ![x] = @ \ rs]
  /\ Settle(gone, "swept")
  /\ IF gone = {} THEN UNCHANGED label ELSE ClearLabel
  /\ UNCHANGED <<claudeVars, tm, listing, phoneVars>>

-----------------------------------------------------------------------------
(* The quiet timer of a subagent's request.                                *)

TimerFires(r) ==
  /\ tm[r] = "set"
  /\ tm' = [tm EXCEPT ![r] = "sweeping"]
  /\ quiet' = [quiet EXCEPT ![r] = IF @ = "hold" THEN "past" ELSE @]
  /\ SweepItems(r)
  /\ UNCHANGED <<claudeVars, entry, of, req, old, promoted, cont, listing, label, phoneVars>>

\* The sweep of the timer throws: what is left of it is skipped.
TimerSweepFails(r) ==
  /\ tm[r] = "sweeping" /\ items[r] # {}
  /\ items' = [items EXCEPT ![r] = {}]
  /\ UNCHANGED <<claudeVars, mapVars, tm, cont, listing, label, phoneVars>>

\* A fault: a request is announced whether it still waits or not.
PromotableFault(r) == quiet[r] # "no"

\* promoteQuiet: r still waits under its key, and was held quiet.
Promotable(r) == entry[KeyOfReq(r)] = r /\ quiet[r] # "no"

\* A fault: the timer drops the finished approvals and never shows the others.
PromotesFault(r) ==
  /\ tm[r] = "sweeping" /\ items[r] = {}
  /\ tm' = [tm EXCEPT ![r] = "off"]
  /\ UNCHANGED <<claudeVars, mapVars, cont, sweepVars, label, phoneVars>>

\* The timer ends: the request is shown, and notifyPermission begins.
Promotes(r) ==
  /\ tm[r] = "sweeping" /\ items[r] = {}
  /\ tm' = [tm EXCEPT ![r] = "off"]
  /\ IF Promotable(r)
     THEN /\ quiet' = [quiet EXCEPT ![r] = "no"]
          /\ promoted' = promoted \cup {KeyOfReq(r)}
          /\ telling' = telling \cup {r}
     ELSE UNCHANGED <<quiet, promoted, telling>>
  /\ UNCHANGED <<claudeVars, entry, of, req, old, cont, sweepVars, label, notified, seen>>

\* notifyPermission goes on after it has read the transcript for the title: the
\* push is sent, whatever has become of the request since.
Tells(r) ==
  /\ r \in telling
  /\ telling' = telling \ {r}
  /\ notified' = notified \cup {r}
  /\ UNCHANGED <<claudeVars, mapVars, tm, cont, sweepVars, label, seen>>

-----------------------------------------------------------------------------
(* The phones.                                                             *)

\* listPending: the requests shown.
Listed(r) == Waits(r) /\ quiet[r] # "hold"

\* GET /permissions sweeps first ...
ListBegins ==
  /\ ~listing
  /\ listing' = TRUE
  /\ SweepItems(List)
  /\ UNCHANGED <<claudeVars, mapVars, tm, cont, label, phoneVars>>

\* ... and answers with what waits then.
ListReturns ==
  /\ listing /\ items[List] = {}
  /\ listing' = FALSE
  /\ seen' = seen \cup {r \in Requests : Listed(r)}
  /\ UNCHANGED <<claudeVars, mapVars, tm, cont, items, label, telling, notified>>

\* A fault: the generation is not compared.
AddresseeFault(r) == entry[KeyOfReq(r)]

\* answer: the request an answer on the card of r is for.
Addressee(r) == IF entry[KeyOfReq(r)] = r THEN r ELSE None

\* permissionAnswer: a card is pressed, whenever the phone got it.
Answer(r, b) ==
  /\ r \in seen
  /\ IF Addressee(r) # None
     THEN Settle({Addressee(r)}, b) /\ ClearLabel
     ELSE UNCHANGED <<mapVars, cont, label>>
  /\ UNCHANGED <<claudeVars, tm, sweepVars, phoneVars>>

-----------------------------------------------------------------------------
Next ==
  \/ \E c \in Calls : Decided(c) \/ WriteUse(c) \/ WriteResult(c)
  \/ Notice \/ Stop \/ Restart \/ ListBegins \/ ListReturns
  \/ \E r \in Requests, c \in Calls : Hook(r, c) \/ HookPassed(r, c)
  \/ \E r \in Requests : \/ Closes(r) \/ Continue(r) \/ TimerFires(r)
                         \/ TimerSweepFails(r) \/ Promotes(r) \/ Tells(r)
  \/ \E x \in Sweeps, k \in Keys, readable \in BOOLEAN : SweepFile(x, k, readable)
  \/ \E r \in Requests, b \in {"allow", "deny"} : Answer(r, b)

\* Handlers and notifications go on, timers fire, a file that sweeps look at can be read in the end,
\* records are written, and a phone that is open lists again and again.
Fairness ==
  /\ \A r \in Requests : /\ WF_vars(Continue(r)) /\ WF_vars(TimerFires(r))
                         /\ WF_vars(Promotes(r)) /\ WF_vars(Tells(r))
  /\ \A x \in Sweeps, k \in Keys : SF_vars(SweepFile(x, k, TRUE))
  /\ \A c \in Calls : WF_vars(WriteUse(c)) /\ WF_vars(WriteResult(c))
  /\ WF_vars(ListBegins) /\ WF_vars(ListReturns)

Spec == Init /\ [][Next]_vars
FairSpec == Spec /\ Fairness

-----------------------------------------------------------------------------
(* Properties.                                                             *)

(* A request is decided by a press on the card of that very request, never *)
(* by one on the card of an equal request before it, however late it comes *)
(* (permission.ts withGeneration: the answer goes to the card you pressed). *)
PressesOnIt ==
  \A r \in Requests : req[r] # req'[r] /\ req'[r] \in {"allow", "deny"} => Answer(r, req'[r])
PressedOnIt == [][PressesOnIt]_vars

(* Every request that waits can be answered under its key: no waiter is    *)
(* left behind when the hook fires again (permission.ts waitForDecision).  *)
WaitingIsPending ==
  \A r \in Requests : Waits(r) => entry[KeyOfReq(r)] = r

(* An approval Claude still waits for is never swept away by the result of *)
(* another run, nor by the end of a turn that does not end it.             *)
LiveNotDropped ==
  \A r \in Requests : req[r] \in {"swept", "stopped"} => call[of[r]] = "done"

(* The list says "needs attention" as long as a request waits: settling    *)
(* one of several never clears it (permissionSweep.ts clearLabelIfSettled). *)
KeepsLabel == label /\ ~label' => \A r \in Requests : req'[r] # "waiting"
LabelStays == [][KeepsLabel]_vars

(* The announcement of a request begins, at most once, while the request   *)
(* waits and GET /permissions would show it: a phone that is called finds  *)
(* the card unless the request was settled since.  Between the check and   *)
(* the push the title is read from the transcript, so the push itself may  *)
(* come late (routes/permission.ts announce, notifyPermission).            *)
AnnouncesListed == \A r \in telling' \ telling : Listed(r)' /\ r \notin notified
AnnouncedWhenListed == [][AnnouncesListed]_vars

(* Once an approval has been shown by its timer, it is not hidden again    *)
(* when the hook fires once more for the same call (permission.ts          *)
(* promotedOnce).                                                          *)
ShownStays ==
  [][\A k \in Keys : k \in promoted /\ entry'[k] \notin {None, entry[k]}
                     /\ of'[entry'[k]] = of[entry[k]]
       => quiet'[entry'[k]] # "hold"]_vars

(* A request held quiet does not stall unnoticed: it is announced or       *)
(* settled.  And once answered on the PC it does not keep its card: the    *)
(* result is written and it is swept, as long as a phone lists.            *)
Hangs(r) == Waits(r) /\ (r \notin notified \/ of[r] \in results)
NoneHangs == \A r \in Requests : []<>~Hangs(r)

=============================================================================
