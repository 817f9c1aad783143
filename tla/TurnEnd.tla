------------------------------ MODULE TurnEnd ------------------------------
(***************************************************************************)
(* What the phone is told of one session when its turns end.               *)
(*                                                                         *)
(*   - The CLI calls the agent's hook at the end of a turn, when it asks   *)
(*     for permission and when it has idled for a minute                   *)
(*     (agent/src/routes/hook.ts, hook).  The agent notes what the hooks   *)
(*     said (claude/hookState.ts).                                         *)
(*   - What is told is decided from the record the CLI keeps of the        *)
(*     session, read again at that moment, the notes, the transcript's     *)
(*     last activity and the cards of pending approvals (probeStatus,      *)
(*     settledLabel, claude/sessions.ts resolveStatus).                    *)
(*   - The CLI writes the record after it calls the hook, so the end of a  *)
(*     turn is looked at 1.5 s later (stopPush.ts); the same words are not *)
(*     sent twice in a turn (shouldSendLabel).                             *)
(*                                                                         *)
(* Announcements overlap: reading, sending and remembering are awaited,    *)
(* and the CLI's call is cut off after 5 s.                                *)
(*                                                                         *)
(* Simplifications:                                                        *)
(*   - The record is written within the 1.5 s, and a turn lasts longer     *)
(*     than writing the record.                                            *)
(*   - Times are compared by what happened since: a note is fresh until    *)
(*     the transcript grows (the end of a turn for up to 3 s longer).      *)
(*   - The reason appended to "needs attention" is left out; so are        *)
(*     sessions without an id, turns without one and records of a status   *)
(*     the agent does not know.                                            *)
(***************************************************************************)
EXTENDS Naturals

CONSTANTS
  Tasks,      \* announcements at a time
  None,
  Askers,     \* who asks for permission: "main" and "sub", or one of them
  MaxTurns    \* bound: turns of the session

TurnEndAssumption == MaxTurns \in Nat \ {0} /\ Askers \subseteq {"main", "sub"} /\ None \notin [turn : Nat, label : STRING]

VARIABLES
  \* the CLI
  cli,        \* what it does
  turn,       \* prompt_id
  record,     \* status in sessions/<pid>.json
  owes,       \* it has not written the record since the turn ended
  noticed,    \* the idle notice of this turn is out
  installed,  \* the permission hook is
  \* the agent
  stop,       \* hooks.stop
  fresh,      \* it is not older than the last activity
  asked,      \* hooks.permission, newer than the activity and hooks.stop
  cards,      \* whose approvals are pending
  task,       \* the announcements
  last,       \* lastLabel of the session
  \* history
  told,       \* turns whose end reached the phone
  carded,     \* turns announced by the card of an approval instead
  dropped     \* turns whose end was held for a repetition

cliVars == <<cli, turn, record, owes, noticed, installed>>
noteVars == <<stop, fresh, asked, cards>>
ends == <<told, carded, dropped>>
vars == <<cliVars, noteVars, task, last, ends>>

Idle == [step |-> "none"]

Raw(c) == IF c = "dialog" THEN "waiting" ELSE c

Ends == {"Stop", "StopFailure"}

Labels == {"needs attention", "failed", "responding", "background", "done", "starting", "unknown", ""}

TypeOK ==
  /\ cli \in {"busy", "dialog", "shell", "idle", "gone"}
  /\ turn \in 0 .. MaxTurns
  /\ record \in {"busy", "waiting", "shell", "idle"}
  /\ {owes, noticed, installed, fresh, asked} \subseteq BOOLEAN
  /\ stop \in Ends \cup {"none"}
  /\ cards \subseteq Askers
  /\ task \in [Tasks -> {Idle}
       \cup [step : {"wait", "look", "decide"}, event : Ends \cup {"permission", "idle"},
             turn : 0 .. MaxTurns, probe : {"busy", "waiting", "shell", "idle", "gone", "unknown"},
             rested : BOOLEAN, needed : BOOLEAN, resumed : BOOLEAN]
       \cup [step : {"send", "sent"}, turn : 0 .. MaxTurns, label : Labels, asItIs : BOOLEAN]]
  /\ last \in [turn : 0 .. MaxTurns, label : Labels] \cup {None}
  /\ told \subseteq 1 .. MaxTurns /\ carded \subseteq 1 .. MaxTurns /\ dropped \subseteq 1 .. MaxTurns

Init ==
  /\ cli = "idle" /\ turn = 0 /\ record = "idle" /\ owes = FALSE /\ noticed = TRUE
  /\ installed \in BOOLEAN
  /\ stop = "none" /\ fresh = FALSE /\ asked = FALSE /\ cards = {}
  /\ task = [p \in Tasks |-> Idle] /\ last = None
  /\ told = {} /\ carded = {} /\ dropped = {}

-----------------------------------------------------------------------------
(* hook *)

\* What has happened since the call of the hook, until it is decided.
Since(c, cs) ==
  [p \in Tasks |-> IF task[p].step \in {"none", "send", "sent"} THEN task[p]
                   ELSE [task[p] EXCEPT !.rested = @ \/ c \in {"idle", "gone"},
                                        !.needed = @ \/ c = "dialog" \/ cs # {},
                                        !.resumed = @ \/ c = "busy"]]

TurnOf(e) == IF e \in Ends THEN turn ELSE 0

Event(e, step, c, cs) ==
  [step |-> step, event |-> e, turn |-> TurnOf(e), probe |-> "unknown",
   rested |-> c \in {"idle", "gone"}, needed |-> c = "dialog" \/ cs # {}, resumed |-> FALSE]

Free(p) == task[p] = Idle /\ \A q \in Tasks : task[q].step # "wait"

\* scheduleStopPush: a turn's end that still waits is replaced.
Schedules(p) == Free(p) \/ task[p].step = "wait"

\* The CLI goes from doing one thing to another.
Does(c, cs) == cli' = c /\ cards' = cs /\ task' = Since(c, cs)

\* The transcript grows.
Active == asked' = FALSE /\ fresh' \in {FALSE, fresh}

StartTurn ==
  /\ cli \in {"idle", "shell"} /\ Raw(cli) = record /\ turn < MaxTurns
  /\ turn' = turn + 1 /\ noticed' = FALSE
  /\ Does("busy", cards) /\ Active
  /\ UNCHANGED <<record, owes, installed, stop, last, ends>>

Work ==
  /\ cli = "busy"
  /\ Active
  /\ UNCHANGED <<cliVars, stop, cards, task, last, ends>>

\* A tool needs permission: the permission hook, where it is installed, puts
\* up a card that is announced by itself; elsewhere the notice is announced
\* (shouldPushNotice).
Asks(p) ==
  LET cs == IF installed THEN cards \cup {"main"} ELSE cards IN
  /\ "main" \in Askers /\ cli = "busy"
  /\ cli' = "dialog" /\ cards' = cs /\ asked' = TRUE
  /\ IF installed THEN task' = Since("dialog", cs)
     ELSE Free(p) /\ task' = [Since("dialog", cs) EXCEPT ![p] = Event("permission", "look", "dialog", cs)]
  /\ UNCHANGED <<turn, record, owes, noticed, installed, stop, fresh, last, ends>>

\* At the machine (the card stays until it is swept) or on the phone.
Answered ==
  /\ cli = "dialog"
  /\ \E cs \in {cards, cards \ {"main"}} : Does("busy", cs)
  /\ UNCHANGED <<turn, record, owes, noticed, installed, stop, fresh, asked, last, ends>>

\* clearPermission, once the tool is known to have run.
Sweep ==
  /\ cli # "dialog"
  /\ asked' = FALSE /\ cards' = cards \ {"main"}
  /\ UNCHANGED <<cliVars, stop, fresh, task, last, ends>>

\* A subagent's approvals outlive the turn.
SubagentAsks ==
  /\ "sub" \in Askers /\ installed /\ cli \in {"busy", "shell", "idle"}
  /\ Does(cli, cards \cup {"sub"})
  /\ UNCHANGED <<turn, record, owes, noticed, installed, stop, fresh, asked, last, ends>>

SubagentAnswered ==
  /\ cards' = cards \ {"sub"}
  /\ UNCHANGED <<cliVars, stop, fresh, asked, task, last, ends>>

\* abandonSession and noteHook; the announcement waits, or is sent at once.
TurnEnds(p, e, c) ==
  LET cs == cards \ {"main"} IN
  /\ stop' = e /\ fresh' = TRUE /\ asked' = FALSE
  /\ cli' = c /\ cards' = cs
  /\ IF e = "Stop" THEN Schedules(p) ELSE Free(p)
  /\ task' = [Since(c, cs) EXCEPT ![p] = Event(e, IF e = "Stop" THEN "wait" ELSE "decide", c, cs)]
  /\ UNCHANGED <<turn, record, noticed, installed, last, ends>>

EndTurn(p) ==
  /\ cli = "busy" /\ record = "busy"
  /\ owes' = TRUE
  /\ \E e \in Ends, c \in {"idle", "shell"} : TurnEnds(p, e, c)

\* The hook may be called twice for a turn.
StopAgain(p) ==
  /\ cli \in {"idle", "shell"} /\ turn > 0
  /\ TurnEnds(p, "Stop", cli)
  /\ UNCHANGED owes

\* The agent does not get the call; the transcript has grown since an answer.
EndsUnheard ==
  /\ cli = "busy" /\ record = "busy"
  /\ owes' = TRUE
  /\ \E c \in {"idle", "shell"} : Does(c, cards)
  /\ Active
  /\ UNCHANGED <<turn, record, noticed, installed, stop, last, ends>>

IdleNotice(p) ==
  /\ cli = "idle" /\ ~owes /\ ~noticed
  /\ noticed' = TRUE
  /\ Free(p)
  /\ task' = [task EXCEPT ![p] = Event("idle", "look", cli, cards)]
  /\ UNCHANGED <<cli, turn, record, owes, installed, noteVars, last, ends>>

ShellEnds ==
  /\ cli = "shell"
  /\ Does("idle", cards)
  /\ UNCHANGED <<turn, record, owes, noticed, installed, stop, fresh, asked, last, ends>>

CliExits ==
  /\ cli # "gone"
  /\ Does("gone", cards \ {"main"})
  /\ UNCHANGED <<turn, record, owes, noticed, installed, stop, fresh, asked, last, ends>>

WriteRecord ==
  /\ cli # "gone"
  /\ record' = Raw(cli) /\ owes' = FALSE
  /\ UNCHANGED <<cli, turn, noticed, installed, noteVars, task, last, ends>>

-----------------------------------------------------------------------------
(* The announcement *)

\* probeStatus: a record that cannot be read is not a session that is gone.
Probe(p, early) ==
  \E r \in {IF cli = "gone" THEN "gone" ELSE record, "unknown"} :
    task' = [task EXCEPT ![p].probe = r, ![p].step = "decide", ![p].resumed = @ \/ early]

\* PUSH_SETTLE_MS after the turn's end, or at once for a notice.
Look(p) ==
  /\ task[p].step = "look" \/ (task[p].step = "wait" /\ ~owes)
  /\ Probe(p, FALSE)
  /\ UNCHANGED <<cliVars, noteVars, last, ends>>

\* flushStopPushes, when the agent is told to stop.
Flush(p) ==
  /\ task[p].step = "wait" /\ owes
  /\ Probe(p, TRUE)
  /\ UNCHANGED <<cliVars, noteVars, last, ends>>

Live(probe) == probe \notin {"gone", "unknown"}

\* resolveStatus, from the strongest evidence to the weakest.
Status(probe, card) ==
  CASE card -> "needs attention"
    [] ~card /\ stop = "StopFailure" /\ fresh -> "failed"
    [] OTHER ->
       CASE probe = "busy" -> "responding"
         [] probe = "shell" -> "background"
         [] probe = "waiting" -> "needs attention"
         [] probe \in {"idle", "gone"} ->
              IF asked THEN "needs attention"
              ELSE IF stop # "none" /\ fresh THEN "done" ELSE "starting"

HasCard == cards # {}

\* settledLabel
Label(t) ==
  IF t.event = "StopFailure" THEN "failed"
  ELSE IF t.probe = "unknown" THEN "unknown"
  ELSE Status(t.probe, HasCard \/ t.event = "permission")

\* A fault: words are repetitions across turns.
ShouldSendFault(t, l) == last = None \/ last.label # l

ShouldSend(t, l) ==
  last = None \/ (t.turn # 0 /\ t.turn # last.turn) \/ last.label # l

Remembered(t, l) ==
  [turn |-> IF t.turn # 0 THEN t.turn ELSE IF last = None THEN 0 ELSE last.turn, label |-> l]

EndOf(t) == {t.turn} \ {0}

\* Something has happened that bears the label out.
AsItIs(t, l) ==
  /\ l = "done" => t.rested
  /\ l = "needs attention" => t.needed
  /\ l = "responding" => t.resumed

\* With a card, that is what the phone shows.
Decide(p) ==
  LET t == task[p]
      l == Label(t)
  IN
  /\ t.step = "decide"
  /\ IF HasCard THEN
       /\ last' = Remembered(t, l) /\ carded' = carded \cup EndOf(t)
       /\ task' = [task EXCEPT ![p] = Idle]
       /\ UNCHANGED dropped
     ELSE IF ~ShouldSend(t, l) THEN
       /\ dropped' = dropped \cup EndOf(t)
       /\ task' = [task EXCEPT ![p] = Idle]
       /\ UNCHANGED <<last, carded>>
     ELSE
       /\ task' = [task EXCEPT ![p] = [step |-> "send", turn |-> t.turn, label |-> l,
                                       asItIs |-> AsItIs(t, l)]]
       /\ UNCHANGED <<last, carded, dropped>>
  /\ UNCHANGED <<cliVars, noteVars, told>>

\* sendToAll reaches a device, or none.
Send(p) ==
  /\ task[p].step = "send"
  /\ \/ task' = [task EXCEPT ![p].step = "sent"] /\ told' = told \cup EndOf(task[p])
     \/ task' = [task EXCEPT ![p] = Idle] /\ UNCHANGED told
  /\ UNCHANGED <<cliVars, noteVars, last, carded, dropped>>

\* Only what was sent is remembered.
Remember(p) ==
  /\ task[p].step = "sent"
  /\ last' = Remembered(task[p], task[p].label)
  /\ task' = [task EXCEPT ![p] = Idle]
  /\ UNCHANGED <<cliVars, noteVars, ends>>

\* The agent restarts: the end of a turn is restored from hooks.jsonl, a
\* permission that was asked for is not (hookState.ts, apply).
Restart ==
  /\ task' = [p \in Tasks |-> Idle] /\ last' = None
  /\ asked' = FALSE /\ cards' = {}
  /\ UNCHANGED <<cliVars, stop, fresh, ends>>

Next ==
  \/ StartTurn \/ Work \/ Answered \/ Sweep \/ SubagentAsks \/ SubagentAnswered
  \/ EndsUnheard \/ ShellEnds \/ CliExits \/ WriteRecord \/ Restart
  \/ \E p \in Tasks : Asks(p) \/ EndTurn(p) \/ StopAgain(p) \/ IdleNotice(p) \/ Look(p) \/ Flush(p)
                      \/ Decide(p) \/ Send(p) \/ Remember(p)

Spec == Init /\ [][Next]_vars

-----------------------------------------------------------------------------
\* "Done" is told only of a session that has come to rest since the hook was
\* called, "needs attention" only if somebody has been waited for, and
\* "responding" of a turn's end only if another turn has begun or the agent
\* was stopping (settledLabel, resolveStatus).
ToldAsItIs == \A p \in Tasks : task[p].step \in {"send", "sent"} => task[p].asItIs

\* The end of a turn is held back as a repetition only if the phone has been
\* told of the end of that same turn (shouldSendLabel).
EveryTurnTold == dropped \subseteq told \cup carded
=============================================================================
