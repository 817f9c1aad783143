-------------------------------- MODULE Keys --------------------------------
(***************************************************************************)
(* What the phone types into a session on the PC: messages, the table      *)
(* commands, "stop" (ESC, then Ctrl-U when the session was answering) and  *)
(* "clear" (src/agent/src/claude/keys.ts, routes/message.ts, interrupt.ts, *)
(* command.ts), the inbox a message falls back to (claude/inbox.ts), and   *)
(* the pane relay that carries the bytes to the terminal                   *)
(* (src/scripts/relay.py).                                                 *)
(*                                                                         *)
(* One session: requests to different sessions share nothing.  Requests to *)
(* this one run one at a time (serializeBySession), the fall back to the   *)
(* inbox excepted.  A body is one token of the pipe and so is its Enter:   *)
(* they are two writes with a pause between.  The relay takes connections  *)
(* in the order they were made and reads what each holds before the next,  *)
(* so the pipe is in the order of the writes; how far behind the terminal  *)
(* is stays open, and a body and its Enter that reach Claude Code together *)
(* are one paste (external: the reason of SUBMIT_DELAY_MS).                *)
(***************************************************************************)
EXTENDS Naturals, Sequences, FiniteSets, Functions

CONSTANTS Messages,  \* POST /message
          Slashes,   \* the messages whose text starts with / or !
          Commands,  \* POST /command
          Stops,     \* POST /interrupt
          Clears,    \* POST /clear
          Scenes,    \* bound: the sets of requests that are made together
          None, MaxDialogs \* bound: how often an approval card comes up

Requests == Messages \cup Commands \cup Stops \cup Clears
Typing == Messages \cup Commands
Ends == {None, "ok", "cleared", "partial", "refused"}

KeysAssumption ==
  /\ \A scene \in Scenes : scene \subseteq Requests
  /\ None \notin {"partial", "cleared"} /\ MaxDialogs \in Nat

VARIABLES
  at,       \* where each request stands
  chain,    \* the requests that wait their turn or have it, oldest first
  answer,   \* what the phone was told
  cool,     \* lastControlAt or lastCommandAt is within its cool down: kinds
  pending,  \* an approval card is up (hasPendingForSession)
  dialogs,
  pipe,     \* bytes handed to the pane's socket and not yet read: <<token, request>>
  inbox,    \* messages handed to the inbox
  box,      \* the bodies in the PC's input box
  working,  \* None, or the bodies Claude Code is answering
  lines,    \* history: what was submitted, and with whose Enter
  typed,    \* history: messages and commands whose body went into the pipe
  pasted,   \* history: bodies whose Enter was taken as part of a paste
  back,     \* history: the stops whose ESC put a body back into the box
  recent,   \* history: an ESC went out within the cool down
  rushed    \* history: an ESC went out while recent

agent == <<at, chain, answer, cool, inbox, typed, recent, rushed>>
screen == <<box, working, lines, pasted, back>>
vars == <<agent, screen, pipe, pending, dialogs>>

TypeOK ==
  /\ at \in [Requests -> {"idle", "queued", "look", "dial", "enter", "gap", "wipe", "mail", "done"}]
  /\ answer \in [Requests -> Ends]
  /\ Range(chain) \subseteq Requests
  /\ cool \subseteq {"escape", "command"}
  /\ pending \in BOOLEAN /\ dialogs \in 0..MaxDialogs
  /\ pipe \in Seq({"body", "enter", "esc", "ctrlU"} \X Requests)
  /\ inbox \subseteq Messages /\ typed \subseteq Typing /\ pasted \subseteq Typing
  /\ Range(box) \subseteq Typing
  /\ back \in [Typing -> SUBSET Stops]
  /\ recent \in BOOLEAN /\ rushed \in BOOLEAN

Init ==
  /\ \E scene \in Scenes : at = [r \in Requests |-> IF r \in scene THEN "idle" ELSE "done"]
  /\ chain = <<>>
  /\ answer = [r \in Requests |-> None]
  /\ cool = {} /\ pending = FALSE /\ dialogs = 0
  /\ pipe = <<>> /\ inbox = {} /\ box = <<>> /\ working = None
  /\ lines = {} /\ typed = {} /\ pasted = {} /\ back = [r \in Typing |-> {}]
  /\ recent = FALSE /\ rushed = FALSE

(***************************************************************************)
(* The chain of one session (serializeBySession).                          *)
(***************************************************************************)

\* A request arrives.
Ask(r) ==
  /\ at[r] = "idle"
  /\ at' = [at EXCEPT ![r] = "queued"] /\ chain' = Append(chain, r)
  /\ UNCHANGED <<answer, cool, inbox, typed, recent, rushed, pipe, pending, dialogs, screen>>

HasTurnFault(r) == at[r] = "queued"
HasTurn(r) == at[r] = "queued" /\ Head(chain) = r

\* The request that has its turn is the first one: whatever way it ended, the
\* next one runs.
AfterTurnFault(end) == IF end = "refused" THEN chain ELSE Tail(chain)
AfterTurn(end) == Tail(chain)

\* r gives up its turn and is answered.
Finish(r, end) ==
  /\ at' = [at EXCEPT ![r] = "done"] /\ answer' = [answer EXCEPT ![r] = end]
  /\ chain' = AfterTurn(end)

\* r gives up its turn: a message falls back to the inbox unless its text
\* would run there as a command (inboxRefusal); nothing else ever does.
NotTyped(r) ==
  IF r \in Messages \ Slashes
  THEN /\ at' = [at EXCEPT ![r] = "mail"] /\ chain' = AfterTurn("refused")
       /\ UNCHANGED answer
  ELSE Finish(r, "refused")

\* The reason a failed write gives: nothing was written, or something was.
BrokenOffFault(r) == NotTyped(r)
BrokenOff(r) == IF r \in typed THEN Finish(r, "partial") ELSE NotTyped(r)

TooSoon(r) == \/ r \in Stops /\ "escape" \in cool
              \/ r \in Commands /\ "command" \in cool

\* The first checks, and the search for the pane (findPane): found, or any
\* of the reasons not to type (not found, no relay, a dialog is open, ...).
Start(r) ==
  /\ HasTurn(r)
  /\ \/ (pending \/ TooSoon(r)) /\ NotTyped(r)
     \/ /\ ~pending /\ ~TooSoon(r)
        /\ at' = [at EXCEPT ![r] = "look"] /\ UNCHANGED <<chain, answer>>
  /\ UNCHANGED <<cool, inbox, typed, recent, rushed, pipe, pending, dialogs, screen>>

Look(r) ==
  /\ at[r] = "look"
  /\ \/ NotTyped(r)
     \/ /\ ~pending
        /\ at' = [at EXCEPT ![r] = "dial"] /\ UNCHANGED <<chain, answer>>
  /\ UNCHANGED <<cool, inbox, typed, recent, rushed, pipe, pending, dialogs, screen>>

\* The socket fails or the 2 seconds are over, before or after the body.
GiveUp(r) ==
  /\ at[r] \in {"dial", "enter"}
  /\ BrokenOff(r)
  /\ UNCHANGED <<cool, inbox, typed, recent, rushed, pipe, pending, dialogs, screen>>

\* Connected, but a card came up since: no byte is written.
HoldBack(r) ==
  /\ at[r] = "dial" /\ pending
  /\ NotTyped(r)
  /\ UNCHANGED <<cool, inbox, typed, recent, rushed, pipe, pending, dialogs, screen>>

\* writeKeys, first write: the body.
TypeBody(r) ==
  /\ r \in Typing /\ at[r] = "dial" /\ ~pending
  /\ pipe' = Append(pipe, <<"body", r>>) /\ typed' = typed \cup {r}
  /\ at' = [at EXCEPT ![r] = "enter"]
  /\ UNCHANGED <<chain, answer, cool, inbox, recent, rushed, pending, dialogs, screen>>

\* writeKeys, second write: the Enter, unless a card came up in the pause.
TypeEnter(r) ==
  /\ at[r] = "enter"
  /\ \/ /\ pending /\ Finish(r, "partial") /\ UNCHANGED <<pipe, cool>>
     \/ /\ ~pending /\ Finish(r, "ok")
        /\ pipe' = Append(pipe, <<"enter", r>>)
        /\ cool' = IF r \in Commands THEN cool \cup {"command"} ELSE cool
  /\ UNCHANGED <<inbox, typed, recent, rushed, pending, dialogs, screen>>

\* sendStopToSession: ESC.  The index file says whether the session was
\* answering, or says what was true a moment ago.
TypeEsc(r) ==
  /\ r \in Stops /\ at[r] = "dial" /\ ~pending
  /\ pipe' = Append(pipe, <<"esc", r>>)
  /\ recent' = TRUE /\ rushed' = (rushed \/ recent)
  /\ cool' = cool \cup {"escape"}
  /\ \/ at' = [at EXCEPT ![r] = "gap"] /\ UNCHANGED <<chain, answer>>
     \/ Finish(r, "ok")
  /\ UNCHANGED <<inbox, typed, pending, dialogs, screen>>

\* ... and after the gap Ctrl-U, through the same checks; a stop whose Ctrl-U
\* did not go out is answered as a stop all the same.
StopLook(r) ==
  /\ at[r] = "gap"
  /\ \/ Finish(r, "ok")
     \/ /\ ~pending /\ at' = [at EXCEPT ![r] = "wipe"] /\ UNCHANGED <<chain, answer>>
  /\ UNCHANGED <<cool, inbox, typed, recent, rushed, pipe, pending, dialogs, screen>>

StopWipe(r) ==
  /\ at[r] = "wipe"
  /\ \/ Finish(r, "ok") /\ UNCHANGED pipe
     \/ /\ ~pending /\ Finish(r, "cleared")
        /\ pipe' = Append(pipe, <<"ctrlU", r>>)
  /\ UNCHANGED <<cool, inbox, typed, recent, rushed, pending, dialogs, screen>>

\* POST /clear: Ctrl-U on its own.
TypeClear(r) ==
  /\ r \in Clears /\ at[r] = "dial" /\ ~pending
  /\ pipe' = Append(pipe, <<"ctrlU", r>>) /\ Finish(r, "ok")
  /\ UNCHANGED <<cool, inbox, typed, recent, rushed, pending, dialogs, screen>>

\* sendToSession: out of turn, the message goes into the inbox or nowhere.
Mail(r) ==
  /\ at[r] = "mail"
  /\ at' = [at EXCEPT ![r] = "done"]
  /\ \/ inbox' = inbox \cup {r} /\ answer' = [answer EXCEPT ![r] = "ok"]
     \/ answer' = [answer EXCEPT ![r] = "refused"] /\ UNCHANGED inbox
  /\ UNCHANGED <<chain, cool, typed, recent, rushed, pipe, pending, dialogs, screen>>

\* Time: an ESC is older than the cool down before lastControlAt, which was
\* written after it, is.
EscAges == /\ recent /\ recent' = FALSE
           /\ UNCHANGED <<at, chain, answer, cool, inbox, typed, rushed, pipe, pending, dialogs, screen>>
CoolDown(k) == /\ k \in cool /\ cool' = cool \ {k} /\ (k = "escape" => ~recent)
               /\ UNCHANGED <<at, chain, answer, inbox, typed, recent, rushed, pipe, pending, dialogs, screen>>

CardComes == /\ ~pending /\ dialogs < MaxDialogs
             /\ pending' = TRUE /\ dialogs' = dialogs + 1
             /\ UNCHANGED <<agent, screen, pipe>>
CardGoes == /\ pending /\ pending' = FALSE /\ UNCHANGED <<agent, screen, pipe, dialogs>>

(***************************************************************************)
(* Claude Code's input box (external), fed by the pane relay.              *)
(***************************************************************************)

Token == pipe[1][1]
From == pipe[1][2]

ReadBody == /\ pipe # <<>> /\ Token = "body"
            /\ box' = Append(box, From) /\ pipe' = Tail(pipe)
            /\ UNCHANGED <<agent, pending, dialogs, working, lines, pasted, back>>

\* The relay fell behind by more than the pause: body and Enter are a paste.
ReadPaste == /\ Len(pipe) >= 2 /\ Token = "body" /\ pipe[2] = <<"enter", From>>
             /\ box' = Append(box, From) /\ pasted' = pasted \cup {From}
             /\ pipe' = SubSeq(pipe, 3, Len(pipe))
             /\ UNCHANGED <<agent, pending, dialogs, working, lines, back>>

ReadEnter == /\ pipe # <<>> /\ Token = "enter"
             /\ lines' = lines \cup {[by |-> From, text |-> Range(box)]}
             /\ working' = IF box = <<>> THEN working ELSE box
             /\ box' = <<>> /\ pipe' = Tail(pipe)
             /\ UNCHANGED <<agent, pending, dialogs, pasted, back>>

\* ESC while answering stops the answer and puts its text back into the box.
ReadEsc == /\ pipe # <<>> /\ Token = "esc"
           /\ IF working = None THEN UNCHANGED <<box, working, back>>
              ELSE /\ box' = working \o box /\ working' = None
                   /\ back' = [r \in Typing |-> IF r \in Range(working) THEN back[r] \cup {From} ELSE back[r]]
           /\ pipe' = Tail(pipe)
           /\ UNCHANGED <<agent, pending, dialogs, lines, pasted>>

ReadCtrlU == /\ pipe # <<>> /\ Token = "ctrlU"
             /\ box' = <<>> /\ pipe' = Tail(pipe)
             /\ UNCHANGED <<agent, pending, dialogs, working, lines, pasted, back>>

AnswerDone == /\ working # None /\ working' = None
              /\ UNCHANGED <<agent, pending, dialogs, pipe, box, lines, pasted, back>>

(***************************************************************************)

Work(r) == \/ Start(r) \/ Look(r) \/ GiveUp(r) \/ HoldBack(r) \/ TypeBody(r) \/ TypeEnter(r)
           \/ TypeEsc(r) \/ StopLook(r) \/ StopWipe(r) \/ TypeClear(r) \/ Mail(r)

Next == \/ \E r \in Requests : Ask(r) \/ Work(r)
        \/ \E k \in {"escape", "command"} : CoolDown(k)
        \/ EscAges \/ CardComes \/ CardGoes
        \/ ReadBody \/ ReadPaste \/ ReadEnter \/ ReadEsc \/ ReadCtrlU \/ AnswerDone

Spec == Init /\ [][Next]_vars

\* Timers and file reads end, so a request that has its turn moves on.
FairSpec == Spec /\ \A r \in Requests : WF_vars(Work(r))

(***************************************************************************)
(* Properties                                                              *)
(***************************************************************************)

\* A message goes one way only: one whose body went into the terminal, even
\* in part, is never handed to the inbox as well, whatever failed after.
OneRoute == typed \cap inbox = {}

\* Somebody knows that m's text may lie in the input box: its sender was told
\* "partial", or the stop that put it back was not answered "cleared"; or the
\* terminal was so far behind that its Enter arrived as part of a paste.
KnownLeft(m) == \/ answer[m] = "partial"
                \/ \E s \in back[m] : answer[s] # "cleared"
                \/ m \in pasted

\* An Enter submits the message it was written for, and with it only text
\* that somebody was told about: two sends never become one instruction, and
\* no stop erases a message on its way.
OwnLine == \A l \in lines :
             /\ l.by \in l.text
             /\ \A m \in l.text \ {l.by} : KnownLeft(m)

\* Two ESC never go out within the cool down: the second would open the
\* screen that goes back to an earlier message.
NeverRushed == ~rushed

\* Every request is answered, whatever happened to the ones before it.
Unanswered(r) == at[r] \notin {"idle", "done"}
AllAnswered == \A r \in Requests : []<>~Unanswered(r)
=============================================================================
