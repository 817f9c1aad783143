------------------------------ MODULE MCScreen ------------------------------
(* What the phone shows and keeps, side by side: the list of sessions, the *)
(* notifications of approvals, the list of machines, and what is told of a  *)
(* turn's end (of two turns; of one, announced twice at a time).  A         *)
(* behaviour is one of one part; the parts share the variables.             *)
EXTENDS Naturals, FiniteSets

CONSTANTS
  x1, x2, y1, y2, Ours, Unread, NoPage, Direct, Out, None,
  Sessions, Slots, Versions, MaxNow, MaxMoves, MaxFails, ListScenes,          \* of PhoneList
  Machines, Keys, Owner, NoteScenes, MaxClock, MaxAsks, MaxPushes, MaxWork,   \* of Tray
  Relays, Self, MaxActs,                                                      \* of Connections
  Tasks, Askers, MaxTurns                                                     \* of TurnEnd

VARIABLES part, v1, v2, v3, v4, v5, v6, v7, v8, v9, v10, v11, v12, v13, v14, v15

v == <<v1, v2, v3, v4, v5, v6, v7, v8, v9, v10, v11, v12, v13, v14, v15>>

MCListScenes == {{"sessions", "reach"}, {"approvals", "stream", "user"}, {"approvals", "reach"},
                 {"sessions", "user"}}
MCOwner == [k \in {y1, y2} |-> IF k = y1 THEN x1 ELSE x2]

List == INSTANCE PhoneList WITH
  Failed <- NoPage, Scenes <- ListScenes, scene <- v1, up <- v2, live <- v3, past <- v4, asks <- v5, now <- v6,
  line <- v7, sig <- v8, vis <- v9, open <- v10, moves <- v11, fails <- v12, fetch <- v13, st <- v14

Notes == INSTANCE Tray WITH
  Scenes <- NoteScenes, scene <- v1, clock <- v2, asked <- v3, ask <- v4, at <- v5, pushes <- v6,
  sent <- v7, tray <- v8, reads <- v9, lists <- v10, jobs <- v11

Known == INSTANCE Connections WITH
  rows <- v1, stored <- v2, form <- v3, seen <- v4, dirty <- v5, probing <- v6, unlink <- v7,
  pair <- v8, last <- v9, acts <- v10, added <- v11, wanted <- v12,
  outlived <- v13

Turns == INSTANCE TurnEnd WITH
  cli <- v1, turn <- v2, record <- v3, owes <- v4, noticed <- v5, installed <- v6, stop <- v7,
  fresh <- v8, asked <- v9, cards <- v10, task <- v11, last <- v12, told <- v13, carded <- v14,
  dropped <- v15

ASSUME ScreenAssumption ==
  Notes!TrayAssumption /\ Known!ConnectionsAssumption /\ Turns!TurnEndAssumption

MCInit ==
  \/ part = "list" /\ List!Init /\ v15 = 0
  \/ part = "notes" /\ Notes!Init /\ v12 = 0 /\ v13 = 0 /\ v14 = 0 /\ v15 = 0
  \/ part = "known" /\ Known!Init /\ v14 = 0 /\ v15 = 0
  \/ part \in {"turns", "twice"} /\ Turns!Init

InList(A) == part = "list" /\ A /\ UNCHANGED <<part, v15>>
InNotes(A) == part = "notes" /\ A /\ UNCHANGED <<part, v12, v13, v14, v15>>
InKnown(A) == part = "known" /\ A /\ UNCHANGED <<part, v14, v15>>
InTurns(A) == part \in {"turns", "twice"} /\ A /\ UNCHANGED <<part>>

\* Machines and their approvals are alike: the first to be asked is y1.  Of two
\* turns the ends are announced one at a time; of one turn without subagents,
\* two at a time.
MCNext ==
  \/ InList(List!Next)
  \/ InNotes(Notes!Next) /\ (part = "notes" /\ v5'[y1] = 0 => v5'[y2] = 0)
  \/ InKnown(Known!Next)
  \/ /\ InTurns(Turns!Next)
     /\ part = "turns" => v11'[x2] = Turns!Idle
     /\ part = "twice" => v2' <= 1 /\ "sub" \notin v10'

(* Only the list has to come to something.                                 *)
MCFair ==
  /\ WF_<<part, v>>(InList(List!Poll)) /\ WF_<<part, v>>(InList(List!Signalled))
  /\ \A f \in Slots : WF_<<part, v>>(InList(List!Read(f))) /\ WF_<<part, v>>(InList(List!Complete(f)))

MCSpec == MCInit /\ [][MCNext]_<<part, v>> /\ MCFair

-----------------------------------------------------------------------------
\* What an older fetch brings is not shown over what a newer one brought
\* (main.tsx refresh).
NeverBack == [][part = "list" => v14'.at >= v14.at]_<<part, v>>

\* The notification of an approval that still waits is not closed
\* (push-core.js staleTags, notifications.ts staleAppTags).
LiveNotificationStays == [][part = "notes" => Notes!LiveStays]_<<part, v>>

\* The list of machines is what the user made of it (endpoints.ts).
AsTheUserLeftIt == part = "known" => Known!AsTheUserLeftIt

\* What is told of a turn's end is so, and the end of every turn that the
\* agent heard of is told unless it was already (hook.ts sendSettled).
TurnsToldAsTheyEnd == part \in {"turns", "twice"} => Turns!ToldAsItIs /\ Turns!EveryTurnTold

\* The app in the foreground comes to show what the machine has (main.tsx).
ShownInTheEnd == []<>(part = "list" => List!Told)
=============================================================================
