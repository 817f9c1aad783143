----------------------------- MODULE MCSession -----------------------------
(* One session on the phone: the handshake that opens it, what is typed     *)
(* into its terminal, and its thread as it is followed.  A behaviour is     *)
(* one of one part: the variables of the others stand still.              *)
EXTENDS Handshake, FiniteSets

CONSTANTS
  x1, x2, cmd, s1, s2, cl, h1, h2, d1, d2, g1, g2, c1, c2, a1, a2,
  Messages, Slashes, Commands, Stops, Clears, TypingScenes, MaxDialogs,   \* of Keys
  MaxLen, Limit, MaxFiles, MaxFails, MaxHides, ReadingScenes              \* of Thread

VARIABLES
  part,
  line,   \* the handshakes of this behaviour
  \* of Keys
  at, chain, answer, cool, pending, dialogs, pipe, inbox, box, working, lines, typed, pasted,
  back, recent, rushed,
  \* of Thread
  scene, file, len, torn, entries, tail, cursor, asked, again, puller, visible, hides,
  subscribed, events, last, fails, owed

Typing == INSTANCE Keys WITH Scenes <- TypingScenes
Reading == INSTANCE Thread WITH Scenes <- ReadingScenes

typing == <<at, chain, answer, cool, pending, dialogs, pipe, inbox, box, working, lines, typed,
            pasted, back, recent, rushed>>
reading == <<scene, file, len, torn, entries, tail, cursor, asked, again, puller, visible, hides,
             subscribed, events, last, fails, owed>>

ASSUME SessionAssumption == Typing!KeysAssumption /\ Reading!ThreadAssumption

\* Requests that are made of one session at the same time.
MCScenes == {{x1, cmd, s1}, {x1, s1, s2}, {x1, x2, s1}, {x1, cl, cmd}}

(* Handshakes that are under way together: who takes part, and which ends  *)
(* seal more than a confirm frame.                                         *)
MCLines == {
  [who |-> {h1, h2, c1, c2, a1}, data |-> {c1, c2}],
  [who |-> {h1, c1, a1, a2}, data |-> {c1}],
  [who |-> {h1, c1, a1}, data |-> {c1, a1}]}

(* The first handshake is that of d1 for g1, and of two calls the first is *)
(* begun first: all else is this under other names.                        *)
AsNamed ==
  LET started == {h \in Shakes : message[h] # None}
      called == {f \in Finishes : fin[f].ph # "none"}
      met == {a \in Accepts : acc[a].ph # "none"}
  IN /\ started \cup called \cup met \subseteq line.who
     /\ message[h1] \in {None, [dev |-> d1, eph |-> h1, to |-> g1]}
     /\ (h2 \in started => h1 \in started) /\ (c2 \in called => c1 \in called) /\ (a2 \in met => a1 \in met)
     /\ \A e \in called : fin[e].eph \in line.who \cup {None}
     /\ \A a \in met : acc[a].first.eph \in line.who
     /\ \A e \in Ends \ line.data : \A i \in 1..Len(sealing[e]) : sealing[e][i].type = "confirm"

\* Nothing is typed, nothing is read beside another part.
NoTyping == Typing!Init /\ at = [r \in Typing!Requests |-> IF r \in {x1, cmd, s1} THEN "idle" ELSE "done"]
NoReading == Reading!Init /\ scene = "older" /\ len = 0

MCInit ==
  /\ Init
  /\ \/ part = "line" /\ line \in MCLines /\ NoTyping /\ NoReading
     \/ part = "keys" /\ line = {} /\ Typing!Init /\ NoReading
     \/ part = "thread" /\ line = {} /\ NoTyping /\ Reading!Init

InLine(A) == part = "line" /\ A /\ UNCHANGED <<part, line, typing, reading>>
InTyping(A) == part = "keys" /\ A /\ UNCHANGED <<part, line, reading, vars>>
InReading(A) == part = "thread" /\ A /\ UNCHANGED <<part, line, typing, vars>>

MCNext ==
  \/ InLine(Next) /\ AsNamed'
  \/ InTyping(Typing!Next)
  \/ InReading(Reading!Next)

MCVars == <<part, line, typing, reading, vars>>

(* The fairness of each part.  What a fetcher does next is one action at a *)
(* time, so that one condition stands for its three.  A behaviour is one   *)
(* of one part, so that the n-th conditions of the parts share a formula.  *)
TypingWeak(n) == n \in 1..6 /\ Typing!Work(<<x1, x2, cmd, s1, s2, cl>>[n])
ReadingWeak(n) ==
  \/ n = 1 /\ Reading!Subscribe
  \/ n = 2 /\ Reading!Tick
  \/ n = 3 /\ (Reading!Read("first") \/ Reading!ArriveFirst)
  \/ n = 4 /\ Reading!Read("older")
  \/ n \in 5..6 /\ LET p == <<"pull1", "pull2">>[n - 4]
                   IN Reading!StartPull(p) \/ Reading!Read(p) \/ Reading!ArrivePull(p)
  \/ n \in 7..8 /\ Reading!Hear(<<"hello", "grew">>[n - 6])

\* Each of these steps changes one of these.
Moved == <<at, asked, subscribed, last, events>>

MCFair == \A n \in 1..8 : WF_Moved(InTyping(TypingWeak(n)) \/ InReading(ReadingWeak(n)))

MCSpec == MCInit /\ [][MCNext]_MCVars /\ MCFair

-----------------------------------------------------------------------------
\* A message goes one way only, an Enter submits the message it was written for
\* and with it only text that somebody was told about, and no two ESC go out
\* within the cool down (message.ts decideAfterKeys, keys.ts).
TypedOnce == part = "keys" => Typing!OneRoute /\ Typing!OwnLine /\ Typing!NeverRushed

\* A thread shows a stretch of one transcript, without gap or repetition
\* (Thread.tsx, follow.ts).
OneStretch == part = "thread" => Reading!OneStretch

\* Whoever waits for the terminal is answered (keys.ts), and what is written in
\* the log is shown, whichever request or event got lost (Thread.tsx).
Owed == \/ part = "keys" /\ \E r \in {x1, x2, cmd, s1, s2, cl} : Typing!Unanswered(r)
        \/ part = "thread" /\ Reading!Behind
NobodyWaits == []<>~Owed
=============================================================================
