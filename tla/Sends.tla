-------------------------------- MODULE Sends --------------------------------
(***************************************************************************)
(* The sends a thread on the phone waits for (src/web/src/ui/pending.ts    *)
(* and sendMessage of Thread.tsx): stacked when the person sends, settled  *)
(* when the agent's answer names the route, cleared when a record of the   *)
(* transcript is taken for theirs.                                         *)
(*                                                                         *)
(* Texts are ordered by "is the end of": a message typed behind a draft on *)
(* the PC is recorded together with it (keys only).  Times are those of a  *)
(* clock the PC and the phone share; every record has its own.             *)
(***************************************************************************)
EXTENDS Naturals, SequencesExt

CONSTANTS Texts, Joined,  \* Joined[x]: what x is recorded as, x and the drafts it ends
          MaxSends,       \* bound: messages sent
          MaxTyped,       \* bound: lines typed on the PC
          MaxLost,        \* bound: answers that are lost
          Slack           \* RELOAD_SLACK_MS

Ids == 1..MaxSends
Routes == {"keys", "inbox"}

VARIABLES
  clock,
  records,  \* the transcript: [text, via, at, of]
  shown,    \* how many of them the phone has
  pending,  \* the stacked sends, oldest first: [id, text, at, route, seen]
  used,     \* usedRef: the records taken already
  said,     \* each send, by id: its text, when it was sent, what was shown then
  replies,  \* answers under way: <<id, route>>, "lost" for none
  due,      \* messages delivered and not recorded yet: <<id, route>>
  lost,
  takenBy   \* history: the record each cleared send was cleared with, 0 for none

phone == <<shown, pending, used, takenBy>>
agent == <<records, replies, due, lost>>
vars == <<clock, phone, agent, said>>

Init == /\ clock = 1 /\ records = <<>> /\ shown = 0 /\ pending = <<>> /\ used = {}
        /\ said = <<>> /\ replies = <<>> /\ due = {} /\ lost = 0
        /\ takenBy = [i \in Ids |-> 0]

TypeOK ==
  /\ \A i \in DOMAIN pending : /\ pending[i].id \in Ids /\ pending[i].text \in Texts
                               /\ pending[i].route \in Routes \cup {"sending"}
  /\ shown \in 0..Len(records) /\ used \subseteq DOMAIN records
  /\ \A i \in DOMAIN records : records[i].text \in UNION {Joined[x] : x \in Texts}
  /\ takenBy \in [Ids -> 0..Len(records)]

(***************************************************************************)
(* The matching.  A record is its number.                                  *)
(***************************************************************************)

\* fit: how a record fits a send whose route is r.
Fit(x, r, n) ==
  LET rec == records[n] IN
  IF r # "sending" /\ rec.via # r THEN "no"
  ELSE IF rec.text = x THEN "exact"
  ELSE IF r # "inbox" /\ rec.text \in Joined[x] THEN "suffix" ELSE "no"

\* inTime: the rule for the records of a full reload.
InTimeFault(fit, n, at) == fit
InTime(fit, n, at) ==
  IF fit = "exact" /\ records[n].at + Slack >= at THEN fit
  ELSE IF fit = "suffix" /\ records[n].at >= at THEN fit ELSE "no"

\* pick: the oldest exact fit, else the oldest suffix fit, else 0.
Pick(fits) ==
  LET exact == {i \in DOMAIN fits : fits[i] = "exact"}
      weak == {i \in DOMAIN fits : fits[i] = "suffix"}
  IN IF exact # {} THEN CHOOSE i \in exact : \A j \in exact : i <= j
     ELSE IF weak # {} THEN CHOOSE i \in weak : \A j \in weak : i <= j ELSE 0

\* One record against the list (noteArrivals, consumeAfterReload): the send it
\* is taken for is cleared, or notes it while it waits for its answer.
AlreadyUsedFault(st, n) == FALSE
AlreadyUsed(st, n) == n \in st.used

Take(st, n, reload) ==
  LET F(p) == LET k == Fit(p.text, p.route, n) IN IF reload THEN InTime(k, n, p.at) ELSE k
      i == Pick([j \in DOMAIN st.list |-> F(st.list[j])])
  IN IF AlreadyUsed(st, n) \/ i = 0 THEN st
     ELSE IF st.list[i].route = "sending"
     THEN [st EXCEPT !.used = @ \cup {n}, !.list[i].seen = Append(@, <<n, reload>>)]
     ELSE [st EXCEPT !.used = @ \cup {n}, !.list = RemoveAt(@, i), !.by[st.list[i].id] = n]

Now == [list |-> pending, used |-> used, by |-> takenBy]
TakeAll(ns, reload) == FoldLeft(LAMBDA st, n : Take(st, n, reload), Now, ns)
Becomes(st) == pending' = st.list /\ used' = st.used /\ takenBy' = st.by

\* finishSend: what the send noted is offered to every settled send.
Offer(st, note) ==
  LET n == note[1]
      F(p) == IF p.route = "sending" THEN "no"
              ELSE LET k == Fit(p.text, p.route, n) IN IF note[2] THEN InTime(k, n, p.at) ELSE k
      i == Pick([j \in DOMAIN st.list |-> F(st.list[j])])
  IN IF i = 0 THEN st
     ELSE [st EXCEPT !.list = RemoveAt(@, i), !.by[st.list[i].id] = n]

\* The notes of a send that failed are offered all the same.
NotesFault(p, route) == IF route = "lost" THEN <<>> ELSE p.seen
Notes(p, route) == p.seen

Finish(id, route) ==
  LET i == CHOOSE j \in DOMAIN pending : pending[j].id = id
      p == pending[i]
      rest == IF route = "lost" THEN RemoveAt(pending, i)
              ELSE [pending EXCEPT ![i] = [p EXCEPT !.route = route, !.seen = <<>>]]
  IN Becomes(FoldLeft(LAMBDA st, note : Offer(st, note), [Now EXCEPT !.list = rest], Notes(p, route)))

(***************************************************************************)
(* Steps                                                                   *)
(***************************************************************************)

\* beginSend: stacked at once, with the time it was sent at.  The composer
\* sends no other while one waits for its answer.
Sending == \E i \in DOMAIN pending : pending[i].route = "sending"
Send(x) ==
  /\ ~Sending
  /\ Len(said) < MaxSends
  /\ said' = Append(said, [text |-> x, at |-> clock, after |-> shown])
  /\ pending' = Append(pending, [id |-> Len(said) + 1, text |-> x, at |-> clock,
                                 route |-> "sending", seen |-> <<>>])
  /\ clock' = clock + 1
  /\ UNCHANGED <<shown, used, takenBy, agent>>

Waiting(id) == /\ id \in DOMAIN said
               /\ \A q \in Range(replies) : q[1] # id
               /\ \E i \in DOMAIN pending : pending[i].id = id /\ pending[i].route = "sending"

\* The agent hands the message over and answers; the record comes later.
Deliver(id, r) ==
  /\ Waiting(id)
  /\ replies' = Append(replies, <<id, r>>) /\ due' = due \cup {<<id, r>>}
  /\ UNCHANGED <<clock, phone, records, lost, said>>

\* The request fails, after the message was handed over or before.
Lose(id) ==
  /\ Waiting(id) /\ lost < MaxLost /\ lost' = lost + 1
  /\ replies' = Append(replies, <<id, "lost">>)
  /\ \/ UNCHANGED due
     \/ \E r \in Routes : due' = due \cup {<<id, r>>}
  /\ UNCHANGED <<clock, phone, records, said>>

Record(d) ==
  /\ d \in due /\ due' = due \ {d}
  /\ \E x \in IF d[2] = "keys" THEN Joined[said[d[1]].text] ELSE {said[d[1]].text} :
       records' = Append(records, [text |-> x, via |-> d[2], at |-> clock, of |-> d[1]])
  /\ clock' = clock + 1
  /\ UNCHANGED <<phone, replies, lost, said>>

\* A line typed on the PC: a record like those of the keys route.
Typed(x) ==
  /\ Cardinality({n \in DOMAIN records : records[n].of = 0}) < MaxTyped
  /\ records' = Append(records, [text |-> x, via |-> "keys", at |-> clock, of |-> 0])
  /\ clock' = clock + 1
  /\ UNCHANGED <<phone, replies, due, lost, said>>

Reply(i) ==
  /\ i \in DOMAIN replies
  /\ Finish(replies[i][1], replies[i][2])
  /\ replies' = RemoveAt(replies, i)
  /\ UNCHANGED <<clock, shown, records, due, lost, said>>

\* The follow brings what was added, a reload of the thread all there is: both
\* may overtake the answer of a send.
Follow ==
  /\ shown < Len(records)
  /\ Becomes(TakeAll([i \in 1..(Len(records) - shown) |-> shown + i], FALSE))
  /\ shown' = Len(records)
  /\ UNCHANGED <<clock, agent, said>>
Reload ==
  /\ Becomes(TakeAll([i \in 1..Len(records) |-> i], TRUE))
  /\ shown' = Len(records)
  /\ UNCHANGED <<clock, agent, said>>

Next == \/ \E x \in Texts : Send(x) \/ Typed(x)
        \/ \E id \in Ids : Lose(id) \/ \E r \in Routes : Deliver(id, r)
        \/ \E d \in Ids \X Routes : Record(d)
        \/ \E i \in 1..MaxSends : Reply(i)
        \/ Follow \/ Reload

Spec == Init /\ [][Next]_vars

(***************************************************************************)
(* Properties                                                              *)
(***************************************************************************)

\* Record n is no reason to clear send i: it was on the screen before i was
\* sent, and is not the same text within the slack of the clocks either.
FromBefore(n, i) ==
  /\ n <= said[i].after
  /\ ~ (records[n].text = said[i].text /\ records[n].at + Slack >= said[i].at)

\* A record clears one send only, and never one that was sent after it was on
\* the screen (pending.ts: "look only at what was added after sending, and
\* consume one at a time"), whatever is followed again or reloaded and in
\* whatever order answers and records arrive.
OneEach ==
  \A i \in Ids : takenBy[i] # 0 =>
    /\ \A j \in Ids \ {i} : takenBy[j] # takenBy[i]
    /\ ~FromBefore(takenBy[i], i)

\* When every message was recorded, every answer is in and the thread is up
\* to date, nothing is left: what arrived is never shown as not confirmed for
\* good, whichever send its record was noted by first.
Settled == /\ replies = <<>> /\ due = {} /\ shown = Len(records)
           /\ \A i \in DOMAIN pending : pending[i].route # "sending"
NoneLeft == Settled => pending = <<>>
=============================================================================
