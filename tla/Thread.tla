------------------------------- MODULE Thread -------------------------------
(***************************************************************************)
(* A thread open on the phone: the transcript Claude Code writes, the      *)
(* pages the agent cuts from it (src/agent/src/claude/log.ts), the watcher *)
(* that says "grew" to whoever follows (claude/follow.ts, events.ts), and  *)
(* the screen that puts the pages together (src/web/src/ui/Thread.tsx,     *)
(* follow.ts, followPlan.ts, visibility.ts).                               *)
(*                                                                         *)
(* A record is <<file, number>>; the file may end in a record that is      *)
(* written in part ("torn").  An offset is twice a number of records, so   *)
(* that the size of a torn file is odd.  Every record shows something.  A  *)
(* request is read by the agent at one moment and arrives at a later one.  *)
(* Leaving the thread recreates the component (its key) and is not a step. *)
(***************************************************************************)
EXTENDS Integers, Sequences, FiniteSets

CONSTANTS MaxLen,   \* bound: records of one file
          Limit,    \* PAGE: records of one page
          MaxFiles, \* bound: how often the file is made anew, plus one
          MaxFails, \* bound: requests that fail, and lines that break
          MaxHides, \* bound: how often the screen goes to the background
          Scenes    \* what may happen besides: "older", "anew", "features"

ThreadAssumption ==
  /\ MaxLen \in Nat /\ Limit \in Nat \ {0} /\ MaxFiles \in Nat \ {0}
  /\ MaxFails \in Nat /\ MaxHides \in Nat /\ Scenes \subseteq {"older", "anew", "features"}

Pulls == {"pull1", "pull2"} \* the follow effect's fetcher, before and after it is run again
Requests == Pulls \cup {"first", "older"}
NoPage == [file |-> 0, lo |-> 1, hi |-> 0, tail |-> 0]

VARIABLES
  scene,
  file, len, torn,         \* the transcript
  entries, tail, cursor,   \* the screen: entries, tailRef (-1: not loaded), cursor (0: null)
  asked,                   \* each request: [st, kind, from, page]
  again,                   \* coalesce: the fetchers that run once more
  puller,                  \* the fetcher of the effect's present run
  visible, hides,
  subscribed, events,      \* followLog and what is on its way to the phone
  last,                    \* the watcher's memory of this session, <<>> without one
  fails, owed              \* a fetch failed and none was started since

transcript == <<file, len, torn>>
screen == <<entries, tail, cursor>>
follow == <<subscribed, events, last>>
view == <<visible, hides>>
\* What fails or hides does so in the other scenes only (a bound).
Up(bound) == IF scene = "features" THEN 0 ELSE bound

vars == <<scene, transcript, screen, asked, again, puller, view, follow, fails, owed>>

TypeOK ==
  /\ scene \in Scenes /\ file \in 1..MaxFiles /\ len \in 0..MaxLen /\ torn \in BOOLEAN
  /\ \A i \in DOMAIN entries : entries[i] \in (1..MaxFiles) \X (1..MaxLen)
  /\ tail \in -1..(2 * MaxLen + 1) /\ cursor \in 0..MaxLen
  /\ asked \in [Requests -> [st : {"none", "wait", "sent", "read"}, kind : {"since", "latest", "before"},
                             from : -1..(2 * MaxLen + 1),
                             page : [file : 0..MaxFiles, lo : 1..(MaxLen + 1), hi : 0..MaxLen,
                                     tail : 0..(2 * MaxLen + 1)]]]
  /\ again \subseteq Pulls /\ puller \in Pulls
  /\ visible \in BOOLEAN /\ subscribed \in BOOLEAN /\ owed \in BOOLEAN
  /\ events \subseteq {"hello", "grew"}

Quiet == [st |-> "none", kind |-> "latest", from |-> -1, page |-> NoPage]
Request(kind, from) == [st |-> "sent", kind |-> kind, from |-> from, page |-> NoPage]

\* The thread was just opened: its first load is on its way.
Init ==
  /\ scene \in Scenes
  /\ file = 1 /\ len \in 0..2 /\ torn = FALSE
  /\ entries = <<>> /\ tail = -1 /\ cursor = 0
  /\ asked = [r \in Requests |-> IF r = "first" THEN Request("latest", -1) ELSE Quiet]
  /\ again = {} /\ puller = "pull1"
  /\ visible = TRUE /\ hides = 0
  /\ subscribed = FALSE /\ events = {} /\ last = <<>>
  /\ fails = 0 /\ owed = FALSE

(***************************************************************************)
(* The transcript.                                                         *)
(***************************************************************************)

Size == 2 * len + (IF torn THEN 1 ELSE 0)
Sig == <<file, len, torn>>

\* The phone knows of no file but this one.
Noticed == /\ \A r \in Requests : asked[r].st = "read" => asked[r].page.file = file
           /\ (entries # <<>> /\ tail > 0) => entries[1][1] = file

\* Claude Code writes a record, or a part of it first.
Write ==
  /\ len < MaxLen /\ Noticed
  /\ \/ ~torn /\ torn' = TRUE /\ UNCHANGED len
     \/ torn' = FALSE /\ len' = len + 1
  /\ UNCHANGED <<scene, file, screen, asked, again, puller, view, follow, fails, owed>>

\* The file is made anew.  It does not outgrow the old one before the phone
\* looks (Noticed): that change no offset shows, and follow.ts says so.
Anew ==
  /\ scene = "anew" /\ file < MaxFiles /\ Noticed
  /\ file' = file + 1 /\ len' = 0 /\ torn' = FALSE
  /\ UNCHANGED <<scene, screen, asked, again, puller, view, follow, fails, owed>>

(***************************************************************************)
(* The agent's pages (readLogSlice, readLogSince).                         *)
(***************************************************************************)

Oldest(hi) == IF hi > Limit THEN hi - Limit + 1 ELSE 1

\* The end of the last complete line, where the next read starts.  A read that
\* started inside a line would not make that record out any more.
EndFault == Size
End == 2 * len

Since(from) ==
  IF from >= Size THEN [NoPage EXCEPT !.file = file, !.tail = Size]
  ELSE [file |-> file, lo |-> (from + 1) \div 2 + 1, hi |-> len, tail |-> End]
Latest == [file |-> file, lo |-> Oldest(len), hi |-> len, tail |-> End]
Before(c) ==
  IF c > len THEN [NoPage EXCEPT !.file = file, !.tail = End]
  ELSE [file |-> file, lo |-> Oldest(c), hi |-> c, tail |-> End]

Read(r) ==
  /\ asked[r].st = "sent"
  /\ asked' = [asked EXCEPT ![r].st = "read",
       ![r].page = CASE asked[r].kind = "since" -> Since(asked[r].from)
                     [] asked[r].kind = "latest" -> Latest
                     [] asked[r].kind = "before" -> Before(asked[r].from)]
  /\ UNCHANGED <<scene, transcript, screen, again, puller, view, follow, fails, owed>>

Records(page) == [i \in 1..(page.hi - page.lo + 1) |-> <<page.file, page.lo + i - 1>>]

(***************************************************************************)
(* The screen.                                                             *)
(***************************************************************************)

\* loadFirst: the latest page replaces what is shown.
ShowLatest(page) ==
  /\ entries' = Records(page) /\ tail' = page.tail /\ cursor' = page.lo - 1

\* Fetcher p of coalesce has finished or failed: it runs once more if it was
\* called while it ran and its effect was not run again since (stop).
RunAgain(p) == p \in again /\ p = puller
Ended(p, req) ==
  IF RunAgain(p) THEN [req EXCEPT ![p] = [Quiet EXCEPT !.st = "wait"]]
  ELSE [req EXCEPT ![p] = Quiet]

\* A call of pull(): it runs, or it is remembered if it runs already.
CalledFault(p) == /\ asked' = IF asked[p].st = "none" THEN [asked EXCEPT ![p].st = "wait"] ELSE asked
                  /\ UNCHANGED again
Called(p) ==
  IF asked[p].st = "none" THEN /\ asked' = [asked EXCEPT ![p].st = "wait"] /\ UNCHANGED again
  ELSE again' = again \cup {p} /\ UNCHANGED asked

\* The fetcher waits for the first load, then asks for the rest, or for the
\* latest page if nothing is loaded.
StartPull(p) ==
  /\ asked[p].st = "wait" /\ asked["first"].st = "none"
  /\ asked' = [asked EXCEPT ![p] = IF tail < 0 THEN Request("latest", -1) ELSE Request("since", tail)]
  /\ owed' = FALSE
  /\ UNCHANGED <<scene, transcript, screen, again, puller, view, follow, fails>>

ArriveFirst ==
  /\ asked["first"].st = "read"
  /\ ShowLatest(asked["first"].page)
  /\ asked' = [asked EXCEPT !["first"] = Quiet]
  /\ UNCHANGED <<scene, transcript, again, puller, view, follow, fails, owed>>

\* followAction: ignore, reset or append.
ArrivePull(p) ==
  LET page == asked[p].page IN
  /\ asked[p].st = "read"
  /\ again' = IF asked[p].kind = "since" /\ page.tail < tail THEN again ELSE again \ {p}
  /\ \/ /\ asked[p].kind = "latest"
        /\ ShowLatest(page) /\ asked' = Ended(p, asked)
     \/ /\ asked[p].kind = "since" /\ page.tail < tail
        /\ tail' = -1 /\ asked' = [asked EXCEPT ![p] = Request("latest", -1)]
        /\ UNCHANGED <<entries, cursor>>
     \/ /\ asked[p].kind = "since" /\ page.tail = tail
        /\ asked' = Ended(p, asked) /\ UNCHANGED screen
     \/ /\ asked[p].kind = "since" /\ page.tail > tail
        /\ entries' = entries \o Records(page) /\ tail' = page.tail
        /\ asked' = Ended(p, asked) /\ UNCHANGED cursor
  /\ UNCHANGED <<scene, transcript, puller, view, follow, fails, owed>>

\* loadOlder: one at a time (olderRef).
LoadOlder ==
  /\ scene = "older" /\ cursor > 0 /\ asked["older"].st = "none"
  /\ asked' = [asked EXCEPT !["older"] = Request("before", cursor)]
  /\ UNCHANGED <<scene, transcript, screen, again, puller, view, follow, fails, owed>>

ArriveOlder ==
  /\ asked["older"].st = "read"
  /\ entries' = Records(asked["older"].page) \o entries
  /\ cursor' = asked["older"].page.lo - 1
  /\ asked' = [asked EXCEPT !["older"] = Quiet]
  /\ UNCHANGED <<scene, transcript, tail, again, puller, view, follow, fails, owed>>

\* A request fails.  A fetcher swallows it: the next signal or poll asks again.
Fail(r) ==
  /\ asked[r].st \in {"sent", "read"} /\ fails < Up(MaxFails)
  /\ fails' = fails + 1
  /\ IF r \in Pulls
     THEN asked' = Ended(r, asked) /\ again' = again \ {r} /\ owed' = TRUE
     ELSE asked' = [asked EXCEPT ![r] = Quiet] /\ owed' = (owed \/ r = "first") /\ UNCHANGED again
  /\ UNCHANGED <<scene, transcript, screen, puller, view, follow>>

\* The insurance poll (60 seconds; 3 for an agent without log-follow).
Poll == /\ visible /\ Called(puller)
        /\ UNCHANGED <<scene, transcript, screen, puller, view, follow, fails, owed>>

\* The list says what the agent can do: the follow effect runs again with a
\* fetcher of its own.  What the old one has under way still arrives.
FeaturesArrive ==
  /\ scene = "features" /\ puller = "pull1"
  /\ puller' = "pull2" /\ again' = {}
  /\ subscribed' = FALSE /\ events' = {}
  /\ UNCHANGED <<scene, transcript, screen, asked, view, last, fails, owed>>

Hide == /\ visible /\ hides < Up(MaxHides)
        /\ visible' = FALSE /\ hides' = hides + 1 /\ subscribed' = FALSE /\ events' = {}
        /\ UNCHANGED <<scene, transcript, screen, asked, again, puller, last, fails, owed>>
Show == /\ ~visible /\ visible' = TRUE /\ Called(puller)
        /\ UNCHANGED <<scene, transcript, screen, puller, hides, follow, fails, owed>>

(***************************************************************************)
(* followLog and the agent's watcher.                                      *)
(***************************************************************************)

\* attach: hello first.
Subscribe == /\ visible /\ ~subscribed
             /\ subscribed' = TRUE /\ events' = {"hello"}
             /\ UNCHANGED <<scene, transcript, screen, asked, again, puller, view, last, fails, owed>>

Break == /\ subscribed /\ fails < Up(MaxFails) /\ fails' = fails + 1
         /\ subscribed' = FALSE /\ events' = {}
         /\ UNCHANGED <<scene, transcript, screen, asked, again, puller, view, last, owed>>

\* One look of the watcher.  A session it has no memory of has changed too.
ChangedFault == last # <<>> /\ last # Sig
Changed == last # Sig

Tick ==
  /\ \/ /\ subscribed /\ last # Sig /\ last' = Sig
        /\ events' = IF Changed THEN events \cup {"grew"} ELSE events
     \/ /\ ~subscribed /\ last # <<>> /\ last' = <<>>
        /\ UNCHANGED events
  /\ UNCHANGED <<scene, transcript, screen, asked, again, puller, view, subscribed, fails, owed>>

\* shouldPull: either signal makes the phone look.
Hear(e) == /\ e \in events /\ events' = events \ {e} /\ Called(puller)
           /\ UNCHANGED <<scene, transcript, screen, puller, view, subscribed, last, fails, owed>>

(***************************************************************************)

Next ==
  \/ Write \/ Anew \/ ArriveFirst \/ LoadOlder \/ ArriveOlder
  \/ Poll \/ FeaturesArrive \/ Hide \/ Show \/ Subscribe \/ Break \/ Tick
  \/ \E r \in Requests : Read(r) \/ Fail(r)
  \/ \E p \in Pulls : StartPull(p) \/ ArrivePull(p)
  \/ \E e \in {"hello", "grew"} : Hear(e)

Spec == Init /\ [][Next]_vars

\* Requests are answered or fail (the transport's timeouts), a broken stream
\* is opened again and the watcher's timer runs.  The poll is NOT assumed:
\* the signals alone must do.
Fairness ==
  /\ WF_vars(ArriveFirst) /\ WF_vars(Subscribe) /\ WF_vars(Tick)
  /\ \A r \in Requests : WF_vars(Read(r))
  /\ \A p \in Pulls : WF_vars(StartPull(p)) /\ WF_vars(ArrivePull(p))
  /\ \A e \in {"hello", "grew"} : WF_vars(Hear(e))
FairSpec == Spec /\ Fairness

(***************************************************************************)
(* Properties                                                              *)
(***************************************************************************)

\* What is shown is a stretch of one file without a gap and without a record
\* twice: from the cursor, where "older" goes on, to the tail, where the
\* follow goes on ("Follow is serialized, so within one generation responses
\* never arrive out of order", follow.ts).
InOrder ==
  tail >= 0 => \E f \in 1..file :
    entries = [i \in 1..(tail \div 2 - cursor) |-> <<f, cursor + i>>]

\* That is so as long as the follow effect runs once.
OneStretch == puller = "pull1" => InOrder

UpToDate == \/ entries # <<>> /\ entries[Len(entries)] = <<file, len>>
            \/ len = 0 /\ tail = 0

\* Without the poll, whatever was written is shown in the end, unless the
\* screen is in the background or a fetch failed (then it waits for the next
\* signal or for the poll), or the follow effect was run again: the old
\* fetcher's page may then replace a newer one.
Behind == ~UpToDate /\ visible /\ ~owed /\ puller = "pull1"
ShownInTheEnd == []<>~Behind
=============================================================================
