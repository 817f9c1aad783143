----------------------------- MODULE PhoneList ------------------------------
(***************************************************************************)
(* The list of sessions on the phone (main.tsx refresh, ui/history.ts): one *)
(* machine, what it has, and what the screen shows of it.  A fetch asks for *)
(* the sessions and for the waiting approvals side by side; fetches are     *)
(* started by signals, by the poll, by a return to the foreground and by    *)
(* opening the history, and overlap.                                        *)
(*                                                                         *)
(* Simplified: the requests of a fetch are answered at one time; a request  *)
(* ends before the next tick of the poll (10 s and 15 s), and the spacing   *)
(* of the polls is left out; an open thread without a row asks for the      *)
(* history as an open history does (both are `open`); agents that know no   *)
(* revision are left out.                                                   *)
(***************************************************************************)
EXTENDS Naturals, FiniteSets

CONSTANTS
    Sessions,  \* on the machine
    Scenes,    \* each a set of what changes: sessions, approvals, reach, stream, user
    Versions,  \* of a row in the history; 0 is none
    Slots,     \* bound: fetches under way
    MaxNow,    \* bound: changes on the machine
    MaxMoves,  \* bound: what the user does with the screen
    MaxFails,  \* bound: requests that fail while the machine is up
    Ours,      \* the version of a row that the phone made by itself
    Unread, Failed, None

VARIABLES
    scene,
    up,      \* the machine can be reached
    live,    \* the sessions that run
    past,    \* the history: a version per session
    asks,    \* an approval waits
    now,     \* changes so far
    line,    \* the event stream is up
    sig,     \* a signal on it has not arrived
    vis,     \* the app is in the foreground
    open,    \* the history is open
    moves, fails,
    fetch,   \* fetches under way
    st       \* the state of the list

machine == <<scene, up, live, past, asks, now>>
screen == <<vis, open, moves>>
vars == <<machine, line, sig, screen, fails, fetch, st>>

EmptyState ==
    [live |-> {}, hist |-> [s \in Sessions |-> 0], rev |-> None, loaded |-> None,
     ever |-> FALSE, asks |-> FALSE, known |-> FALSE, at |-> 0, off |-> FALSE]

ShouldFetchHistory(o) == o /\ (~st.ever \/ st.loaded # st.rev)

(* A new fetch makes the others stale (gen).                                *)
StartedAs(o, f) ==
    [g \in Slots |->
        IF g = f THEN [newest |-> TRUE, want |-> ShouldFetchHistory(o), got |-> Unread]
        ELSE IF fetch[g] = None THEN None ELSE [fetch[g] EXCEPT !.newest = FALSE]]

Start(o) ==
    LET free == {f \in Slots : fetch[f] = None}
    IN  free # {} /\ fetch' = StartedAs(o, CHOOSE f \in free : TRUE)

Init ==
    /\ scene \in Scenes
    /\ up \in {TRUE, "reach" \notin scene} /\ live \in SUBSET Sessions /\ past = [s \in Sessions |-> 0]
    /\ asks = FALSE /\ now = 1 /\ line = FALSE /\ sig = FALSE
    /\ vis = TRUE /\ open \in BOOLEAN /\ moves = 0 /\ fails = 0
    /\ st = EmptyState
    /\ LET f == CHOOSE g \in Slots : TRUE
       IN  fetch = [g \in Slots |->
                      IF g = f THEN [newest |-> TRUE, want |-> open, got |-> Unread]
                      ELSE None]

-----------------------------------------------------------------------------
(* The machine.                                                             *)

Changes(what) ==
    /\ what \in scene /\ now < MaxNow /\ now' = now + 1
    /\ UNCHANGED <<scene, line, screen, fails, fetch, st>>
Tells == sig' = (sig \/ line)

Begins(s) ==
    /\ up /\ s \notin live /\ Changes("sessions") /\ Tells
    /\ live' = live \cup {s} /\ past' = [past EXCEPT ![s] = 0] /\ UNCHANGED <<up, asks>>

(* A session that ends is history, unless it wrote too little; the phone may *)
(* have lost the machine meanwhile.                                         *)
Ends(s, v) ==
    /\ s \in live /\ Changes("sessions") /\ (IF up THEN Tells ELSE UNCHANGED sig)
    /\ live' = live \ {s} /\ past' = [past EXCEPT ![s] = v] /\ UNCHANGED <<up, asks>>

(* The summary that is written minutes after the end: no signal.            *)
Summary(s, v) ==
    /\ past[s] # 0 /\ v # 0 /\ v # past[s] /\ Changes("sessions")
    /\ past' = [past EXCEPT ![s] = v] /\ UNCHANGED <<up, live, asks, sig>>

Asked == up /\ Changes("approvals") /\ Tells /\ asks' = ~asks /\ UNCHANGED <<up, live, past>>

Down == up /\ Changes("reach") /\ up' = FALSE /\ UNCHANGED <<live, past, asks, sig>>
Up == ~up /\ Changes("reach") /\ up' = TRUE /\ UNCHANGED <<live, past, asks, sig>>

-----------------------------------------------------------------------------
(* What starts a fetch.                                                     *)

(* The stream is made again: hello, and what was signalled before is lost.  *)
LineUp ==
    /\ "stream" \in scene /\ up /\ ~line /\ line' = TRUE /\ sig' = TRUE
    /\ UNCHANGED <<machine, screen, fails, fetch, st>>

LineDown ==
    /\ line /\ ~up /\ line' = FALSE /\ sig' = FALSE
    /\ UNCHANGED <<machine, screen, fails, fetch, st>>

Signalled ==
    /\ sig /\ sig' = FALSE /\ Start(open) /\ UNCHANGED <<machine, line, screen, fails, st>>

Newest(f) == fetch[f] # None /\ fetch[f].newest

(* The poll of an app in the foreground (pollDue).                          *)
Poll ==
    /\ vis /\ ~\E f \in Slots : Newest(f)
    /\ Start(open) /\ UNCHANGED <<machine, line, sig, screen, fails, st>>

Move == "user" \in scene /\ moves < MaxMoves /\ moves' = moves + 1 /\ UNCHANGED <<machine, line, sig, fails, st>>

Hide == vis /\ Move /\ vis' = FALSE /\ UNCHANGED <<open, fetch>>
Resume == ~vis /\ Move /\ vis' = TRUE /\ Start(open) /\ UNCHANGED open
Open == vis /\ ~open /\ Move /\ open' = TRUE /\ Start(TRUE) /\ UNCHANGED vis
Close == vis /\ open /\ Move /\ open' = FALSE /\ UNCHANGED <<vis, fetch>>

-----------------------------------------------------------------------------
(* A fetch.                                                                 *)

Answer(f, a) ==
    /\ fetch[f] # None /\ fetch[f].got = Unread
    /\ fetch' = [fetch EXCEPT ![f].got = a]
    /\ UNCHANGED <<machine, line, sig, screen, st>>

(* The machine reads the sessions: those that run, and, if they are wanted, *)
(* the rows of the history, their revision in any case; and the approvals.  *)
Page(perms) == [live |-> live, past |-> past, perms |-> perms, at |-> now]

Read(f) == Answer(f, IF up THEN Page(asks) ELSE Failed) /\ UNCHANGED fails

(* A request fails, of the sessions or of the approvals only.               *)
Fails(f, a) == up /\ fails < MaxFails /\ fails' = fails + 1 /\ Answer(f, a)

ApplyPage(page, want, prev) ==
    LET got == [prev EXCEPT !.live = page.live, !.rev = page.past, !.at = page.at]
    IN  IF want THEN [got EXCEPT !.hist = page.past, !.loaded = page.past, !.ever = TRUE] ELSE got

\* A fault: the machine is taken to have told of the rows made here.
MarkOfflineListFault(s) ==
    [s EXCEPT !.live = {},
              !.hist = [x \in Sessions |-> IF x \in s.live THEN Ours ELSE s.hist[x]]]

(* Its live sessions move to the history; what was loaded counts no more.   *)
MarkOfflineList(s) ==
    [s EXCEPT !.live = {}, !.ever = FALSE,
              !.hist = [x \in Sessions |-> IF x \in s.live THEN Ours ELSE s.hist[x]]]

MarkOffline(s) == [MarkOfflineList(s) EXCEPT !.off = TRUE, !.asks = FALSE, !.known = FALSE]

(* Approvals that could not be fetched are none, and not known.             *)
Fetched(f) ==
    LET got == fetch[f].got
        known == got.perms # Failed
    IN  [ApplyPage(got, fetch[f].want, st) EXCEPT
            !.off = FALSE, !.known = known, !.asks = IF known THEN got.perms ELSE FALSE]

\* A fault: the generation is not looked at.
StaleFault(f) == FALSE
Stale(f) == ~fetch[f].newest

(* The sessions cannot do without their answer; both are waited for.        *)
Complete(f) ==
    /\ fetch[f] # None /\ fetch[f].got # Unread
    /\ st' = IF Stale(f) THEN st ELSE IF fetch[f].got = Failed THEN MarkOffline(st) ELSE Fetched(f)
    /\ fetch' = [fetch EXCEPT ![f] = None]
    /\ UNCHANGED <<machine, line, sig, screen, fails>>

Next ==
    \/ \E s \in Sessions : Begins(s) \/ \E v \in Versions : Ends(s, v) \/ Summary(s, v)
    \/ Asked \/ Down \/ Up
    \/ LineUp \/ LineDown \/ Signalled \/ Poll
    \/ Hide \/ Resume \/ Open \/ Close
    \/ \E f \in Slots : Read(f) \/ Complete(f) \/ \E a \in {Failed, Page(Failed)} : Fails(f, a)

Spec == Init /\ [][Next]_vars

(* Requests end, what has arrived is handled, and the poll goes on.         *)
Fairness ==
    /\ WF_vars(Poll) /\ WF_vars(Signalled)
    /\ \A f \in Slots : WF_vars(Read(f)) /\ WF_vars(Complete(f))

FairSpec == Spec /\ Fairness

-----------------------------------------------------------------------------
TypeOK ==
    /\ live \subseteq Sessions /\ past \in [Sessions -> Versions]
    /\ st.hist \in [Sessions -> Versions \cup {Ours}]
    /\ now \in 1 .. MaxNow

(* What an older fetch brings is not shown over what a newer one brought:   *)
(* an answered card does not come back, a dropped machine does not run again *)
(* (the generation of refresh).                                             *)
NeverBack ==
    [][st'.at >= st.at]_vars

(* While the app is looked at, it comes to show what the machine has, its   *)
(* open history included, row by row and no other; a machine that is out of *)
(* reach comes to claim no running session and no waiting approval.         *)
Shown ==
    /\ ~st.off /\ st.live = live /\ st.asks = asks /\ st.known
    /\ open => \A s \in Sessions \ live : st.hist[s] = past[s]

Quiet == st.off /\ st.live = {} /\ ~st.asks /\ ~st.known

Told == vis => IF up THEN Shown ELSE Quiet

ShownInTheEnd == []<>Told
=============================================================================
