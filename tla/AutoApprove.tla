---------------------------- MODULE AutoApprove ----------------------------
(***************************************************************************)
(* Auto-approve (agent/src/autoApprove.ts): while it is on for a session,  *)
(* the agent answers its yes/no approvals by itself, until a time.  What   *)
(* is on is kept in memory, where an approval is decided at once, and in   *)
(* the file auto-approve.json, from which a restarted agent goes on.       *)
(*                                                                         *)
(* Requests of phones, the end of a session and the timers of entries all  *)
(* go through one chain of promises; an operation may fail to save, and    *)
(* the agent may stop between any two steps of it.                         *)
(*                                                                         *)
(* Simplifications:                                                        *)
(*   - Time is a small clock that advances at any moment; a timer fires at *)
(*     some moment after the end of its entry.                             *)
(*   - An entry is its end and a number that tells it from other entries   *)
(*     of the session (in the code: the identity of the object).           *)
(*   - The file is replaced as a whole (state.ts writeJson renames), and a *)
(*     file that cannot be read is Broken, from the start.                 *)
(*   - Which approvals are yes/no is not told apart here.                  *)
(***************************************************************************)
EXTENDS Naturals, Sequences

CONSTANTS
  Sessions,
  Ops,        \* bound: operations in the chain at a time
  Lengths,    \* AUTO_APPROVE_DURATIONS, in ticks
  MaxTime,    \* bound: the clock stops here
  MaxGrants,  \* bound: how often it is turned on
  None, Broken

VARIABLES
  clock,
  up,      \* down, loading (main awaits loadAutoApprove) or up
  broken,  \* state.kind = 'broken'
  mem,     \* state.active, per session
  timer,   \* timers, per session
  file,    \* auto-approve.json
  queue,   \* chain: the operations waiting, the first one is running
  op,      \* op[i]: what operation i is and how far it is
  made,    \* entries made so far
  said,    \* said[n]: how often the end of entry n was announced, up to 2
  slip,    \* history: entries whose end was announced although it was not saved
  off      \* history: the user was told that it is off, or its session ended so

vars == <<clock, up, broken, mem, timer, file, queue, op, made, said, slip, off>>

Grants  == [until : 0..MaxTime, n : 1..MaxGrants]
Entries == [Sessions -> Grants \cup {None}]
NoEntry == [s \in Sessions |-> None]

OpRecords == [k    : {"on", "off", "end", "expire", "clean"},
              s    : Sessions \cup {None},
              g    : Grants \cup {None},       \* entry to make, or to end
              due  : SUBSET (1..MaxGrants),    \* found past their end at startup
              ph   : {"queued", "saving", "saved", "failed"},
              want : Entries]                  \* what it saves

AutoApproveAssumption ==
  /\ Lengths \subseteq Nat \ {0}
  /\ MaxTime \in Nat /\ MaxGrants \in Nat
  /\ None \notin Sessions \cup Grants \cup OpRecords /\ Broken \notin Entries

ASSUME AutoApproveAssumption

TypeOK ==
  /\ clock \in 0..MaxTime
  /\ up \in {"down", "loading", "up"}
  /\ broken \in BOOLEAN
  /\ mem \in Entries
  /\ timer \in Entries
  /\ file \in Entries \cup {Broken}
  /\ queue \in Seq(Ops)
  /\ \A i, j \in 1..Len(queue) : queue[i] = queue[j] => i = j
  /\ op \in [Ops -> OpRecords \cup {None}]
  /\ made \in 0..MaxGrants
  /\ said \in [1..MaxGrants -> 0..2]
  /\ slip \subseteq 1..MaxGrants
  /\ off \in [Sessions -> BOOLEAN]

Init ==
  /\ clock = 0
  /\ up = "down"
  /\ broken = FALSE
  /\ mem = NoEntry
  /\ timer = NoEntry
  /\ file \in {NoEntry, Broken}
  /\ queue = <<>>
  /\ op = [i \in Ops |-> None]
  /\ made = 0
  /\ said = [n \in 1..MaxGrants |-> 0]
  /\ slip = {}
  /\ off = [s \in Sessions |-> FALSE]

-----------------------------------------------------------------------------
(* The chain.                                                              *)

\* enqueue: operation i waits for its turn.
Enqueue(i, k, s, g, due) ==
  /\ op[i] = None
  /\ op' = [op EXCEPT ![i] = [k |-> k, s |-> s, g |-> g, due |-> due,
                              ph |-> "queued", want |-> NoEntry]]
  /\ queue' = Append(queue, i)

\* A fault: only the writes are serialized, not whole operations.
TurnFault(i) == op[i] # None

\* Its turn has come.
Turn(i) == queue # <<>> /\ Head(queue) = i

\* A fault: a failed or finished operation does not let the next one run.
RestFault == queue

Rest == Tail(queue)

\* Operation i is over and the next one may run.
Done(i) ==
  /\ queue' = Rest
  /\ op' = [op EXCEPT ![i] = None]

\* Operation i starts to save entries w.
Saves(i, w) ==
  /\ op' = [op EXCEPT ![i].ph = "saving", ![i].want = w]
  /\ UNCHANGED queue

-----------------------------------------------------------------------------
(* Starting, stopping and time.                                            *)

\* loadAutoApprove, up to its await: entries past their end are not loaded, and
\* their removal from the file is queued.
Start(i) ==
  LET live == [s \in Sessions |-> IF file[s] # None /\ file[s].until > clock
                                  THEN file[s] ELSE None]
      due == {file[s].n : s \in {t \in Sessions : file[t] # None /\ live[t] = None}}
  IN
  /\ up = "down"
  /\ broken' = (file = Broken)
  /\ IF file = Broken
     THEN up' = "up" /\ UNCHANGED <<mem, timer, queue, op>>
     ELSE /\ mem' = live
          /\ timer' = live
          /\ IF due = {}
             THEN up' = "up" /\ UNCHANGED <<queue, op>>
             ELSE up' = "loading" /\ Enqueue(i, "clean", None, None, due)
  /\ UNCHANGED <<clock, file, made, said, slip, off>>

\* The agent stops, with everything it had in memory.
Stop ==
  /\ up # "down"
  /\ up' = "down"
  /\ broken' = FALSE
  /\ mem' = NoEntry
  /\ timer' = NoEntry
  /\ queue' = <<>>
  /\ op' = [i \in Ops |-> None]
  /\ UNCHANGED <<clock, file, made, said, slip, off>>

Tick ==
  /\ clock < MaxTime
  /\ clock' = clock + 1
  /\ UNCHANGED <<up, broken, mem, timer, file, queue, op, made, said, slip, off>>

\* The timer of schedule: it only queues the end of its entry.
Fire(i, s) ==
  /\ timer[s] # None
  /\ clock >= timer[s].until
  /\ timer' = [timer EXCEPT ![s] = None]
  /\ Enqueue(i, "expire", s, timer[s], {})
  /\ UNCHANGED <<clock, up, broken, mem, file, made, said, slip, off>>

-----------------------------------------------------------------------------
(* Requests: POST /sessions/:id/auto-approve and the hook SessionEnd.      *)

\* Turning on: the end is counted from the request, not from its turn.
RequestOn(i, s, len) ==
  /\ up = "up"
  /\ made < MaxGrants
  /\ clock + len <= MaxTime
  /\ made' = made + 1
  /\ Enqueue(i, "on", s, [until |-> clock + len, n |-> made + 1], {})
  /\ UNCHANGED <<clock, up, broken, mem, timer, file, said, slip, off>>

RequestOff(i, s) ==
  /\ up = "up"
  /\ Enqueue(i, "off", s, None, {})
  /\ UNCHANGED <<clock, up, broken, mem, timer, file, made, said, slip, off>>

SessionEnds(i, s) ==
  /\ up = "up"
  /\ Enqueue(i, "end", s, None, {})
  /\ UNCHANGED <<clock, up, broken, mem, timer, file, made, said, slip, off>>

-----------------------------------------------------------------------------
(* The operations, from their turn to their first await.                   *)

Begins(i, k) == Turn(i) /\ op[i] # None /\ op[i].k = k /\ op[i].ph = "queued"

\* The file is broken, or there is nothing to end.
BeginNothing(i) ==
  /\ Turn(i) /\ op[i] # None /\ op[i].ph = "queued"
  /\ \/ broken
     \/ op[i].k = "end" /\ mem[op[i].s] = None
     \/ op[i].k = "expire" /\ mem[op[i].s] # op[i].g
  /\ Done(i)
  /\ UNCHANGED <<clock, up, broken, mem, timer, file, made, said, slip, off>>

\* On: saved first, with the other entries as they are now.
BeginOn(i) ==
  /\ Begins(i, "on") /\ ~broken
  /\ Saves(i, [mem EXCEPT ![op[i].s] = op[i].g])
  /\ off' = [off EXCEPT ![op[i].s] = FALSE]
  /\ UNCHANGED <<clock, up, broken, mem, timer, file, made, said, slip>>

\* Off, and the end of a session: out of the memory first.
BeginOff(i) ==
  /\ Begins(i, "off") \/ (Begins(i, "end") /\ mem[op[i].s] # None)
  /\ ~broken
  /\ mem' = [mem EXCEPT ![op[i].s] = None]
  /\ timer' = [timer EXCEPT ![op[i].s] = None]
  /\ Saves(i, mem')
  /\ UNCHANGED <<clock, up, broken, file, made, said, slip, off>>

\* The end of an entry, if it is still the one the timer was set for.
BeginExpire(i) ==
  /\ Begins(i, "expire") /\ ~broken
  /\ mem[op[i].s] = op[i].g
  /\ mem' = [mem EXCEPT ![op[i].s] = None]
  /\ Saves(i, mem')
  /\ UNCHANGED <<clock, up, broken, timer, file, made, said, slip, off>>

\* One more announcement of the entries ns.
Announced(ns) ==
  [n \in 1..MaxGrants |-> IF n \in ns /\ said[n] < 2 THEN said[n] + 1 ELSE said[n]]

\* A fault: the ends found at startup are announced before they are removed.
BeginCleanFault(i) ==
  /\ Begins(i, "clean")
  /\ Saves(i, mem)
  /\ said' = Announced(op[i].due)
  /\ UNCHANGED <<clock, up, broken, mem, timer, file, made, slip, off>>

BeginClean(i) ==
  /\ Begins(i, "clean")
  /\ Saves(i, mem)
  /\ UNCHANGED <<clock, up, broken, mem, timer, file, made, said, slip, off>>

\* writeState ends: the new file is in place, or the old one still is.
Write(i, ok) ==
  /\ op[i] # None /\ op[i].ph = "saving"
  /\ op' = [op EXCEPT ![i].ph = IF ok THEN "saved" ELSE "failed"]
  /\ file' = IF ok THEN op[i].want ELSE file
  /\ UNCHANGED <<clock, up, broken, mem, timer, queue, made, said, slip, off>>

-----------------------------------------------------------------------------
(* The operations, after their await.                                      *)

Ended(i, k) == op[i] # None /\ op[i].k = k /\ op[i].ph \in {"saved", "failed"}

\* A fault: the timer of the entry is not set.
FinishOnFault(i) ==
  /\ Ended(i, "on")
  /\ mem' = IF op[i].ph = "saved" THEN [mem EXCEPT ![op[i].s] = op[i].g] ELSE mem
  /\ Done(i)
  /\ UNCHANGED <<clock, up, broken, timer, file, made, said, slip, off>>

\* On: once saved it takes effect; otherwise the phone is told that it failed.
FinishOn(i) ==
  /\ Ended(i, "on")
  /\ IF op[i].ph = "saved"
     THEN /\ mem' = [mem EXCEPT ![op[i].s] = op[i].g]
          /\ timer' = [timer EXCEPT ![op[i].s] = op[i].g]
     ELSE UNCHANGED <<mem, timer>>
  /\ Done(i)
  /\ UNCHANGED <<clock, up, broken, file, made, said, slip, off>>

\* Off: the phone is told that it is off only if that is saved.
FinishOff(i) ==
  /\ Ended(i, "off") \/ Ended(i, "end")
  /\ off' = IF op[i].ph = "saved" THEN [off EXCEPT ![op[i].s] = TRUE] ELSE off
  /\ Done(i)
  /\ UNCHANGED <<clock, up, broken, mem, timer, file, made, said, slip>>

\* The end of an entry is announced, saved or not.
FinishExpire(i) ==
  /\ Ended(i, "expire")
  /\ said' = Announced({op[i].g.n})
  /\ slip' = IF op[i].ph = "failed" THEN slip \cup {op[i].g.n} ELSE slip
  /\ Done(i)
  /\ UNCHANGED <<clock, up, broken, mem, timer, file, made, off>>

\* Ends found at startup are announced only if they are removed from the file.
FinishClean(i) ==
  /\ Ended(i, "clean")
  /\ up' = "up"
  /\ said' = IF op[i].ph = "saved" THEN Announced(op[i].due) ELSE said
  /\ Done(i)
  /\ UNCHANGED <<clock, broken, mem, timer, file, made, slip, off>>

-----------------------------------------------------------------------------
Runs(i) ==
  \/ BeginNothing(i) \/ BeginOn(i) \/ BeginOff(i) \/ BeginExpire(i) \/ BeginClean(i)
  \/ FinishOn(i) \/ FinishOff(i) \/ FinishExpire(i) \/ FinishClean(i)
  \/ \E ok \in BOOLEAN : Write(i, ok)

Next ==
  \/ Stop \/ Tick
  \/ \E i \in Ops : Start(i) \/ Runs(i)
  \/ \E i \in Ops, s \in Sessions :
       \/ Fire(i, s) \/ RequestOff(i, s) \/ SessionEnds(i, s)
       \/ \E len \in Lengths : RequestOn(i, s, len)

\* Time passes, a timer that is due fires, and a running operation goes on.
Fairness ==
  /\ WF_vars(Tick)
  /\ \A s \in Sessions : SF_vars(\E i \in Ops : Fire(i, s))
  /\ \A i \in Ops : WF_vars(Runs(i))

Spec == Init /\ [][Next]_vars
FairSpec == Spec /\ Fairness

-----------------------------------------------------------------------------
(* Properties.                                                             *)

\* shouldAutoApprove: a yes/no approval of session s passes now.
Passes(s) == up # "down" /\ ~broken /\ mem[s] # None /\ mem[s].until > clock

(* Once a phone has been told that auto-approve is off, nothing passes by  *)
(* itself before it is turned on again, and no restart brings it back      *)
(* (autoApprove.ts setAutoApprove: "the screen says turned off yet it      *)
(* keeps passing" is the worst form).                                      *)
OffIsOff ==
  \A s \in Sessions : off[s] =>
    ~Passes(s) /\ (file # Broken => file[s] = None)

(* What passes approvals is saved, with the same end: a restart neither    *)
(* forgets it nor prolongs it.  Only while an operation on the session is  *)
(* under way may the file be ahead of the memory.                          *)
SavedBeforeUsed ==
  \A s \in Sessions : mem[s] # None =>
    \/ file # Broken /\ file[s] = mem[s]
    \/ \E i \in Ops : op[i] # None /\ op[i].k = "on" /\ op[i].s = s /\ op[i].ph = "saved"

(* The end of an entry is announced at most once (autoApprove.ts load: "the *)
(* notification is late, but only sent once").                             *)
AnnouncedOnce == \A n \in 1..MaxGrants : said[n] <= 1

(* The same of every entry whose timer could save its end: a restart, or   *)
(* an end that was found at startup and could not be saved, never makes an *)
(* end be told twice.                                                      *)
AnnouncedOnceIfSaved == \A n \in (1..MaxGrants) \ slip : said[n] <= 1

(* What phones are told of it is true.                                     *)
AutoAsTold == OffIsOff /\ SavedBeforeUsed /\ AnnouncedOnceIfSaved

(* An entry leaves the memory by itself: no interleaving of toggles, ends, *)
(* failures and restarts leaves one without its timer.                     *)
Held(s) == mem[s] # None
EntryLeaves == \A s \in Sessions : []<>~Held(s)

=============================================================================
