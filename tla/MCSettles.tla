----------------------------- MODULE MCSettles -----------------------------
(* What must come to an end, side by side: auto-approve, an approval that  *)
(* waits, the line to the relay, and a ticket that was paid for.  A        *)
(* behaviour is one of one part; the other parts share the variables v.    *)
EXTENDS RelayKeeper, Sequences

CONSTANTS s, key, x1, x2, b1, b2, None, List, Broken

VARIABLES part, v1, v2, v3, v4, v5, v6, v7, v8, v9, v10, v11, v12, v13, v14, v15, v16, v17, v18

v == <<v1, v2, v3, v4, v5, v6, v7, v8, v9, v10, v11, v12, v13, v14, v15, v16, v17, v18>>

Auto == INSTANCE AutoApprove WITH
  Sessions <- {s}, Ops <- {x1, x2}, Lengths <- {1, 2}, MaxTime <- 2, MaxGrants <- 2, clock <- v1,
  up <- v2, broken <- v3, mem <- v4, timer <- v5, file <- v6, queue <- v7, op <- v8, made <- v9,
  said <- v10, slip <- v11, off <- v12

Asks == INSTANCE Approvals WITH
  Calls <- {1}, Keys <- {key}, KeyMaps <- {[i \in {1} |-> key]}, SubKeys <- {key}, Requests <- {x1, x2},
  keyOf <- v1, call <- v2, uses <- v3, results <- v4, entry <- v5, of <- v6, req <- v7, old <- v8,
  quiet <- v9, tm <- v10, promoted <- v11, cont <- v12, items <- v13, listing <- v14,
  label <- v15, notified <- v16, seen <- v17, telling <- v18

MCSockets == {x1, x2}

Account == INSTANCE AgentAccount WITH
  Creds <- {b1, b2}, Tasks <- {x1, x2}, Scenes <- {{"pay", "line"}}, MaxWrites <- 2, scene <- v1,
  file <- v2, mt <- v3, copy <- v4, acct <- v5, lic <- v6, mtime <- v7, generation <- v8,
  task <- v9, valid <- v10, plus <- v11, line <- v12, held <- v13, writes <- v14

NoneOfV ==
  /\ v1 = 0 /\ v2 = 0 /\ v3 = 0 /\ v4 = 0 /\ v5 = 0 /\ v6 = 0 /\ v7 = 0 /\ v8 = 0 /\ v9 = 0
  /\ v10 = 0 /\ v11 = 0 /\ v12 = 0 /\ v13 = 0 /\ v14 = 0 /\ v15 = 0 /\ v16 = 0 /\ v17 = 0 /\ v18 = 0

MCInit ==
  /\ Init
  /\ \/ part = "auto" /\ Auto!Init /\ v13 = 0 /\ v14 = 0 /\ v15 = 0 /\ v16 = 0 /\ v17 = 0 /\ v18 = 0
     \/ part = "asks" /\ Asks!Init
     \/ part = "relay" /\ NoneOfV
     \/ part = "account" /\ Account!Init /\ v15 = 0 /\ v16 = 0 /\ v17 = 0 /\ v18 = 0

InAuto(A) == part = "auto" /\ A /\ UNCHANGED <<part, vars, v13, v14, v15, v16, v17, v18>>
InAsks(A) == part = "asks" /\ A /\ UNCHANGED <<part, vars>>
InRelay(A) == part = "relay" /\ A /\ UNCHANGED <<part, v>>
InAccount(A) == part = "account" /\ A /\ UNCHANGED <<part, vars, v15, v16, v17, v18>>

MCNext ==
  \/ InAuto(Auto!Next)
  \/ InAsks(Asks!Next)
  \/ InRelay(Next)
  \/ InAccount(Account!Next)

(* The fairness of each part.  A behaviour is one of one part, so that the *)
(* n-th conditions of all parts share a formula.                           *)
X(n) == IF n % 2 = 1 THEN x1 ELSE x2
AutoWeak(n) == \/ n = 1 /\ Auto!Tick
               \/ n \in {2, 3} /\ Auto!Runs(X(n))
AsksWeak(n) == \/ n \in {1, 2} /\ Asks!Continue(X(n))
               \/ n \in {3, 4} /\ Asks!TimerFires(X(n))
               \/ n \in {5, 6} /\ Asks!Promotes(X(n))
               \/ n = 7 /\ Asks!WriteUse(1)
               \/ n = 8 /\ Asks!WriteResult(1)
               \/ n = 9 /\ Asks!ListBegins
               \/ n = 10 /\ Asks!ListReturns
               \/ n \in {11, 12} /\ Asks!Tells(X(n))
RelayWeak(n) == \/ n \in {1, 2} /\ Beat(X(n))
                \/ n = 3 /\ \E w \in {x1, x2} : Connect(w)
AccountWeak(n) == \/ n \in {1, 2} /\ Account!Step(X(n))
                  \/ n = 3 /\ \E t \in {x1, x2} : Account!Fetch(t)
                  \/ n = 4 /\ \E t \in {x1, x2} : Account!Watch(t)
AutoStrong(n) == n = 1 /\ \E i \in {x1, x2} : Auto!Fire(i, s)
AsksStrong(n) == n \in 1..3 /\ Asks!SweepFile(<<x1, x2, List>>[n], key, TRUE)
AccountStrong(n) == \/ n \in {1, 2} /\ Account!Body(X(n))
                    \/ n \in {3, 4} /\ Account!Answer(X(n))

MCFair ==
  /\ \A n \in 1..12 : WF_<<part, v, vars>>(\/ InAuto(AutoWeak(n)) \/ InAsks(AsksWeak(n))
                                    \/ InRelay(RelayWeak(n)) \/ InAccount(AccountWeak(n)))
  /\ \A n \in 1..4 : SF_<<part, v, vars>>(\/ InAuto(AutoStrong(n)) \/ InAsks(AsksStrong(n))
                                   \/ InAccount(AccountStrong(n)))

MCSpec == MCInit /\ [][MCNext]_<<part, v, vars>> /\ MCFair

\* No action of the approvals reads label, and no property here does.
MCView ==
  IF part # "asks" THEN <<part, v, vars>>
  ELSE <<part, [v EXCEPT ![6] = [r \in {x1, x2} |-> IF v7[r] = "idle" THEN 0 ELSE v6[r]],
                         ![15] = FALSE], vars>>

-----------------------------------------------------------------------------
\* The announcement of a request begins at most once, and while it waits and can
\* be listed (routes/permission.ts).
AnnouncedWhenListed == [][part = "asks" => Asks!AnnouncesListed]_<<part, v, vars>>

\* Nothing hangs for good: an entry of auto-approve that is over leaves the
\* memory (autoApprove.ts); a request held quiet is announced or settled, and
\* swept once its result is written (permission.ts); a line over which nothing
\* gets through is given up (relayLink.ts);
\* who has paid gets the limits of Plus at the relay (account.ts).  Requests,
\* sockets and sign-ins are alike: one stands for all.
Owed == \/ part = "auto" /\ Auto!Held(s)
        \/ part = "asks" /\ Asks!Hangs(x1)
        \/ part = "relay" /\ DeadButPinged(x1)
        \/ part = "account" /\ Account!PaidInVain(b1)
NothingHangs == []<>~Owed
=============================================================================
