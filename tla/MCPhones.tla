----------------------------- MODULE MCPhones -----------------------------
(* What the agent and its phones must never do: approvals, auto-approve,   *)
(* pairing, notifications, the account, and sends that wait.  A behaviour  *)
(* is one of one part; the other parts share the variables v.              *)
EXTENDS AutoApprove, FiniteSets, TLC

CONSTANTS s1, s2, o1, o2, ka, kb, x1, x2, c1, c2, b1, b2, Me, Other, List

\* Of approvals, of the account on the agent, of pairing and of notifications.
CONSTANTS Calls, Keys, KeyMaps, SubKeys, Requests
CONSTANTS Tasks, Creds, MaxWrites, Scenes
CONSTANTS Devices, Codes, MaxQueue, MaxStops, MaxAsks
CONSTANTS MaxKeys, MaxEps, MaxJobs

VARIABLES part, v1, v2, v3, v4, v5, v6, v7, v8, v9, v10, v11, v12, v13, v14, v15, v16, v17, v18

v == <<v1, v2, v3, v4, v5, v6, v7, v8, v9, v10, v11, v12, v13, v14, v15, v16, v17, v18>>

MCSessions == {s1, s2}
MCOps == {o1, o2}
MCLengths == {1, 2}
MCScenes == {{"sign", "restart"}, {"sign", "removed"}}

MCEqual == [c \in {1, 2} |-> ka]              \* two equal calls
MCTwo == [c \in {1, 2} |-> IF c = 1 THEN ka ELSE kb]
MCKeyMaps == {MCEqual, MCTwo}

Asks == INSTANCE Approvals WITH
  keyOf <- v1, call <- v2, uses <- v3, results <- v4, entry <- v5, of <- v6, req <- v7, old <- v8, quiet <- v9,
  tm <- v10, promoted <- v11, cont <- v12, items <- v13, listing <- v14, label <- v15,
  notified <- v16, seen <- v17, telling <- v18

Pair == INSTANCE Pairing WITH
  Keys <- Devices, disk <- v1, up <- v2, broken <- v3, devices <- v4, oneTimes <- v5,
  expired <- v6, settled <- v7, chain <- v8, phase <- v9, stops <- v10, asks <- v11, pc <- v12,
  said <- v13, phone <- v14, used <- v15, undone <- v16

Push == INSTANCE Push WITH
  vapidFile <- v1, vapidCache <- v2, making <- v3, keys <- v4, subs <- v5, subsWriteChain <- v6,
  read <- v7, sending <- v8, up <- v9, browser <- v10, off <- v11, eps <- v12, lock <- v13,
  task <- v14, synced <- v15

Account == INSTANCE AgentAccount WITH
  scene <- v1, file <- v2, mt <- v3, copy <- v4, acct <- v5, lic <- v6, mtime <- v7,
  generation <- v8, task <- v9, valid <- v10, plus <- v11, line <- v12, held <- v13, writes <- v14

\* A message "a" typed behind a draft on the PC is recorded as "b" is.
Send == INSTANCE Sends WITH
  Texts <- {"a", "b"}, Joined <- [x \in {"a", "b"} |-> {x, "b"}], MaxSends <- 2, MaxTyped <- 1,
  MaxLost <- 1, Slack <- 1, clock <- v1, records <- v2, shown <- v3, pending <- v4, used <- v5,
  said <- v6, replies <- v7, due <- v8, lost <- v9, takenBy <- v10

ASSUME ApprovalsAssumption == Asks!ApprovalsAssumption
ASSUME PairingAssumption == Pair!PairingAssumption
ASSUME PushAssumption == Push!PushAssumption

NoneOfV ==
  /\ v1 = 0 /\ v2 = 0 /\ v3 = 0 /\ v4 = 0 /\ v5 = 0 /\ v6 = 0 /\ v7 = 0 /\ v8 = 0 /\ v9 = 0
  /\ v10 = 0 /\ v11 = 0 /\ v12 = 0 /\ v13 = 0 /\ v14 = 0 /\ v15 = 0 /\ v16 = 0 /\ v17 = 0 /\ v18 = 0

MCInit ==
  /\ Init
  /\ \/ part = "auto" /\ NoneOfV
     \/ /\ file = NoEntry
        /\ \/ part = "asks" /\ Asks!Init
           \/ part = "pair" /\ Pair!Init /\ v17 = 0 /\ v18 = 0
           \/ part = "push" /\ Push!Init /\ v16 = 0 /\ v17 = 0 /\ v18 = 0
           \/ part = "account" /\ Account!Init /\ v15 = 0 /\ v16 = 0 /\ v17 = 0 /\ v18 = 0
           \/ /\ part = "send" /\ Send!Init
              /\ v11 = 0 /\ v12 = 0 /\ v13 = 0 /\ v14 = 0 /\ v15 = 0 /\ v16 = 0 /\ v17 = 0 /\ v18 = 0

MCNext ==
  /\ UNCHANGED part
  /\ \/ part = "auto" /\ Next /\ UNCHANGED v
     \/ /\ UNCHANGED vars
        /\ \/ part = "asks" /\ Asks!Next
           \/ part = "pair" /\ Pair!Next /\ UNCHANGED <<v17, v18>>
           \/ part = "push" /\ Push!Next /\ UNCHANGED <<v16, v17, v18>>
           \/ part = "account" /\ Account!Next /\ UNCHANGED <<v15, v16, v17, v18>>
           \/ part = "send" /\ Send!Next /\ UNCHANGED <<v11, v12, v13, v14, v15, v16, v17, v18>>

MCSpec == MCInit /\ [][MCNext]_<<part, v, vars>>

MCSymmetry == Permutations({x1, x2}) \cup Permutations(Codes)

\* The variables of a part, the others being as they were in the initial state.
\* What is told to phones bears on no other action of the approvals, and on no
\* property here; nor does what was read for a request that waits no more.  A
\* generation of the account is only compared with the present one.
WaitsNow(r) == v7[r] = "waiting"
MCView ==
  CASE part = "auto" -> <<part, vars>>
    [] part = "asks" ->
         <<part, [v EXCEPT ![6] = [r \in Requests |-> IF v7[r] = "idle" THEN 0 ELSE v6[r]],
                           ![8] = [r \in Requests |-> IF WaitsNow(r) THEN v8[r] ELSE {}],
                           ![9] = [r \in Requests |-> IF WaitsNow(r) THEN v9[r] ELSE "no"],
                           ![16] = {}, ![18] = {}]>>
    [] part = "account" ->
         <<part, [v EXCEPT ![8] = 0, ![9] = [t \in Tasks |-> [v9[t] EXCEPT !.gen = IF @ = v8 THEN 1 ELSE 0]]]>>
    [] OTHER -> <<part, v>>

-----------------------------------------------------------------------------
\* Every request that waits can be answered under its key, and none that Claude
\* still waits for is swept away; a request is decided by a press on its own
\* card, and "needs attention" stays as long as one waits (permission.ts,
\* withGeneration; permissionSweep.ts).
WaitersKept ==
  /\ [](part = "asks" => Asks!WaitingIsPending /\ Asks!LiveNotDropped)
  /\ [][part = "asks" => Asks!PressesOnIt /\ Asks!KeepsLabel]_<<part, v, vars>>

\* The announcement of a request begins at most once, and while it waits and can
\* be listed (routes/permission.ts).
AnnouncedWhenListed == [][part = "asks" => Asks!AnnouncesListed]_<<part, v, vars>>

\* What a phone is told of its registration is true of devices.json (devices.ts),
\* and what nyan pair ends with is true of its code (pair.mjs).
PairedAsTold ==
  /\ [](part = "pair" => Pair!PhonesTold)
  /\ [][part = "pair" => Pair!TellsCodes]_<<part, v, vars>>

\* Notifications turned off on a phone stay off, and a synchronised browser is
\* sent what the agent sends (push.ts, PushPanel.tsx, pushExec.ts).
SubscribedAsAsked == part = "push" => Push!StoppedStays /\ Push!SyncedDelivers

\* The ticket in use is that of the present sign-in (account.ts, generation).
OwnTicket == part = "account" => Account!OwnTicket

\* A record clears one send (pending.ts), none that was sent after it was shown,
\* and what was recorded is not shown as unconfirmed for good.
OneEach == part = "send" => Send!OneEach /\ Send!NoneLeft
=============================================================================
