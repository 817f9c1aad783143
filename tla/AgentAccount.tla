---------------------------- MODULE AgentAccount ----------------------------
(***************************************************************************)
(* The account on the agent (agent/src/account.ts): the sign-in that nyan  *)
(* login writes to account.json, the usage ticket that is fetched for it   *)
(* every hour and copied to license.json, and the hand-over of the ticket  *)
(* to the relay (Licensing in relayLink.ts).                               *)
(*                                                                         *)
(*   - Fetches, and looks at account.json, run at the same time, and may   *)
(*     be overtaken by a new sign-in at each await.                        *)
(*   - The agent may be restarted at any time.                             *)
(*                                                                         *)
(* A step runs from one await to the next; a stat is one step with what is *)
(* done with its answer.  A ticket is the sign-in it was issued for and    *)
(* the plan it grants.  Tickets do not expire here (24 hours), and a       *)
(* broken account.json counts as a missing one.                            *)
(***************************************************************************)
EXTENDS Naturals

CONSTANTS
  Creds,      \* sign-ins that nyan login may write
  None,
  Tasks,      \* what may be under way at the same time in one process
  MaxWrites,  \* bound: account.json is written so often
  Scenes      \* what a behaviour may show: sign, removed, pay, line, restart (once)

VARIABLES
  scene,
  file,       \* account.json: a sign-in, or None
  mt,         \* its mtime; 0 stands for a file that is missing
  copy,       \* license.json
  acct, lic, mtime, generation,   \* state and generation of the process
  task,       \* task[t]: what t is about, and where it is
  valid,      \* valid[c]: the machine is in the account (at the account service)
  plus,       \* plus[c]: the account has paid
  line,       \* the relay link: down, up, listens (it said want)
  held,       \* the ticket the relay was given on this line
  writes      \* of account.json

diskVars == <<file, mt, copy>>
memVars == <<acct, lic, mtime, generation>>
envVars == <<scene, valid, plus, writes>>
lineVars == <<line, held>>
vars == <<diskVars, memVars, task, envVars, lineVars>>

Tickets == [cred : Creds, plan : {"free", "plus"}]
Idle == [pc |-> "idle", cred |-> None, gen |-> 0, got |-> None, now |-> FALSE]

TypeOK ==
  /\ file \in Creds \cup {None} /\ mt \in 0..MaxWrites + 1 /\ copy \in Tickets \cup {None}
  /\ acct \in Creds \cup {None} /\ lic \in Tickets \cup {None} /\ mtime \in 0..MaxWrites + 1
  /\ generation \in Nat
  /\ line \in {"down", "up", "listens"} /\ held \in Tickets \cup {None}

Init ==
  /\ file \in Creds \cup {None} /\ mt = (IF file = None THEN 0 ELSE 1) /\ copy = None
  /\ acct = None /\ lic = None /\ mtime = 0 /\ generation = 0
  /\ \E t \in Tasks : task = [u \in Tasks |-> IF u = t THEN [Idle EXCEPT !.pc = "boot"] ELSE Idle]
  /\ valid = [c \in Creds |-> TRUE] /\ plus = [c \in Creds |-> FALSE]
  /\ line = "down" /\ held = None /\ writes = 0 /\ scene \in Scenes

Go(t, pc) == task' = [task EXCEPT ![t].pc = pc]
End(t) == task' = [task EXCEPT ![t] = Idle]

\* sendLicense of each listener: the ticket held now, if any.
Given(l) == IF line = "listens" /\ l # None THEN l ELSE held

-----------------------------------------------------------------------------
(* loadAccount, loadLicense.                                               *)

\* What was read of account.json is taken over; another sign-in drops the
\* ticket of the last one.
Applied(c) ==
  /\ acct' = c
  /\ generation' = IF c = acct THEN generation ELSE generation + 1
  /\ lic' = IF c = acct THEN lic ELSE None

\* A fault: the copy of the ticket is not compared with the sign-in.
OwnLicenseFault(l) == l # None
\* ownLicense: the copy belongs to the current sign-in.
OwnLicense(l) == l # None /\ l.cred = acct

\* startAccount: account.json, then license.json, then the mtime.
Boot(t) ==
  /\ \/ /\ task[t].pc = "boot" /\ task' = [task EXCEPT ![t].pc = "booting", ![t].got = file]
        /\ UNCHANGED memVars
     \/ /\ task[t].pc = "booting" /\ Applied(task[t].got) /\ Go(t, "copy") /\ UNCHANGED mtime
     \/ /\ task[t].pc = "copy" /\ Go(t, "copying")
        /\ lic' = IF OwnLicense(copy) /\ lic = None THEN copy ELSE lic
        /\ UNCHANGED <<acct, mtime, generation>>
     \/ /\ task[t].pc = "copying" /\ mtime' = mt /\ Go(t, "fetch")
        /\ UNCHANGED <<acct, lic, generation>>
  /\ UNCHANGED <<diskVars, envVars, lineVars>>

-----------------------------------------------------------------------------
(* refreshLicense.                                                         *)

Booted == \A t \in Tasks : task[t].pc \notin {"boot", "booting", "copy", "copying"}

\* A fault: a fetch does not know the sign-in it was for.
StaleFault(t) == FALSE
\* Signed in anew since the fetch began.
Stale(t) == task[t].gen # generation

\* A timer, or a look at account.json, starts a fetch.
Fetch(t) ==
  /\ \/ task[t].pc = "fetch"
     \/ task[t].pc = "idle" /\ Booted
  /\ IF acct = None THEN task[t].pc = "fetch" /\ End(t)
     ELSE task' = [task EXCEPT ![t] = [Idle EXCEPT !.pc = "asked", !.cred = acct, !.gen = generation]]
  /\ UNCHANGED <<diskVars, memVars, envVars, lineVars>>

\* The account service answers: a ticket, or 401 (409).
Answer(t) ==
  /\ task[t].pc = "asked"
  /\ IF valid[task[t].cred]
     THEN task' = [task EXCEPT ![t].pc = "body", ![t].got =
                     [cred |-> task[t].cred, plan |-> IF plus[task[t].cred] THEN "plus" ELSE "free"]]
     ELSE Go(t, "refused")
  /\ UNCHANGED <<diskVars, memVars, envVars, lineVars>>

\* No answer, or one that is no ticket: the ticket on hand is kept.
NoAnswer(t) ==
  /\ task[t].pc = "asked" /\ End(t)
  /\ UNCHANGED <<diskVars, memVars, envVars, lineVars>>

\* 401: the ticket is dropped, then its copy.
Refused(t) ==
  /\ task[t].pc = "refused"
  /\ IF Stale(t) THEN End(t) /\ UNCHANGED memVars
     ELSE /\ lic' = None /\ Go(t, "unlink")
          /\ UNCHANGED <<acct, mtime, generation>>
  /\ UNCHANGED <<diskVars, envVars, lineVars>>

Unlink(t) ==
  /\ task[t].pc = "unlink" /\ copy' = None /\ End(t)
  /\ held' = IF Stale(t) THEN held ELSE Given(lic)
  /\ UNCHANGED <<file, mt, memVars, envVars, line>>

\* The body of a ticket has come.
Body(t) ==
  /\ task[t].pc = "body"
  /\ IF Stale(t) THEN End(t) /\ UNCHANGED memVars
     ELSE /\ lic' = task[t].got /\ task' = [task EXCEPT ![t].pc = "write", ![t].now = (lic # task[t].got)]
          /\ UNCHANGED <<acct, mtime, generation>>
  /\ UNCHANGED <<diskVars, envVars, lineVars>>

\* A fault: the listeners are told only of the first ticket.
ToldFault(t) == task[t].now /\ held = None /\ ~Stale(t)
\* The listeners are told of a ticket that is another one than before.
Told(t) == task[t].now /\ ~Stale(t)

\* The copy is written, or cannot be; then the listeners are told of a change.
Write(t) ==
  /\ task[t].pc = "write" /\ copy' \in {copy, task[t].got}
  /\ held' = IF Told(t) THEN Given(lic) ELSE held
  /\ End(t) /\ UNCHANGED <<file, mt, memVars, envVars, line>>

-----------------------------------------------------------------------------
(* watchAccount, every minute, and refreshAccountNow.                      *)

Watch(t) ==
  /\ task[t].pc = "idle"
  /\ \/ /\ Booted /\ mt # mtime /\ mtime' = mt      \* the timer: the file has changed
        /\ task' = [task EXCEPT ![t] = [Idle EXCEPT !.pc = "read"]]
     \/ /\ mtime' = 0                              \* a request
        /\ task' = [task EXCEPT ![t] = [Idle EXCEPT !.pc = "stat", !.now = TRUE]]
  /\ UNCHANGED <<diskVars, acct, lic, generation, envVars, lineVars>>

StatNow(t) ==
  /\ task[t].pc = "stat" /\ mtime' = mt
  /\ Go(t, IF mt = mtime THEN "fetch" ELSE "read")
  /\ UNCHANGED <<diskVars, acct, lic, generation, envVars, lineVars>>

\* account.json is read; the sign-in before is remembered.
Read(t) ==
  /\ task[t].pc = "read" /\ task' = [task EXCEPT ![t].pc = "reading", ![t].got = file, ![t].cred = acct]
  /\ UNCHANGED <<diskVars, memVars, envVars, lineVars>>

\* Another sign-in: the listeners are told, and a ticket is fetched.
Load(t) ==
  /\ task[t].pc = "reading" /\ Applied(task[t].got) /\ UNCHANGED mtime
  /\ LET same == acct' = task[t].cred
     IN /\ IF same /\ ~task[t].now THEN End(t) ELSE Go(t, "fetch")
        /\ held' = IF same THEN held ELSE Given(lic')
  /\ UNCHANGED <<diskVars, envVars, line>>

-----------------------------------------------------------------------------
(* Around it.                                                              *)

\* nyan login, nyan logout.
SignIn(c) ==
  /\ "sign" \in scene /\ writes < MaxWrites /\ writes' = writes + 1 /\ c # file
  /\ file' = c /\ mt' = IF c = None THEN 0 ELSE writes + 2
  /\ UNCHANGED <<copy, memVars, scene, task, valid, plus, lineVars>>

\* At the account service: the machine is removed, the account pays.
Removed(c) ==
  /\ "removed" \in scene /\ valid[c] /\ valid' = [valid EXCEPT ![c] = FALSE]
  /\ UNCHANGED <<diskVars, memVars, scene, task, plus, writes, lineVars>>

Pays(c) ==
  /\ "pay" \in scene /\ ~plus[c] /\ plus' = [plus EXCEPT ![c] = TRUE]
  /\ UNCHANGED <<diskVars, memVars, scene, task, valid, writes, lineVars>>

\* The relay link: it comes up, the relay says that it takes tickets, and it
\* falls (RelayKeeper).
LineUp ==
  /\ "line" \in scene /\ line = "down" /\ line' = "up" /\ UNCHANGED <<diskVars, memVars, task, envVars, held>>

LineWants ==
  /\ line = "up" /\ line' = "listens" /\ held' = IF lic # None THEN lic ELSE held
  /\ UNCHANGED <<diskVars, memVars, task, envVars>>

LineDown ==
  /\ line # "down" /\ line' = "down" /\ held' = None
  /\ UNCHANGED <<diskVars, memVars, task, envVars>>

Restart ==
  /\ "restart" \in scene /\ scene' = scene \ {"restart"}
  /\ acct' = None /\ lic' = None /\ mtime' = 0 /\ generation' = 0
  /\ \E t \in Tasks : task' = [u \in Tasks |-> IF u = t THEN [Idle EXCEPT !.pc = "boot"] ELSE Idle]
  /\ line' = "down" /\ held' = None
  /\ UNCHANGED <<diskVars, valid, plus, writes>>

-----------------------------------------------------------------------------
Step(t) == Boot(t) \/ Answer(t) \/ Refused(t) \/ Unlink(t) \/ Body(t) \/ Write(t)
           \/ StatNow(t) \/ Read(t) \/ Load(t) \/ (task[t].pc = "fetch" /\ Fetch(t))

Next ==
  \/ \E t \in Tasks : Step(t) \/ Fetch(t) \/ NoAnswer(t) \/ Watch(t)
  \/ \E c \in Creds : SignIn(c) \/ Removed(c) \/ Pays(c)
  \/ SignIn(None) \/ LineUp \/ LineWants \/ LineDown \/ Restart

Spec == Init /\ [][Next]_vars

\* Timers fire and file operations end; the account service is not down for
\* good.
FairSpec ==
  /\ Spec
  /\ \A t \in Tasks : WF_vars(Step(t)) /\ SF_vars(Body(t)) /\ SF_vars(Answer(t)) 
  /\ WF_vars(\E t \in Tasks : Fetch(t)) /\ WF_vars(\E t \in Tasks : Watch(t))

-----------------------------------------------------------------------------
(* Properties.                                                             *)

\* The ticket in use is that of the present sign-in: nobody is shown as B
\* while the quota of A is used, whatever overtakes what, and across restarts
\* (account.ts, "generation" and LicenseFile).
OwnTicket == lic # None => lic.cred = acct

\* Who has paid gets the limits of Plus at the relay, without doing anything.
PaidInVain(c) == /\ acct = c /\ valid[c] /\ plus[c] /\ line = "listens"
                 /\ held # [cred |-> c, plan |-> "plus"]
PaidReachesRelay == \A c \in Creds : []<>~PaidInVain(c)

\* "After nyan login / nyan logout it is picked up within a minute".
SignInSeen == \A c \in Creds \cup {None} : <>[](file = c) => <>(acct = c)

=============================================================================
