-------------------------------- MODULE Push --------------------------------
(***************************************************************************)
(* Notifications of one phone and one agent: the agent's key (vapid.json)  *)
(* and subscriptions (subscriptions.json) in agent/src/push.ts, that of    *)
(* the browser, and the steps that bring the two together                  *)
(* (web/src/ui/pushScopes.ts, pushExec.ts, PushPanel.tsx).                 *)
(*                                                                         *)
(*   - Changes of the subscriptions wait in one queue at the agent; each   *)
(*     reads the file and then writes it.                                  *)
(*   - Tabs, and presses in one tab, take turns by a lock of the browser.  *)
(*   - Any request may fail, and its work at the agent be done later.      *)
(*   - The agent may stop at any time, and its key be lost meanwhile.      *)
(*                                                                         *)
(* A browser without locks, a subscription the browser does not give up,   *)
(* files that cannot be read and the language are left out.                *)
(***************************************************************************)
EXTENDS Naturals, Sequences

CONSTANTS
  Tasks,      \* what may be under way at the same time in the browser
  Me, Other,  \* devices: this phone, and one that only registers
  None,
  MaxKeys, MaxEps, MaxJobs  \* bounds: keys made, endpoints, jobs that wait

VARIABLES
  vapidFile, vapidCache,   \* the key on disk, and the one in use; 0 is none
  making,     \* ensureVapid: no, writes (a new key), drops (old subscriptions)
  keys,       \* keys made so far
  subs,       \* the subscriptions file
  subsWriteChain,  \* jobs of the agent; the first is under way
  read,       \* what the first job has read, or None
  sending,    \* the subscriptions a notification goes to, or None
  up,
  browser,    \* the browser's subscription, or None
  off,        \* notifications were turned off here
  eps,        \* endpoints so far
  lock,       \* the task that has the lock, or None
  task,
  synced      \* a synchronisation ended well, and nothing was changed since

agentVars == <<vapidFile, vapidCache, making, keys, subs, subsWriteChain, read, sending, up>>
vars == <<agentVars, browser, off, eps, lock, task, synced>>

PushAssumption == Me # Other /\ None \notin Tasks /\ None \notin [ep : Nat, key : Nat]

NoTask == [kind |-> "none", pc |-> "idle", have |-> None, registered |-> FALSE, key |-> 0, lost |-> FALSE]

Init ==
  /\ vapidFile = 0 /\ vapidCache = 0 /\ making = "no" /\ keys = 0
  /\ subs = {} /\ subsWriteChain = <<>> /\ read = None /\ sending = None /\ up = TRUE
  /\ browser = None /\ off = FALSE /\ eps = 0 /\ lock = None
  /\ task = [t \in Tasks |-> NoTask] /\ synced = FALSE

TypeOK ==
  /\ vapidFile \in 0..MaxKeys /\ vapidCache \in 0..MaxKeys /\ making \in {"no", "writes", "drops"}
  /\ \A s \in subs : s.dev \in {Me, Other} /\ s.ep \in 0..MaxEps
  /\ Len(subsWriteChain) <= MaxJobs + 1
  /\ browser # None => browser.ep \in 1..eps
  /\ lock \in Tasks \cup {None}

-----------------------------------------------------------------------------
(* The agent.                                                              *)

\* A fault: the key is used before the subscriptions of the old one are gone.
PublishedFault == keys + 1
\* Nobody sees a new key until then.
Published == vapidCache

\* ensureVapid, for a status or a notification.
EnsureVapid ==
  /\ up /\ vapidCache = 0 /\ making = "no"
  /\ sending # None \/ \E t \in Tasks : task[t].pc = "key"
  /\ IF vapidFile # 0
     THEN vapidCache' = vapidFile /\ UNCHANGED <<vapidFile, keys, making, subsWriteChain>>
     ELSE /\ keys < MaxKeys /\ keys' = keys + 1
          /\ making' = "writes" /\ vapidCache' = Published
          /\ UNCHANGED <<vapidFile, subsWriteChain>>
  /\ UNCHANGED <<subs, read, sending, up, browser, off, eps, lock, task, synced>>

\* loadOrCreateVapid: the new key is saved, then the subscriptions of the
\* old one are dropped.
KeySaved ==
  /\ up /\ making = "writes" /\ making' = "drops" /\ vapidFile' = keys
  /\ subsWriteChain' = Append(subsWriteChain, [job |-> "drop", by |-> None])
  /\ UNCHANGED <<vapidCache, keys, subs, read, sending, up, browser, off, eps, lock, task, synced>>

\* serializeSubsWrite
JobReads ==
  /\ up /\ read = None /\ subsWriteChain # <<>> /\ read' = subs
  /\ UNCHANGED <<vapidFile, vapidCache, making, keys, subs, subsWriteChain, sending, up,
                 browser, off, eps, lock, task, synced>>

\* addSubscription: one for each device.
Replaced(s, sub) == s.dev = sub.dev

\* The list that a job writes.
After(list, j) ==
  CASE j.job = "add"    -> {s \in list : ~Replaced(s, j.sub)} \cup {j.sub}
    [] j.job = "remove" -> {s \in list : s.ep # j.ep}
    [] j.job = "prune"  -> {s \in list : s.ep \notin j.dead}
    [] j.job = "drop"   -> {}

\* The answer of the job wakes who waits for it.
Answered(t) ==
  [task EXCEPT ![t].pc = CASE @ = "adding" -> "added" [] @ = "removing" -> "end" [] @ = "leaving" -> "left"]

JobWrites ==
  /\ up /\ read # None
  /\ LET j == Head(subsWriteChain)
     IN /\ subs' = After(read, j)
        /\ task' = IF j.by = None THEN task ELSE Answered(j.by)
        /\ IF j.job = "drop" THEN making' = "no" /\ vapidCache' = vapidFile
           ELSE UNCHANGED <<making, vapidCache>>
  /\ read' = None /\ subsWriteChain' = Tail(subsWriteChain)
  /\ UNCHANGED <<vapidFile, keys, sending, up, browser, off, eps, lock, synced>>

Enqueue(j) == up /\ Len(subsWriteChain) < MaxJobs /\ subsWriteChain' = Append(subsWriteChain, j)

\* sendToAll: the list is read, then the key is awaited.
Send ==
  /\ up /\ sending = None /\ subs # {} /\ sending' = subs
  /\ UNCHANGED <<vapidFile, vapidCache, making, keys, subs, subsWriteChain, read, up, browser, off, eps, lock, task, synced>>

\* Endpoints given up answer 410 and are taken out.
Dead == {s.ep : s \in {u \in sending : u.dev = Me /\ (browser = None \/ browser.ep # u.ep)}}

Sent ==
  /\ up /\ sending # None /\ vapidCache # 0 /\ sending' = None
  /\ IF Dead = {} THEN UNCHANGED subsWriteChain
     ELSE Enqueue([job |-> "prune", by |-> None, dead |-> Dead])
  /\ UNCHANGED <<vapidFile, vapidCache, making, keys, subs, read, up, browser, off, eps, lock, task, synced>>

\* Another phone registers.
OtherRegisters ==
  /\ \A s \in subs : s.dev # Other
  /\ Enqueue([job |-> "add", by |-> None, sub |-> [dev |-> Other, ep |-> 0, key |-> vapidFile]])
  /\ UNCHANGED <<vapidFile, vapidCache, making, keys, subs, read, sending, up, browser, off, eps, lock, task, synced>>

Stop ==
  /\ up /\ up' = FALSE
  /\ vapidCache' = 0 /\ making' = "no" /\ subsWriteChain' = <<>> /\ read' = None /\ sending' = None
  /\ UNCHANGED <<vapidFile, keys, subs, browser, off, eps, lock, task, synced>>

\* vapid.json may be gone when it starts again.
Start ==
  /\ ~up /\ up' = TRUE
  /\ \/ UNCHANGED <<vapidFile, synced, task>>
     \/ /\ vapidFile' = 0 /\ synced' = FALSE
        /\ task' = [t \in Tasks |-> [task[t] EXCEPT !.lost = task[t].pc \notin {"idle", "lock"}]]
  /\ UNCHANGED <<vapidCache, making, keys, subs, subsWriteChain, read, sending, browser, off, eps, lock>>

-----------------------------------------------------------------------------
(* The phone.                                                              *)

End(t, ok) ==
  /\ task' = [task EXCEPT ![t] = NoTask] /\ lock' = None
  /\ synced' = IF ok /\ task[t].kind = "sync" THEN ~off /\ ~task[t].lost ELSE synced
Go(t, pc) == task' = [task EXCEPT ![t].pc = pc] /\ UNCHANGED <<lock, synced>>

Stopped == off

\* The app is opened (press = FALSE), or notifications are turned on.
Open(t, press) ==
  /\ task[t].kind = "none" /\ task' = [task EXCEPT ![t] = [NoTask EXCEPT !.kind = "sync", !.pc = "lock"]]
  /\ off' = (off /\ ~press)
  /\ UNCHANGED <<agentVars, browser, eps, lock, synced>>

\* disable: first of all it is noted.
Disable(t) ==
  /\ task[t].kind = "none" /\ task' = [task EXCEPT ![t] = [NoTask EXCEPT !.kind = "stop", !.pc = "lock"]]
  /\ off' = TRUE /\ synced' = FALSE
  /\ UNCHANGED <<agentVars, browser, eps, lock>>

\* The lock is had: syncSubscription, stopAll.
Begin(t) ==
  /\ task[t].pc = "lock" /\ lock = None
  /\ IF (task[t].kind = "sync" /\ Stopped) \/ (task[t].kind = "stop" /\ browser = None)
     THEN End(t, FALSE)
     ELSE /\ task' = [task EXCEPT ![t].have = browser,
                                  ![t].pc = IF task[t].kind = "sync" THEN "status" ELSE "leave"]
          /\ lock' = t /\ synced' = FALSE
  /\ UNCHANGED <<agentVars, browser, off, eps>>

\* pushStatus at the agent: the subscriptions first, then the key.
Status(t) ==
  /\ task[t].pc = "status" /\ up
  /\ task' = [task EXCEPT ![t].pc = "key",
                ![t].registered = task[t].have # None /\ \E s \in subs : s.dev = Me /\ s.ep = task[t].have.ep]
  /\ UNCHANGED <<agentVars, browser, off, eps, lock, synced>>

\* planPush
Plan(t) ==
  /\ task[t].pc = "key" /\ up /\ vapidCache # 0
  /\ IF task[t].have = None \/ task[t].have.key # vapidCache
     THEN task' = [task EXCEPT ![t].pc = "subscribe", ![t].key = vapidCache] /\ UNCHANGED <<lock, synced>>
     ELSE IF task[t].registered THEN End(t, TRUE) ELSE Go(t, "register")
  /\ UNCHANGED <<agentVars, browser, off, eps>>

\* deps.subscribe gives up the subscription there is, and may fail then.
Subscribe(t) ==
  /\ task[t].pc = "subscribe"
  /\ \/ Stopped /\ End(t, TRUE) /\ UNCHANGED <<browser, eps>>
     \/ ~Stopped /\ browser' = None /\ End(t, FALSE) /\ UNCHANGED eps
     \/ /\ ~Stopped /\ eps < MaxEps /\ eps' = eps + 1
        /\ browser' = [ep |-> eps', key |-> task[t].key] /\ Go(t, "register")
  /\ UNCHANGED <<agentVars, off>>

\* Turned off meanwhile: what was just made is given up.
Register(t) ==
  /\ task[t].pc = "register"
  /\ IF Stopped
     THEN /\ browser' = (IF browser = task[t].have THEN browser ELSE None)
          /\ End(t, TRUE) /\ UNCHANGED agentVars
     ELSE /\ Enqueue([job |-> "add", by |-> t, sub |-> [dev |-> Me, ep |-> browser.ep, key |-> browser.key]])
          /\ Go(t, "adding")
          /\ UNCHANGED <<vapidFile, vapidCache, making, keys, subs, read, sending, up, browser>>
  /\ UNCHANGED <<off, eps>>

\* Registered: the subscription it replaces is taken out.
Added(t) ==
  /\ task[t].pc = "added"
  /\ IF task[t].have \in {None, browser} THEN End(t, TRUE) /\ UNCHANGED subsWriteChain
     ELSE Enqueue([job |-> "remove", by |-> t, ep |-> task[t].have.ep]) /\ Go(t, "removing")
  /\ UNCHANGED <<vapidFile, vapidCache, making, keys, subs, read, sending, up, browser, off, eps>>

Removed(t) ==
  /\ task[t].pc = "end" /\ End(t, TRUE) /\ UNCHANGED <<agentVars, browser, off, eps>>

\* dropScope: the agent is told, whether it hears it or not.
Leave(t) ==
  /\ task[t].pc = "leave"
  /\ Enqueue([job |-> "remove", by |-> t, ep |-> task[t].have.ep]) /\ Go(t, "leaving")
  /\ UNCHANGED <<vapidFile, vapidCache, making, keys, subs, read, sending, up, browser, off, eps>>

Left(t) ==
  /\ task[t].pc = "left" /\ browser' = None /\ End(t, TRUE)
  /\ UNCHANGED <<agentVars, off, eps>>

\* A request of t fails; what it asked for may still be done.
Fails(t) ==
  /\ subsWriteChain' = [i \in DOMAIN subsWriteChain |->
                          IF subsWriteChain[i].by = t THEN [subsWriteChain[i] EXCEPT !.by = None] ELSE subsWriteChain[i]]
  /\ \/ task[t].pc \in {"status", "key", "adding"} /\ End(t, FALSE)
     \/ task[t].pc = "register" /\ ~up /\ ~Stopped /\ End(t, FALSE)
     \/ task[t].pc = "removing" /\ End(t, TRUE)
     \/ task[t].pc = "added" /\ task[t].have \notin {None, browser} /\ ~up /\ End(t, TRUE)
     \/ task[t].pc = "leaving" /\ Go(t, "left")
     \/ task[t].pc = "leave" /\ ~up /\ Go(t, "left")
  /\ UNCHANGED <<vapidFile, vapidCache, making, keys, subs, read, sending, up, browser, off, eps>>

Next ==
  \/ EnsureVapid \/ KeySaved \/ JobReads \/ JobWrites \/ Send \/ Sent \/ OtherRegisters \/ Stop \/ Start
  \/ \E t \in Tasks :
       \/ Open(t, TRUE) \/ Open(t, FALSE) \/ Disable(t) \/ Begin(t) \/ Status(t) \/ Plan(t) \/ Subscribe(t)
       \/ Register(t) \/ Added(t) \/ Removed(t) \/ Leave(t) \/ Left(t) \/ Fails(t)

Spec == Init /\ [][Next]_vars

-----------------------------------------------------------------------------
(* Once notifications are turned off and nothing is under way any more,    *)
(* the browser has no subscription, whatever another tab was doing.        *)
StoppedStays ==
  off /\ (\A t \in Tasks : task[t].kind = "none") => browser = None

(* After a synchronisation that ended without a problem the agent can      *)
(* reach this phone: it has the subscription the browser has now, made for *)
(* the key it signs with - until notifications are turned off, the key is  *)
(* lost or the next one begins.                                            *)
SyncedDelivers ==
  synced => /\ browser # None /\ browser.key = vapidFile
            /\ [dev |-> Me, ep |-> browser.ep, key |-> browser.key] \in subs
=============================================================================
