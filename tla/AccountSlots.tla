---------------------------- MODULE AccountSlots ----------------------------
(***************************************************************************)
(* Usage tickets of one account, from the account Worker to the rooms.     *)
(*                                                                         *)
(*   - The account Worker (account/src/app.ts) keeps a row per credential  *)
(*     ("passphrase", mid), binds it to one machine's key, issues tickets  *)
(*     for it and removes it.                                              *)
(*   - The account's ledger (relay/src/ledger.ts and the class Accounts of *)
(*     relay/src/worker.ts) knows the machines that hold a slot, in the    *)
(*     order they came, the credentials using each slot, and the numbers   *)
(*     of removed credentials.                                             *)
(*   - A machine's room (relay/src/room.ts, #onLicense and revokeLicense)  *)
(*     checks tickets, several at once, and runs on the one it applied.    *)
(*                                                                         *)
(* A removal goes: mark the row, record the number as rejected, take the   *)
(* ticket off the room, free the slot, delete the row.  Between any two of *)
(* these steps tickets are issued, sent, verified and claimed, the agent   *)
(* reconnects, other removals run, and each call may fail.                 *)
(*                                                                         *)
(* Simplifications:                                                        *)
(*   - A ticket is its credential and its limit of machines; issuing one   *)
(*     that is still valid renews it.  An expired ticket is as good as     *)
(*     none: the tag may still hold it, #paid() is false.                  *)
(*   - Two machines never register in the same millisecond.                *)
(*   - The record of a removed number is kept 25 hours and a ticket lives  *)
(*     24 hours: it lapses when no ticket of the number is valid and no    *)
(*     removal of it is in progress (a removal takes under 50 minutes).    *)
(*   - The caps LEDGER_MAX on machines and MIDS_MAX lie above any plan and *)
(*     any account's number of credentials, and are left out.              *)
(***************************************************************************)
EXTENDS Naturals, FiniteSets

CONSTANTS
  Machines,    \* room keys
  Mids,        \* credentials
  Home,        \* Home[m]: the machine credential m is used on
  Plans,       \* maxMachines of the plans
  None,
  Checks,      \* bound: tickets being checked at a time
  Removals,    \* bound: removals in progress at a time
  MaxClaims,   \* MAX_CLAIMS_IN_FLIGHT
  MaxRevoked,  \* LEDGER_MAX, for the removed numbers
  MaxTickets   \* bound: tickets an agent sends over one connection

SlotsAssumption ==
  /\ Home \in [Mids -> Machines]
  /\ Plans \subseteq Nat \ {0}
  /\ MaxClaims \in Nat \ {0} /\ MaxRevoked \in Nat \ {0} /\ MaxTickets \in Nat \ {0}
  /\ \A m \in Mids, max \in Plans, n \in 1..MaxTickets :
       None # [t |-> [mid |-> m, max |-> max], gen |-> n]

ASSUME SlotsAssumption

VARIABLES
  \* the account Worker
  row,      \* row[m]: absent, signed, deleting or removed
  key,      \* agentKey of the row is bound
  plan,     \* maxMachines of the account's plan
  issue,    \* where a request for a ticket of m is
  valid,    \* tickets issued and not expired
  rem,      \* rem[x]: how far a removal is
  remOf,    \* the credential it removes
  lost,     \* its caller has gone, or thinks it failed
  \* the ledger
  reg,      \* machines that hold a slot
  older,    \* older[k]: the machines registered before k
  mids,     \* mids[k]: the credentials using k's slot
  revoked,  \* numbers rejected
  \* the rooms: the tag of the live agent
  alive,    \* there is one
  seq,      \* tag.ticketSeq
  applied,  \* tag.ticketApplied
  lic,      \* tag.lic with the number of the ticket, or None
  \* the continuations of #onLicense
  on, tk, gen, ph,
  cut,      \* its mark is in tag.claimRevoked
  dead      \* its wire is no longer the agent

acctVars == <<row, key, plan, issue, valid>>
remVars == <<rem, remOf, lost>>
ledgerVars == <<reg, older, mids, revoked>>
roomVars == <<alive, seq, applied, lic>>
checkVars == <<on, tk, gen, ph, cut, dead>>
vars == <<acctVars, remVars, ledgerVars, roomVars, checkVars>>

Tickets == [mid : Mids, max : Plans]
Claiming == {"queued", "ok", "limit", "revoked"}   \* the mark is in tag.claiming
Releasing == {"release", "telling", "told"}

TypeOK ==
  /\ row \in [Mids -> {"absent", "signed", "deleting", "removed"}]
  /\ key \in [Mids -> BOOLEAN]
  /\ plan \in Plans
  /\ issue \in [Mids -> {"none", "unbound", "bound", "signing"}]
  /\ valid \subseteq Tickets
  /\ rem \in [Removals -> {"none", "delete"} \cup Releasing]
  /\ remOf \in [Removals -> Mids]
  /\ lost \in [Removals -> BOOLEAN]
  /\ reg \subseteq Machines
  /\ older \in [Machines -> SUBSET Machines]
  /\ mids \in [Machines -> SUBSET Mids]
  /\ revoked \subseteq Mids
  /\ alive \in [Machines -> BOOLEAN]
  /\ seq \in [Machines -> 0..MaxTickets]
  /\ applied \in [Machines -> 0..MaxTickets]
  /\ lic \in [Machines -> [t : Tickets, gen : 1..MaxTickets] \cup {None}]
  /\ on \in [Checks -> Machines]
  /\ tk \in [Checks -> Tickets]
  /\ gen \in [Checks -> 0..MaxTickets]
  /\ ph \in [Checks -> {"none", "verifying"} \cup Claiming]
  /\ cut \in [Checks -> BOOLEAN]
  /\ dead \in [Checks -> BOOLEAN]

Init ==
  /\ row = [m \in Mids |-> "absent"]
  /\ key = [m \in Mids |-> FALSE]
  /\ plan \in Plans
  /\ issue = [m \in Mids |-> "none"]
  /\ valid = {}
  /\ rem = [x \in Removals |-> "none"]
  /\ remOf \in [Removals -> Mids]
  /\ lost = [x \in Removals |-> FALSE]
  /\ reg = {}
  /\ older = [k \in Machines |-> {}]
  /\ mids = [k \in Machines |-> {}]
  /\ revoked = {}
  /\ alive = [k \in Machines |-> FALSE]
  /\ seq = [k \in Machines |-> 0]
  /\ applied = [k \in Machines |-> 0]
  /\ lic = [k \in Machines |-> None]
  /\ on \in [Checks -> Machines]
  /\ tk \in [Checks -> Tickets]
  /\ gen = [c \in Checks |-> 0]
  /\ ph = [c \in Checks |-> "none"]
  /\ cut = [c \in Checks |-> FALSE]
  /\ dead = [c \in Checks |-> FALSE]

-----------------------------------------------------------------------------
(* The account Worker: signing in, tickets, the plan.                      *)

\* /api/login: a new row, with the machine's key if the agent told it.
SignIn(m, known) ==
  /\ row[m] = "absent"
  /\ row' = [row EXCEPT ![m] = "signed"]
  /\ key' = [key EXCEPT ![m] = known]
  /\ UNCHANGED <<plan, issue, valid, remVars, ledgerVars, roomVars, checkVars>>

\* /api/license reads the row: none for a row that is gone or being removed.
IssueReads(m) ==
  /\ row[m] = "signed" /\ issue[m] = "none"
  /\ issue' = [issue EXCEPT ![m] = IF key[m] THEN "signing" ELSE "unbound"]
  /\ UNCHANGED <<row, key, plan, valid, remVars, ledgerVars, roomVars, checkVars>>

\* bindMachineKey: one statement, refused by a row being removed.
IssueBinds(m) ==
  /\ issue[m] = "unbound"
  /\ issue' = [issue EXCEPT ![m] = "bound"]
  /\ key' = [key EXCEPT ![m] = @ \/ row[m] = "signed"]
  /\ UNCHANGED <<row, plan, valid, remVars, ledgerVars, roomVars, checkVars>>

\* The row is read again: it may be gone, being removed, or not bound.
IssueReadsAgain(m) ==
  /\ issue[m] = "bound"
  /\ issue' = [issue EXCEPT ![m] = IF row[m] = "signed" /\ key[m] THEN "signing" ELSE "none"]
  /\ UNCHANGED <<row, key, plan, valid, remVars, ledgerVars, roomVars, checkVars>>

\* The ticket is signed and on its way to the agent, whatever the row is by now.
IssueSigns(m) ==
  /\ issue[m] = "signing"
  /\ issue' = [issue EXCEPT ![m] = "none"]
  /\ valid' = valid \cup {[mid |-> m, max |-> plan]}
  /\ UNCHANGED <<row, key, plan, remVars, ledgerVars, roomVars, checkVars>>

\* The subscription begins or ends.
PlanChanges ==
  /\ plan' \in Plans \ {plan}
  /\ UNCHANGED <<row, key, issue, valid, remVars, ledgerVars, roomVars, checkVars>>

\* 24 hours pass since ticket t was last issued.
TicketExpires(t) ==
  /\ t \in valid
  /\ valid' = valid \ {t}
  /\ lic' = [k \in Machines |-> IF lic[k] # None /\ lic[k].t = t THEN None ELSE lic[k]]
  /\ UNCHANGED <<row, key, plan, issue, remVars, ledgerVars, alive, seq, applied, checkVars>>

\* pruneMachines: a credential unused for MACHINE_FORGET_MS is deleted untold.
Forget(m) ==
  /\ row[m] \in {"signed", "deleting"} /\ issue[m] = "none"
  /\ \A t \in valid : t.mid # m
  /\ row' = [row EXCEPT ![m] = "removed"]
  /\ UNCHANGED <<key, plan, issue, valid, remVars, ledgerVars, roomVars, checkVars>>

-----------------------------------------------------------------------------
(* Removing a credential: removeMachine and releaseCredential.             *)

\* markDeleting: the row is marked, then its key is read.
StartRemoval(x, m) ==
  /\ rem[x] = "none"
  /\ row[m] \in {"signed", "deleting"}
  /\ row' = [row EXCEPT ![m] = "deleting"]
  /\ rem' = [rem EXCEPT ![x] = IF key[m] THEN "release" ELSE "delete"]
  /\ remOf' = [remOf EXCEPT ![x] = m]
  /\ lost' = [lost EXCEPT ![x] = FALSE]
  /\ UNCHANGED <<key, plan, issue, valid, ledgerVars, roomVars, checkVars>>

\* What a removal that fails does to the row, if anybody still waits for it.
Unmarked(x) ==
  IF ~lost[x] /\ row[remOf[x]] = "deleting"
  THEN [row EXCEPT ![remOf[x]] = "signed"] ELSE row

\* A fault: the number is not recorded.
MarkFault(x) ==
  /\ rem[x] = "release"
  /\ rem' = [rem EXCEPT ![x] = "telling"]
  /\ UNCHANGED <<acctVars, remOf, lost, ledgerVars, roomVars, checkVars>>

\* markRevoked: from here on a ticket of the number cannot register; refused
\* when the record is full.
Mark(x) ==
  LET m == remOf[x] IN
  /\ rem[x] = "release"
  /\ IF m \in revoked \/ Cardinality(revoked) < MaxRevoked
     THEN /\ revoked' = revoked \cup {m}
          /\ rem' = [rem EXCEPT ![x] = "telling"]
          /\ UNCHANGED row
     ELSE /\ rem' = [rem EXCEPT ![x] = "none"]
          /\ row' = Unmarked(x)
          /\ UNCHANGED revoked
  /\ UNCHANGED <<key, plan, issue, valid, remOf, lost, reg, older, mids, roomVars, checkVars>>

\* A fault: the checks in flight are forgotten.
TellRoomFault(x) ==
  LET m == remOf[x] IN
  /\ rem[x] = "telling"
  /\ rem' = [rem EXCEPT ![x] = "told"]
  /\ lic' = [lic EXCEPT ![Home[m]] = IF @ # None /\ @.t.mid = m THEN None ELSE @]
  /\ UNCHANGED <<acctVars, remOf, lost, ledgerVars, alive, seq, applied, checkVars>>

\* revokeLicense in the room: the ticket goes, and the claims of it in flight are
\* marked.
TellRoom(x) ==
  LET m == remOf[x] IN
  /\ rem[x] = "telling"
  /\ rem' = [rem EXCEPT ![x] = "told"]
  /\ lic' = [lic EXCEPT ![Home[m]] = IF @ # None /\ @.t.mid = m THEN None ELSE @]
  /\ cut' = [c \in Checks |-> cut[c] \/ (/\ on[c] = Home[m] /\ tk[c].mid = m
                                         /\ ph[c] \in Claiming /\ ~dead[c])]
  /\ UNCHANGED <<acctVars, remOf, lost, ledgerVars, alive, seq, applied, on, tk, gen, ph, dead>>

\* The slot of machine k is given up.
Freed(k) ==
  /\ reg' = reg \ {k}
  /\ older' = [j \in Machines |-> IF j = k THEN {} ELSE older[j] \ {k}]

\* A fault: the slot is freed by the machine's key alone.
DropMidFault(x) ==
  LET m == remOf[x] IN
  /\ rem[x] = "told"
  /\ Freed(Home[m])
  /\ mids' = [mids EXCEPT ![Home[m]] = {}]
  /\ rem' = [rem EXCEPT ![x] = IF lost[x] THEN "none" ELSE "delete"]
  /\ UNCHANGED <<acctVars, remOf, lost, revoked, roomVars, checkVars>>

\* dropMid: the number leaves the slot's users, and the slot is freed when nobody
\* is left.
DropMid(x) ==
  LET m == remOf[x] IN
  /\ rem[x] = "told"
  /\ mids' = [mids EXCEPT ![Home[m]] = @ \ {m}]
  /\ IF Home[m] \in reg /\ mids[Home[m]] \subseteq {m}
     THEN Freed(Home[m])
     ELSE UNCHANGED <<reg, older>>
  /\ rem' = [rem EXCEPT ![x] = IF lost[x] THEN "none" ELSE "delete"]
  /\ UNCHANGED <<acctVars, remOf, lost, revoked, roomVars, checkVars>>

\* deleteMachine, once the relay has been told.
Delete(x) ==
  /\ rem[x] = "delete"
  /\ row' = [row EXCEPT ![remOf[x]] = "removed"]
  /\ rem' = [rem EXCEPT ![x] = "none"]
  /\ UNCHANGED <<key, plan, issue, valid, remOf, lost, ledgerVars, roomVars, checkVars>>

\* The room cannot be told, or the storage fails: the release throws.
ReleaseFails(x) ==
  /\ rem[x] \in Releasing
  /\ rem' = [rem EXCEPT ![x] = "none"]
  /\ row' = Unmarked(x)
  /\ UNCHANGED <<key, plan, issue, valid, remOf, lost, ledgerVars, roomVars, checkVars>>

\* The caller's Worker ends, or its call is cut while the release goes on; then
\* it takes the mark off the row.
CallerLost(x, unmarks) ==
  /\ rem[x] # "none" /\ ~lost[x]
  /\ rem' = [rem EXCEPT ![x] = IF @ = "delete" THEN "none" ELSE @]
  /\ lost' = [lost EXCEPT ![x] = TRUE]
  /\ row' = IF unmarks /\ rem[x] # "delete" THEN Unmarked(x) ELSE row
  /\ UNCHANGED <<key, plan, issue, valid, remOf, ledgerVars, roomVars, checkVars>>

\* The record of a removed number lapses.
MarkLapses(m) ==
  /\ m \in revoked
  /\ issue[m] = "none"
  /\ \A t \in valid : t.mid # m
  /\ \A x \in Removals : rem[x] # "none" => remOf[x] # m
  /\ revoked' = revoked \ {m}
  /\ UNCHANGED <<acctVars, remVars, reg, older, mids, roomVars, checkVars>>

-----------------------------------------------------------------------------
(* The ledger: claims.                                                     *)

\* A fault: the limit is for new machines only.
MayUseFault(k, max) == k \in reg \/ Cardinality(reg) < max

\* A machine with a slot passes if it is among the max oldest; another one needs a
\* free slot.
MayUse(k, max) ==
  IF k \in reg THEN Cardinality(older[k]) < max ELSE Cardinality(reg) < max

\* Accounts.claim for check c.
Claim(c) ==
  LET k == on[c] m == tk[c].mid IN
  /\ ph[c] = "queued"
  /\ IF m \in revoked
     THEN /\ ph' = [ph EXCEPT ![c] = IF dead[c] THEN "none" ELSE "revoked"]
          /\ UNCHANGED ledgerVars
     ELSE IF ~MayUse(k, tk[c].max)
     THEN /\ ph' = [ph EXCEPT ![c] = IF dead[c] THEN "none" ELSE "limit"]
          /\ UNCHANGED ledgerVars
     ELSE /\ ph' = [ph EXCEPT ![c] = IF dead[c] THEN "none" ELSE "ok"]
          /\ reg' = reg \cup {k}
          /\ older' = IF k \in reg THEN older ELSE [older EXCEPT ![k] = reg]
          /\ mids' = [mids EXCEPT ![k] = @ \cup {m}]
          /\ UNCHANGED revoked
  /\ UNCHANGED <<acctVars, remVars, roomVars, on, tk, gen, cut, dead>>

\* The call fails, before the ledger has seen it or on its way back: to the room
\* that is a refusal.
ClaimFails(c) ==
  /\ ph[c] \in {"queued", "ok", "revoked"}
  /\ ph' = [ph EXCEPT ![c] = IF dead[c] THEN "none" ELSE "limit"]
  /\ UNCHANGED <<acctVars, remVars, ledgerVars, roomVars, on, tk, gen, cut, dead>>

\* A fault: a claim does not refresh what it finds registered.
UnusedFault(k, m) == TRUE

\* Nobody relies on the ledger's word that machine k, or one of its credentials, is
\* in use: pruneLedger after MACHINE_IDLE_MS.
Unused(k, m) ==
  /\ lic[k] = None \/ lic[k].t.mid # m
  /\ \A c \in Checks : ~(on[c] = k /\ tk[c].mid = m /\ ph[c] = "ok")

Prune(k) ==
  /\ k \in reg
  /\ \E gone \in SUBSET {m \in mids[k] : Unused(k, m)} :
       /\ mids' = [mids EXCEPT ![k] = @ \ gone]
       /\ \/ gone # {} /\ UNCHANGED <<reg, older>>
          \/ gone = mids[k] /\ Freed(k)
  /\ UNCHANGED <<acctVars, remVars, revoked, roomVars, checkVars>>

-----------------------------------------------------------------------------
(* A room: onLicense, in three stretches between its awaits.               *)

\* A new agent proves itself: its tag starts without a ticket.  What the room was
\* still checking for the wire before will find that it is not the agent.
AgentComes(k) ==
  /\ alive' = [alive EXCEPT ![k] = TRUE]
  /\ seq' = [seq EXCEPT ![k] = 0]
  /\ applied' = [applied EXCEPT ![k] = 0]
  /\ lic' = [lic EXCEPT ![k] = None]
  /\ dead' = [c \in Checks |-> dead[c] \/ (on[c] = k /\ ph[c] # "none")]
  /\ ph' = [c \in Checks |-> IF on[c] = k /\ ph[c] # "queued" THEN "none" ELSE ph[c]]
  /\ UNCHANGED <<acctVars, remVars, ledgerVars, on, tk, gen, cut>>

\* The agent's wire closes or is replaced.
AgentGoes(k) ==
  /\ alive[k]
  /\ alive' = [alive EXCEPT ![k] = FALSE]
  /\ lic' = [lic EXCEPT ![k] = None]
  /\ dead' = [c \in Checks |-> dead[c] \/ (on[c] = k /\ ph[c] # "none")]
  /\ ph' = [c \in Checks |-> IF on[c] = k /\ ph[c] # "queued" THEN "none" ELSE ph[c]]
  /\ UNCHANGED <<acctVars, remVars, ledgerVars, seq, applied, on, tk, gen, cut>>

\* The agent sends a ticket: numbered before the first await.
TicketComes(c, t) ==
  LET k == Home[t.mid] IN
  /\ ph[c] = "none"
  /\ t \in valid
  /\ alive[k] /\ seq[k] < MaxTickets
  /\ seq' = [seq EXCEPT ![k] = @ + 1]
  /\ on' = [on EXCEPT ![c] = k]
  /\ tk' = [tk EXCEPT ![c] = t]
  /\ gen' = [gen EXCEPT ![c] = seq[k] + 1]
  /\ ph' = [ph EXCEPT ![c] = "verifying"]
  /\ cut' = [cut EXCEPT ![c] = FALSE]
  /\ dead' = [dead EXCEPT ![c] = FALSE]
  /\ UNCHANGED <<acctVars, remVars, ledgerVars, alive, applied, lic>>

\* A fault: an answer replaces whatever is on the tag.
SupersededFault(c) == FALSE

\* The outcome of a newer ticket is already on the tag.
Superseded(c) == applied[on[c]] > gen[c]

\* A fault: the number recorded is that of the next ticket.
SettlesFault(c, l) ==
  LET k == on[c] IN
  /\ ph' = [ph EXCEPT ![c] = "none"]
  /\ lic' = [lic EXCEPT ![k] = l]
  /\ applied' = [applied EXCEPT ![k] = gen[c] + 1]

\* Ticket c is settled with outcome l, unless a newer one was.
Settles(c, l) ==
  LET k == on[c] IN
  /\ ph' = [ph EXCEPT ![c] = "none"]
  /\ IF Superseded(c)
     THEN UNCHANGED <<lic, applied>>
     ELSE /\ lic' = [lic EXCEPT ![k] = l]
          /\ applied' = [applied EXCEPT ![k] = gen[c]]

\* The ticket fails verification, is for another key, or too many are being checked.
Refused(c) ==
  /\ ph[c] = "verifying"
  /\ Settles(c, None)
  /\ UNCHANGED <<acctVars, remVars, ledgerVars, alive, seq, on, tk, gen, cut, dead>>

\* The ticket is good: it is claimed, and the current one stays meanwhile.
Verified(c) ==
  /\ ph[c] = "verifying"
  /\ tk[c] \in valid
  /\ Cardinality({d \in Checks : on[d] = on[c] /\ ph[d] \in Claiming /\ ~dead[d]}) < MaxClaims
  /\ ph' = [ph EXCEPT ![c] = "queued"]
  /\ UNCHANGED <<acctVars, remVars, ledgerVars, roomVars, on, tk, gen, cut, dead>>

\* The ledger has answered.  A ticket revoked meanwhile does not pass.
Answered(c) ==
  /\ ph[c] \in {"ok", "limit", "revoked"}
  /\ Settles(c, IF ph[c] = "ok" /\ ~cut[c] /\ tk[c] \in valid
                THEN [t |-> tk[c], gen |-> gen[c]] ELSE None)
  /\ UNCHANGED <<acctVars, remVars, ledgerVars, alive, seq, on, tk, gen, cut, dead>>

-----------------------------------------------------------------------------
Next ==
  \/ \E m \in Mids : \/ \E known \in BOOLEAN : SignIn(m, known)
                     \/ IssueReads(m) \/ IssueBinds(m) \/ IssueReadsAgain(m)
                     \/ IssueSigns(m) \/ Forget(m) \/ MarkLapses(m)
  \/ PlanChanges
  \/ \E t \in Tickets : TicketExpires(t)
  \/ \E x \in Removals : \/ \E m \in Mids : StartRemoval(x, m)
                         \/ \E unmarks \in BOOLEAN : CallerLost(x, unmarks)
                         \/ Mark(x) \/ TellRoom(x) \/ DropMid(x) \/ Delete(x)
                         \/ ReleaseFails(x)
  \/ \E k \in Machines : AgentComes(k) \/ AgentGoes(k) \/ Prune(k)
  \/ \E c \in Checks, t \in Tickets : TicketComes(c, t)
  \/ \E c \in Checks : \/ Claim(c) \/ ClaimFails(c) \/ Refused(c) \/ Verified(c)
                       \/ Answered(c)

Spec == Init /\ [][Next]_vars

-----------------------------------------------------------------------------
(* Properties.                                                             *)

(* ledger.ts releaseCredential: a credential whose removal has completed   *)
(* runs no room, however many of its tickets were being issued, sent or    *)
(* checked while it was removed, and none of them ever will.               *)
RemovedIsGone ==
  \A m \in Mids, k \in Machines :
    row[m] = "removed" => lic[k] = None \/ lic[k].t.mid # m

(* A room that runs on a ticket holds a slot of the account's ledger, by   *)
(* the credential of that ticket (ledger.ts: the slot is freed only when   *)
(* the last credential has left it).                                       *)
RunsOnItsSlot ==
  \A k \in Machines : lic[k] # None => k \in reg /\ lic[k].t.mid \in mids[k]

(* No more rooms run on tickets of a plan, or of a smaller one, than the   *)
(* plan has machines, also after a change of plan.                         *)
WithinPlan ==
  \A max \in Plans :
    Cardinality({k \in Machines : lic[k] # None /\ lic[k].t.max <= max}) <= max

\* Both are what the ledger is asked for (ledger.ts, claimMachine).
SlotsInPlan == RunsOnItsSlot /\ WithinPlan

(* When a room checks no ticket any more, what it runs on is the outcome   *)
(* of the last ticket its agent sent, in whatever order the answers came.  *)
LastTicketCounts ==
  \A k \in Machines :
    alive[k] /\ (\A c \in Checks : on[c] = k => ph[c] = "none" \/ dead[c])
      => applied[k] = seq[k] /\ (lic[k] # None => lic[k].gen = seq[k])

=============================================================================
