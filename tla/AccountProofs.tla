--------------------------- MODULE AccountProofs ----------------------------
(***************************************************************************)
(* Proofs about the account ledger.  First the usage tickets of an         *)
(* account, for any machines, credentials and plans, and any number of     *)
(* tickets checked and removals in progress at a time; then the purchase   *)
(* of a plan, for any tabs, signal handlers and Checkouts.                 *)
(***************************************************************************)
EXTENDS MCAccount, FiniteSetTheorems, TLAPS

\* Check c can still give its room the ticket it checks: the ledger said yes.
Passing(c) == ph[c] = "ok" /\ ~cut[c] /\ ~dead[c]

\* No room runs on credential m.
RunsNowhere(m) == \A k \in Machines : lic[k] # None => lic[k].t.mid # m

\* Tickets are checked and used in the room of their credential's machine, by
\* the wire that sent them; and none that has expired is used.
HomeInv ==
  /\ \A k \in Machines : lic[k] # None => Home[lic[k].t.mid] = k /\ lic[k].t \in valid
  /\ \A c \in Checks : ph[c] # "none" => on[c] = Home[tk[c].mid]
  /\ \A c \in Checks : dead[c] => ph[c] \in {"none", "queued"}

\* A room that runs on a ticket, or is about to, holds a slot by its credential.
SlotInv ==
  /\ RunsOnItsSlot
  /\ \A c \in Checks : Passing(c) => on[c] \in reg /\ tk[c].mid \in mids[on[c]]

\* Credential m is locked out: its number is rejected, and no check passes it.
LockedOut(m) ==
  /\ m \in revoked /\ RunsNowhere(m)
  /\ \A c \in Checks : Passing(c) => tk[c].mid # m

\* Credential m has no tickets, and none is being made.
NoTickets(m) == issue[m] # "signing" /\ \A t \in valid : t.mid # m

\* A credential without a key bound has never had a ticket.
KeyInv ==
  \A m \in Mids : (row[m] = "absent" => ~key[m]) /\ (~key[m] => NoTickets(m))

\* How far a removal is.
ProgressInv ==
  \A x \in Removals :
    /\ rem[x] # "none" => row[remOf[x]] # "absent"
    /\ rem[x] \in Releasing => key[remOf[x]]
    /\ rem[x] \in {"telling", "told"} => remOf[x] \in revoked

\* What a removal has reached.  One that found no key bound has nobody to tell:
\* nothing was ever issued, and nothing will be.
GoneInv ==
  /\ \A x \in Removals :
       /\ rem[x] = "told" => LockedOut(remOf[x])
       /\ rem[x] = "delete" =>
            \/ LockedOut(remOf[x])
            \/ ~key[remOf[x]] /\ row[remOf[x]] # "signed"
  /\ \A m \in Mids : row[m] = "removed" =>
       RunsNowhere(m) /\ (LockedOut(m) \/ NoTickets(m))

RemovalInv == KeyInv /\ ProgressInv /\ GoneInv

\* Every ticket that was sent and has no outcome yet is being checked.
CountInv ==
  /\ \A c \in Checks : ph[c] # "none" /\ ~dead[c] => alive[on[c]] /\ gen[c] \in 1..seq[on[c]]
  /\ \A k \in Machines : alive[k] =>
      /\ applied[k] <= seq[k]
      /\ lic[k] # None => lic[k].gen = applied[k]
      /\ \A n \in 1..MaxTickets : applied[k] < n /\ n <= seq[k] =>
           \E c \in Checks : on[c] = k /\ ph[c] # "none" /\ ~dead[c] /\ gen[c] = n

\* The machines with a slot are in the order they came, and a machine that runs
\* on a ticket, or is about to, is among the oldest that its plan allows.
OrderInv ==
  /\ IsFiniteSet(reg)
  /\ \A k \in Machines : older[k] \subseteq reg \ {k}
  /\ \A j, k \in reg : j # k => j \in older[k] \/ k \in older[j]
  /\ \A k \in Machines : \A j \in older[k] : older[j] \subseteq older[k]

PlanInv ==
  /\ \A k \in Machines : lic[k] # None => Cardinality(older[k]) < lic[k].t.max
  /\ \A c \in Checks : Passing(c) => Cardinality(older[on[c]]) < tk[c].max

AccountInv == TypeOK /\ HomeInv /\ SlotInv /\ RemovalInv /\ CountInv /\ OrderInv /\ PlanInv

-----------------------------------------------------------------------------
(* The actions, by what they touch.                                        *)

\* The account Worker alone.
AccountAct(m) ==
  \/ \E known \in BOOLEAN : SignIn(m, known)
  \/ IssueReads(m) \/ IssueBinds(m) \/ IssueReadsAgain(m) \/ IssueSigns(m) \/ Forget(m)

\* A removal that neither tells the room nor frees the slot.
RemovalAct(x) ==
  \/ \E m \in Mids : StartRemoval(x, m)
  \/ \E unmarks \in BOOLEAN : CallerLost(x, unmarks)
  \/ Mark(x) \/ Delete(x) \/ ReleaseFails(x)

Licenses == [t : Tickets, gen : 1..MaxTickets] \cup {None}

LEMMA Numbers ==
  /\ MaxTickets \in Nat /\ 0 \in 0..MaxTickets
  /\ \A n \in 0..MaxTickets : n < MaxTickets => n + 1 \in 0..MaxTickets
  /\ \A n \in 0..MaxTickets : n \in Nat
BY SlotsAssumption DEF SlotsAssumption

LEMMA TicketFacts ==
  /\ \A t \in Tickets : t.mid \in Mids /\ t.max \in Plans /\ Home[t.mid] \in Machines
  /\ \A m \in Mids : Home[m] \in Machines
  /\ \A p \in Plans : p \in Nat \ {0}
BY SlotsAssumption DEF SlotsAssumption, Tickets

LEMMA LicenseFacts ==
  ASSUME NEW t \in Tickets, NEW n \in 1..MaxTickets
  PROVE  LET l == [t |-> t, gen |-> n]
         IN l \in Licenses /\ l # None /\ l.t = t /\ l.gen = n
<1>1. t = [mid |-> t.mid, max |-> t.max] /\ t.mid \in Mids /\ t.max \in Plans
  BY DEF Tickets
<1>2. None # [t |-> [mid |-> t.mid, max |-> t.max], gen |-> n]
  BY <1>1, SlotsAssumption DEF SlotsAssumption
<1> QED
  BY <1>1, <1>2 DEF Licenses

Rooms ==
  /\ alive \in [Machines -> BOOLEAN]
  /\ seq \in [Machines -> 0..MaxTickets] /\ applied \in [Machines -> 0..MaxTickets]
  /\ lic \in [Machines -> Licenses]
CheckTypes ==
  /\ on \in [Checks -> Machines] /\ tk \in [Checks -> Tickets] /\ gen \in [Checks -> 0..MaxTickets]
  /\ ph \in [Checks -> {"none", "verifying"} \cup Claiming]
  /\ cut \in [Checks -> BOOLEAN] /\ dead \in [Checks -> BOOLEAN]
Account ==
  /\ row \in [Mids -> {"absent", "signed", "deleting", "removed"}] /\ key \in [Mids -> BOOLEAN]
  /\ plan \in Plans /\ issue \in [Mids -> {"none", "unbound", "bound", "signing"}]
  /\ valid \subseteq Tickets
RemovalTypes ==
  /\ rem \in [Removals -> {"none", "delete"} \cup Releasing]
  /\ remOf \in [Removals -> Mids] /\ lost \in [Removals -> BOOLEAN]
Ledger ==
  /\ reg \subseteq Machines /\ older \in [Machines -> SUBSET Machines]
  /\ mids \in [Machines -> SUBSET Mids] /\ revoked \subseteq Mids

LEMMA TypeParts == TypeOK <=> Account /\ RemovalTypes /\ Ledger /\ Rooms /\ CheckTypes
BY DEF TypeOK, Account, RemovalTypes, Ledger, Rooms, CheckTypes, Licenses

LEMMA TypeInit == Init => TypeOK
<1> SUFFICES ASSUME Init PROVE TypeOK
  OBVIOUS
<1>1. Account /\ RemovalTypes /\ Ledger
  BY DEF Init, Account, RemovalTypes, Ledger
<1>2. Rooms /\ CheckTypes
  BY Numbers DEF Init, Rooms, CheckTypes, Licenses
<1> QED
  BY <1>1, <1>2, TypeParts

\* Check c is settled, if what it settles with is a license of its room.
LEMMA SettledTypes ==
  ASSUME Rooms, CheckTypes, NEW c \in Checks, NEW l \in Licenses, Settles(c, l)
  PROVE  applied' \in [Machines -> 0..MaxTickets] /\ lic' \in [Machines -> Licenses]
         /\ ph' \in [Checks -> {"none", "verifying"} \cup Claiming]
BY DEF Rooms, CheckTypes, Settles

LEMMA TypeStep ==
  ASSUME TypeOK, HomeInv, CountInv, [Next]_vars
  PROVE  TypeOK'
<1>1. Account /\ RemovalTypes /\ Ledger /\ Rooms /\ CheckTypes
  BY TypeParts
<1> SUFFICES Account' /\ RemovalTypes' /\ Ledger' /\ Rooms' /\ CheckTypes'
  BY DEF TypeOK, Account, RemovalTypes, Ledger, Rooms, CheckTypes, Licenses
<1> DEFINE Q == Account' /\ RemovalTypes' /\ Ledger' /\ Rooms' /\ CheckTypes'
<1>2. ASSUME NEW m \in Mids, AccountAct(m) PROVE Q
  <2>1. RemovalTypes' /\ Ledger' /\ Rooms' /\ CheckTypes'
    BY <1>1, <1>2 DEF AccountAct, SignIn, IssueReads, IssueBinds, IssueReadsAgain, IssueSigns, Forget,
       remVars, ledgerVars, roomVars, checkVars, RemovalTypes, Ledger, Rooms, CheckTypes
  <2>2. CASE IssueSigns(m)
    <3>1. [mid |-> m, max |-> plan] \in Tickets
      BY <1>1 DEF Account, Tickets
    <3> QED
      BY <1>1, <2>1, <2>2, <3>1 DEF IssueSigns, Account
  <2>3. CASE IssueReads(m) \/ IssueReadsAgain(m) \/ Forget(m)
    BY <1>1, <2>1, <2>3 DEF IssueReads, IssueReadsAgain, Forget, Account
  <2>4. CASE IssueBinds(m) \/ \E known \in BOOLEAN : SignIn(m, known)
    BY <1>1, <2>1, <2>4 DEF IssueBinds, SignIn, Account
  <2> QED
    BY <1>2, <2>2, <2>3, <2>4 DEF AccountAct
<1>3. CASE PlanChanges
  BY <1>1, <1>3 DEF PlanChanges, remVars, ledgerVars, roomVars, checkVars, Account, RemovalTypes, Ledger,
     Rooms, CheckTypes
<1>4. ASSUME NEW t \in Tickets, TicketExpires(t) PROVE Q
  BY <1>1, <1>4 DEF TicketExpires, remVars, ledgerVars, checkVars, Account, RemovalTypes, Ledger,
     Rooms, CheckTypes, Licenses
<1>5. ASSUME NEW x \in Removals, RemovalAct(x) PROVE Q
  <2>1. Rooms' /\ CheckTypes'
    BY <1>1, <1>5 DEF RemovalAct, StartRemoval, CallerLost, Mark, Delete, ReleaseFails,
       roomVars, checkVars, Rooms, CheckTypes
  <2>2. \A m \in Mids : StartRemoval(x, m) => Account' /\ RemovalTypes' /\ Ledger'
    BY <1>1 DEF StartRemoval, ledgerVars, Account, RemovalTypes, Ledger, Releasing
  <2>3. Unmarked(x) \in [Mids -> {"absent", "signed", "deleting", "removed"}]
    BY <1>1 DEF Unmarked, Account
  <2>4. \A unmarks \in BOOLEAN : CallerLost(x, unmarks) => Account' /\ RemovalTypes' /\ Ledger'
    BY <1>1, <2>3 DEF CallerLost, ledgerVars, Account, RemovalTypes, Ledger, Releasing
  <2>5. Mark(x) => Account' /\ RemovalTypes' /\ Ledger'
    BY <1>1, <2>3 DEF Mark, Account, RemovalTypes, Ledger, Releasing
  <2>6. Delete(x) \/ ReleaseFails(x) => Account' /\ RemovalTypes' /\ Ledger'
    BY <1>1, <2>3 DEF Delete, ReleaseFails, ledgerVars, Account, RemovalTypes, Ledger, Releasing
  <2> QED
    BY <1>5, <2>1, <2>2, <2>4, <2>5, <2>6 DEF RemovalAct
<1>6. ASSUME NEW x \in Removals, TellRoom(x) PROVE Q
  BY <1>1, <1>6 DEF TellRoom, acctVars, ledgerVars, Account, RemovalTypes, Ledger, Rooms, CheckTypes,
     Releasing, Licenses
<1>7. ASSUME NEW x \in Removals, DropMid(x) PROVE Q
  BY <1>1, <1>7, TicketFacts DEF DropMid, Freed, acctVars, roomVars, checkVars, Account, RemovalTypes, Ledger,
     Rooms, CheckTypes, Releasing
<1>8. ASSUME NEW m \in Mids, MarkLapses(m) PROVE Q
  BY <1>1, <1>8 DEF MarkLapses, acctVars, remVars, roomVars, checkVars, Account, RemovalTypes, Ledger,
     Rooms, CheckTypes
<1>9. ASSUME NEW c \in Checks, Claim(c) \/ ClaimFails(c) \/ Verified(c) PROVE Q
  <2>1. Account' /\ RemovalTypes' /\ Rooms'
    BY <1>1, <1>9 DEF Claim, ClaimFails, Verified, acctVars, remVars, roomVars, Account, RemovalTypes, Rooms
  <2>2. CASE Claim(c)
    BY <1>1, <2>1, <2>2, TicketFacts DEF Claim, ledgerVars, Ledger, CheckTypes, Claiming
  <2>3. CASE ClaimFails(c) \/ Verified(c)
    BY <1>1, <2>1, <2>3 DEF ClaimFails, Verified, ledgerVars, Ledger, CheckTypes, Claiming
  <2> QED
    BY <1>9, <2>2, <2>3
<1>10. ASSUME NEW k \in Machines, Prune(k) PROVE Q
  BY <1>1, <1>10 DEF Prune, Freed, acctVars, remVars, roomVars, checkVars, Account, RemovalTypes, Ledger,
     Rooms, CheckTypes
<1>11. ASSUME NEW k \in Machines, AgentComes(k) \/ AgentGoes(k) PROVE Q
  <2>1. Account' /\ RemovalTypes' /\ Ledger'
    BY <1>1, <1>11 DEF AgentComes, AgentGoes, acctVars, remVars, ledgerVars, Account, RemovalTypes, Ledger
  <2>2. Rooms'
    <3>1. None \in Licenses
      BY DEF Licenses
    <3>2. lic' \in [Machines -> Licenses]
      BY <1>1, <1>11, <3>1 DEF AgentComes, AgentGoes, Rooms
    <3>3. alive' \in [Machines -> BOOLEAN]
      BY <1>1, <1>11 DEF AgentComes, AgentGoes, Rooms
    <3>4. seq' \in [Machines -> 0..MaxTickets] /\ applied' \in [Machines -> 0..MaxTickets]
      BY <1>1, <1>11, Numbers DEF AgentComes, AgentGoes, Rooms
    <3> QED
      BY <3>2, <3>3, <3>4 DEF Rooms
  <2>3. dead' \in [Checks -> BOOLEAN]
    BY <1>1, <1>11 DEF AgentComes, AgentGoes, CheckTypes
  <2>4. ph' \in [Checks -> {"none", "verifying"} \cup Claiming]
    BY <1>1, <1>11 DEF AgentComes, AgentGoes, CheckTypes
  <2> QED
    BY <1>1, <1>11, <2>1, <2>2, <2>3, <2>4 DEF AgentComes, AgentGoes, CheckTypes
<1>12. ASSUME NEW c \in Checks, NEW t \in Tickets, TicketComes(c, t) PROVE Q
  BY <1>1, <1>12, Numbers, TicketFacts DEF TicketComes, acctVars, remVars, ledgerVars, Account, RemovalTypes,
     Ledger, Rooms, CheckTypes
<1>13. ASSUME NEW c \in Checks, Refused(c) \/ Answered(c) PROVE Q
  <2>1. Account' /\ RemovalTypes' /\ Ledger'
    BY <1>1, <1>13 DEF Refused, Answered, acctVars, remVars, ledgerVars, Account, RemovalTypes, Ledger
  <2>2. \E l \in Licenses : Settles(c, l)
    <3>1. CASE Refused(c)
      BY <3>1 DEF Refused, Licenses
    <3>2. CASE Answered(c)
      <4>1. ph[c] \notin {"none", "queued"} /\ ~dead[c]
        BY <3>2 DEF Answered, HomeInv
      <4>2. gen[c] \in 1..MaxTickets
        BY <1>1, <4>1, Numbers DEF CountInv, CheckTypes, Rooms
      <4>3. [t |-> tk[c], gen |-> gen[c]] \in Licenses
        BY <1>1, <4>2, LicenseFacts DEF CheckTypes
      <4>4. None \in Licenses
        BY DEF Licenses
      <4> QED
        BY <3>2, <4>3, <4>4 DEF Answered
    <3> QED
      BY <1>13, <3>1, <3>2
  <2>3. UNCHANGED <<alive, seq, on, tk, gen, cut, dead>>
    BY <1>13 DEF Refused, Answered
  <2> QED
    BY <1>1, <2>1, <2>2, <2>3, SettledTypes DEF Rooms, CheckTypes
<1>14. CASE UNCHANGED vars
  BY <1>1, <1>14 DEF vars, acctVars, remVars, ledgerVars, roomVars, checkVars, Account, RemovalTypes, Ledger,
     Rooms, CheckTypes
<1> QED
  BY <1>2, <1>3, <1>4, <1>5, <1>6, <1>7, <1>8, <1>9, <1>10, <1>11, <1>12, <1>13, <1>14
     DEF Next, AccountAct, RemovalAct

-----------------------------------------------------------------------------
(* What a step does to the rooms and to the checks.                        *)

\* l is what ticket c may be settled with: nothing, or itself if it passed.
Outcome(c, l) ==
  \/ l = None
  \/ l # None /\ l.t = tk[c] /\ l.gen = gen[c] /\ Passing(c) /\ tk[c] \in valid

\* Check c is answered "ok" by the ledger.
Claimed(c) == Claim(c) /\ tk[c].mid \notin revoked /\ MayUse(on[c], tk[c].max)

\* The steps that leave rooms and checks alone.
QuietAct ==
  \/ \E m \in Mids : AccountAct(m) \/ MarkLapses(m)
  \/ PlanChanges
  \/ \E x \in Removals : RemovalAct(x) \/ DropMid(x)
  \/ \E k \in Machines : Prune(k)

LEMMA Acts ==
  ASSUME [Next]_vars
  PROVE  \/ QuietAct \/ UNCHANGED vars
         \/ \E t \in Tickets : TicketExpires(t)
         \/ \E x \in Removals : TellRoom(x)
         \/ \E k \in Machines : AgentComes(k) \/ AgentGoes(k)
         \/ \E c \in Checks, t \in Tickets : TicketComes(c, t)
         \/ \E c \in Checks : Claim(c) \/ ClaimFails(c) \/ Verified(c) \/ Refused(c) \/ Answered(c)
BY DEF Next, QuietAct, AccountAct, RemovalAct

LEMMA QuietFacts == QuietAct \/ UNCHANGED vars => UNCHANGED <<roomVars, checkVars>>
<1>1. \A m \in Mids : AccountAct(m) \/ MarkLapses(m) => UNCHANGED <<roomVars, checkVars>>
  BY DEF AccountAct, SignIn, IssueReads, IssueBinds, IssueReadsAgain, IssueSigns, Forget, MarkLapses
<1>2. PlanChanges \/ UNCHANGED vars => UNCHANGED <<roomVars, checkVars>>
  BY DEF PlanChanges, vars
<1>3. \A x \in Removals : RemovalAct(x) \/ DropMid(x) => UNCHANGED <<roomVars, checkVars>>
  BY DEF RemovalAct, StartRemoval, CallerLost, Mark, Delete, ReleaseFails, DropMid
<1>4. \A k \in Machines : Prune(k) => UNCHANGED <<roomVars, checkVars>>
  BY DEF Prune
<1> QED
  BY <1>1, <1>2, <1>3, <1>4 DEF QuietAct

LEMMA SettlesFacts ==
  ASSUME TypeOK, NEW c \in Checks, NEW l, Settles(c, l)
  PROVE  /\ on[c] \in Machines /\ ph'[c] = "none"
         /\ \A d \in Checks : d # c => ph'[d] = ph[d]
         /\ \A k \in Machines : k # on[c] => lic'[k] = lic[k] /\ applied'[k] = applied[k]
         /\ \/ applied[on[c]] > gen[c] /\ lic' = lic /\ applied' = applied
            \/ ~(applied[on[c]] > gen[c]) /\ lic'[on[c]] = l /\ applied'[on[c]] = gen[c]
BY DEF TypeOK, Settles, Superseded

LEMMA Outcomes ==
  ASSUME TypeOK, HomeInv, CountInv, NEW c \in Checks, Refused(c) \/ Answered(c)
  PROVE  /\ ph[c] # "none" /\ ~dead[c]
         /\ \E l : Settles(c, l) /\ Outcome(c, l)
         /\ UNCHANGED <<acctVars, remVars, ledgerVars, alive, seq, on, tk, gen, cut, dead>>
<1>1. ph[c] # "none" /\ ~dead[c]
  BY DEF Refused, Answered, HomeInv
<1>2. CASE Refused(c)
  BY <1>1, <1>2 DEF Refused, Outcome
<1>3. CASE Answered(c)
  <2>1. gen[c] \in 1..MaxTickets /\ tk[c] \in Tickets
    BY <1>1, Numbers DEF CountInv, TypeOK
  <2> DEFINE l == [t |-> tk[c], gen |-> gen[c]]
  <2>2. l # None /\ l.t = tk[c] /\ l.gen = gen[c]
    BY <2>1, LicenseFacts
  <2>3. ph[c] = "ok" /\ ~cut[c] /\ tk[c] \in valid => Outcome(c, l)
    BY <1>1, <2>2 DEF Outcome, Passing
  <2>4. Outcome(c, None)
    BY DEF Outcome
  <2> HIDE DEF l
  <2>5. Settles(c, None) \/ (Settles(c, l) /\ Outcome(c, l))
    BY <1>3, <2>3 DEF Answered, l
  <2> QED
    BY <1>1, <1>3, <2>4, <2>5 DEF Answered
<1> QED
  BY <1>2, <1>3

\* A room goes on as it was, without a ticket, or with one that has passed.
RoomGoes(k) ==
  \/ lic'[k] = lic[k] \/ lic'[k] = None
  \/ lic'[k] # None /\ \E c \in Checks : Passing(c) /\ on[c] = k /\ tk[c] \in valid /\ lic'[k].t = tk[c]

\* A check passes because it did, or because the ledger has just said yes.
PassGoes(c) == Passing(c)' => on'[c] = on[c] /\ tk'[c] = tk[c] /\ (Passing(c) \/ Claimed(c))

LEMMA UseStep ==
  ASSUME TypeOK, HomeInv, CountInv, [Next]_vars
  PROVE  (\A k \in Machines : RoomGoes(k)) /\ (\A c \in Checks : PassGoes(c))
<1> DEFINE P == (\A k \in Machines : RoomGoes(k)) /\ (\A c \in Checks : PassGoes(c))
<1>1. CASE QuietAct \/ UNCHANGED vars
  BY <1>1, QuietFacts DEF roomVars, checkVars, RoomGoes, PassGoes, Passing
<1>2. ASSUME NEW t \in Tickets, TicketExpires(t) PROVE P
  BY <1>2 DEF TicketExpires, checkVars, RoomGoes, PassGoes, Passing
<1>3. ASSUME NEW x \in Removals, TellRoom(x) PROVE P
  <2>1. \A k \in Machines : lic'[k] = lic[k] \/ lic'[k] = None
    BY <1>3 DEF TellRoom, TypeOK
  <2>2. \A c \in Checks : cut[c] => cut'[c]
    BY <1>3 DEF TellRoom
  <2> QED
    BY <1>3, <2>1, <2>2 DEF TellRoom, RoomGoes, PassGoes, Passing
<1>4. ASSUME NEW k \in Machines, AgentComes(k) \/ AgentGoes(k) PROVE P
  <2>1. \A j \in Machines : lic'[j] = lic[j] \/ lic'[j] = None
    BY <1>4 DEF AgentComes, AgentGoes, TypeOK
  <2>2. \A c \in Checks : (dead[c] => dead'[c]) /\ (ph'[c] = ph[c] \/ ph'[c] = "none")
    BY <1>4 DEF AgentComes, AgentGoes
  <2> QED
    BY <1>4, <2>1, <2>2 DEF AgentComes, AgentGoes, RoomGoes, PassGoes, Passing
<1>5. ASSUME NEW c \in Checks, NEW t \in Tickets, TicketComes(c, t) PROVE P
  BY <1>5 DEF TicketComes, TypeOK, RoomGoes, PassGoes, Passing
<1>6. ASSUME NEW c \in Checks, Claim(c) \/ ClaimFails(c) \/ Verified(c) PROVE P
  <2>1. \A k \in Machines : RoomGoes(k)
    BY <1>6 DEF Claim, ClaimFails, Verified, roomVars, RoomGoes
  <2>2. UNCHANGED <<on, tk, cut, dead>> /\ \A d \in Checks : d # c => ph'[d] = ph[d]
    BY <1>6 DEF Claim, ClaimFails, Verified, TypeOK
  <2>3. ph'[c] = "ok" => Claimed(c)
    BY <1>6 DEF Claim, ClaimFails, Verified, Claimed, TypeOK
  <2> QED
    BY <2>1, <2>2, <2>3 DEF PassGoes, Passing
<1>7. ASSUME NEW c \in Checks, Refused(c) \/ Answered(c) PROVE P
  <2>1. PICK l : Settles(c, l) /\ Outcome(c, l)
    BY <1>7, Outcomes
  <2>2. UNCHANGED <<on, tk, cut, dead>>
    BY <1>7, Outcomes
  <2>3. \A d \in Checks : d # c => ph'[d] = ph[d]
    BY <2>1, SettlesFacts
  <2>4. ph'[c] = "none"
    BY <2>1, SettlesFacts
  <2>5. \A k \in Machines : lic'[k] = lic[k] \/ (k = on[c] /\ lic'[k] = l)
    BY <2>1, SettlesFacts
  <2>6. \A k \in Machines : RoomGoes(k)
    BY <2>1, <2>5 DEF Outcome, RoomGoes
  <2> QED
    BY <2>2, <2>3, <2>4, <2>6 DEF PassGoes, Passing
<1> QED
  BY <1>1, <1>2, <1>3, <1>4, <1>5, <1>6, <1>7, Acts

-----------------------------------------------------------------------------
(* The home of tickets.                                                    *)

LEMMA HomeStep ==
  ASSUME TypeOK, HomeInv, CountInv, [Next]_vars
  PROVE  HomeInv'
<1> DEFINE A == \A k \in Machines : lic'[k] # None => Home[lic'[k].t.mid] = k /\ lic'[k].t \in valid'
           B == \A c \in Checks : ph'[c] # "none" => on'[c] = Home[tk'[c].mid]
           D == \A c \in Checks : dead'[c] => ph'[c] \in {"none", "queued"}
<1>1. ASSUME UNCHANGED valid, \A k \in Machines : RoomGoes(k)
      PROVE  A
  <2>1. ASSUME NEW k \in Machines, NEW c \in Checks, Passing(c), on[c] = k
        PROVE  Home[tk[c].mid] = k
    BY <2>1 DEF Passing, HomeInv
  <2> QED
    BY <1>1, <2>1 DEF RoomGoes, HomeInv
<1>2. CASE UNCHANGED <<roomVars, checkVars>> /\ valid \subseteq valid'
  BY <1>2 DEF roomVars, checkVars, HomeInv
<1>3. CASE QuietAct \/ UNCHANGED vars
  <2>1. \A m \in Mids : AccountAct(m) \/ MarkLapses(m) => valid \subseteq valid'
    BY DEF AccountAct, SignIn, IssueReads, IssueBinds, IssueReadsAgain, IssueSigns, Forget, MarkLapses, acctVars
  <2>2. PlanChanges \/ UNCHANGED vars => valid \subseteq valid'
    BY DEF PlanChanges, vars, acctVars
  <2>3. \A x \in Removals : RemovalAct(x) \/ DropMid(x) => valid \subseteq valid'
    BY DEF RemovalAct, StartRemoval, CallerLost, Mark, Delete, ReleaseFails, DropMid, acctVars
  <2>4. \A k \in Machines : Prune(k) => valid \subseteq valid'
    BY DEF Prune, acctVars
  <2> QED
    BY <1>2, <1>3, <2>1, <2>2, <2>3, <2>4, QuietFacts DEF QuietAct
<1>4. ASSUME NEW t \in Tickets, TicketExpires(t) PROVE HomeInv'
  BY <1>4 DEF TicketExpires, checkVars, HomeInv
<1>5. ASSUME NEW x \in Removals, TellRoom(x) PROVE HomeInv'
  <2>1. UNCHANGED valid
    BY <1>5 DEF TellRoom, acctVars
  <2>2. B /\ D
    BY <1>5 DEF TellRoom, HomeInv
  <2> QED
    BY <1>1, <2>1, <2>2, UseStep DEF HomeInv
<1>6. ASSUME NEW k \in Machines, AgentComes(k) \/ AgentGoes(k) PROVE HomeInv'
  <2>1. UNCHANGED valid
    BY <1>6 DEF AgentComes, AgentGoes, acctVars
  <2>2. \A c \in Checks : /\ ph'[c] = "none" \/ (ph'[c] = ph[c] /\ (dead'[c] => dead[c] \/ ph[c] = "queued"))
                          /\ on'[c] = on[c] /\ tk'[c] = tk[c]
    BY <1>6 DEF AgentComes, AgentGoes
  <2>3. B /\ D
    BY <2>2 DEF HomeInv
  <2> QED
    BY <1>1, <2>1, <2>3, UseStep DEF HomeInv
<1>7. ASSUME NEW c \in Checks, NEW t \in Tickets, TicketComes(c, t) PROVE HomeInv'
  <2>1. UNCHANGED valid
    BY <1>7 DEF TicketComes, acctVars
  <2>2. B /\ D
    BY <1>7 DEF TicketComes, HomeInv, TypeOK
  <2> QED
    BY <1>1, <2>1, <2>2, UseStep DEF HomeInv
<1>8. ASSUME NEW c \in Checks, Claim(c) \/ ClaimFails(c) \/ Verified(c) PROVE HomeInv'
  <2>1. UNCHANGED valid
    BY <1>8 DEF Claim, ClaimFails, Verified, acctVars
  <2>2. UNCHANGED <<on, tk, dead>> /\ \A d \in Checks : d # c => ph'[d] = ph[d]
    BY <1>8 DEF Claim, ClaimFails, Verified, TypeOK
  <2>3. ph[c] # "none" /\ (ph'[c] = "queued" \/ (dead[c] => ph'[c] = "none"))
    BY <1>8 DEF Claim, ClaimFails, Verified, TypeOK
  <2>4. B /\ D
    BY <2>2, <2>3 DEF HomeInv
  <2> QED
    BY <1>1, <2>1, <2>4, UseStep DEF HomeInv
<1>9. ASSUME NEW c \in Checks, Refused(c) \/ Answered(c) PROVE HomeInv'
  <2>1. UNCHANGED <<valid, on, tk, dead>>
    BY <1>9, Outcomes DEF acctVars
  <2>2. \A d \in Checks : ph'[d] = ph[d] \/ ph'[d] = "none"
    BY <1>9, Outcomes, SettlesFacts
  <2>3. B /\ D
    BY <2>1, <2>2 DEF HomeInv
  <2> QED
    BY <1>1, <2>1, <2>3, UseStep DEF HomeInv
<1> QED
  BY <1>3, <1>4, <1>5, <1>6, <1>7, <1>8, <1>9, Acts

-----------------------------------------------------------------------------
(* Slots.                                                                  *)

LEMMA LedgerKinds ==
  ASSUME [Next]_vars
  PROVE  \/ UNCHANGED <<reg, older, mids>>
         \/ \E x \in Removals : DropMid(x)
         \/ \E k \in Machines : Prune(k)
         \/ \E c \in Checks : Claim(c)
<1>1. \A m \in Mids : AccountAct(m) \/ MarkLapses(m) => UNCHANGED <<reg, older, mids>>
  BY DEF AccountAct, SignIn, IssueReads, IssueBinds, IssueReadsAgain, IssueSigns, Forget, MarkLapses, ledgerVars
<1>2. PlanChanges \/ UNCHANGED vars => UNCHANGED <<reg, older, mids>>
  BY DEF PlanChanges, vars, ledgerVars
<1>3. \A x \in Removals : RemovalAct(x) \/ TellRoom(x) => UNCHANGED <<reg, older, mids>>
  BY DEF RemovalAct, StartRemoval, CallerLost, Mark, Delete, ReleaseFails, TellRoom, ledgerVars
<1>4. \A t \in Tickets : TicketExpires(t) => UNCHANGED <<reg, older, mids>>
  BY DEF TicketExpires, ledgerVars
<1>5. \A k \in Machines : AgentComes(k) \/ AgentGoes(k) => UNCHANGED <<reg, older, mids>>
  BY DEF AgentComes, AgentGoes, ledgerVars
<1>6. \A c \in Checks, t \in Tickets : TicketComes(c, t) => UNCHANGED <<reg, older, mids>>
  BY DEF TicketComes, ledgerVars
<1>7. \A c \in Checks : ClaimFails(c) \/ Verified(c) \/ Refused(c) \/ Answered(c) => UNCHANGED <<reg, older, mids>>
  BY DEF ClaimFails, Verified, Refused, Answered, ledgerVars
<1> QED
  BY <1>1, <1>2, <1>3, <1>4, <1>5, <1>6, <1>7, Acts DEF QuietAct

LEMMA SlotStep ==
  ASSUME TypeOK, HomeInv, CountInv, SlotInv, RemovalInv, [Next]_vars
  PROVE  SlotInv'
<1>1. (\A k \in Machines : RoomGoes(k)) /\ (\A c \in Checks : PassGoes(c))
  BY UseStep
<1> DEFINE Held(k, m) == \/ lic[k] # None /\ lic[k].t.mid = m
                         \/ \E c \in Checks : Passing(c) /\ on[c] = k /\ tk[c].mid = m
<1>2. \A k \in Machines, m \in Mids : Held(k, m) => k \in reg /\ m \in mids[k]
  BY DEF SlotInv, RunsOnItsSlot
<1>3. \A k \in Machines : lic[k] # None => lic[k].t.mid \in Mids
  BY TicketFacts DEF TypeOK
<1>4. \A c \in Checks : tk[c].mid \in Mids /\ on[c] \in Machines
  BY TicketFacts DEF TypeOK
<1>5. ASSUME \A k \in Machines, m \in Mids : Held(k, m) => k \in reg' /\ m \in mids'[k],
             \A c \in Checks : Claimed(c) => on[c] \in reg' /\ tk[c].mid \in mids'[on[c]]
      PROVE  SlotInv'
  <2>1. ASSUME NEW k \in Machines, lic'[k] # None
        PROVE  k \in reg' /\ lic'[k].t.mid \in mids'[k]
    <3>1. lic'[k].t.mid \in Mids /\ Held(k, lic'[k].t.mid)
      BY <1>1, <1>3, <1>4, <2>1 DEF RoomGoes
    <3> QED
      BY <1>5, <3>1
  <2>2. ASSUME NEW c \in Checks, Passing(c)'
        PROVE  on'[c] \in reg' /\ tk'[c].mid \in mids'[on'[c]]
    <3>1. on'[c] = on[c] /\ tk'[c] = tk[c] /\ (Passing(c) \/ Claimed(c))
      BY <1>1, <2>2 DEF PassGoes
    <3>2. CASE Passing(c)
      BY <1>4, <1>5, <3>1, <3>2
    <3>3. CASE Claimed(c)
      BY <1>5, <3>1, <3>3
    <3> QED
      BY <3>1, <3>2, <3>3
  <2> QED
    BY <2>1, <2>2 DEF SlotInv, RunsOnItsSlot
<1>6. ASSUME NEW c \in Checks, Claimed(c)
      PROVE  on[c] \in reg' /\ tk[c].mid \in mids'[on[c]]
  BY <1>4, <1>6 DEF Claimed, Claim, TypeOK
<1>7. ASSUME NEW x \in Removals, DropMid(x),
             NEW k \in Machines, NEW m \in Mids, Held(k, m)
      PROVE  k \in reg' /\ m \in mids'[k]
  <2>1. remOf[x] \in Mids /\ Home[remOf[x]] \in Machines /\ LockedOut(remOf[x])
    BY <1>7, TicketFacts DEF DropMid, RemovalInv, GoneInv, TypeOK
  <2>2. m # remOf[x]
    BY <1>7, <2>1 DEF LockedOut, RunsNowhere
  <2>3. k \in reg /\ m \in mids[k]
    BY <1>2, <1>7
  <2>4. m \in mids'[k]
    BY <1>7, <2>1, <2>2, <2>3 DEF DropMid, TypeOK
  <2>5. k \in reg'
    BY <1>7, <2>1, <2>2, <2>3 DEF DropMid, Freed
  <2> QED
    BY <2>4, <2>5
<1>8. ASSUME NEW p \in Machines, Prune(p),
             NEW k \in Machines, NEW m \in Mids, Held(k, m)
      PROVE  k \in reg' /\ m \in mids'[k]
  <2>1. k \in reg /\ m \in mids[k]
    BY <1>2, <1>8
  <2>2. ~Unused(k, m)
    BY <1>8 DEF Unused, Passing
  <2>3. PICK gone \in SUBSET {n \in mids[p] : Unused(p, n)} :
          /\ mids' = [mids EXCEPT ![p] = @ \ gone]
          /\ \/ UNCHANGED <<reg, older>>
             \/ gone = mids[p] /\ Freed(p)
    BY <1>8 DEF Prune
  <2>4. k = p => m \notin gone
    BY <2>2, <2>3
  <2>5. m \in mids'[k]
    BY <2>1, <2>3, <2>4 DEF TypeOK
  <2>6. k \in reg'
    BY <2>1, <2>3, <2>4 DEF Freed
  <2> QED
    BY <2>5, <2>6
<1>9. ASSUME NEW c \in Checks, Claim(c),
             NEW k \in Machines, NEW m \in Mids, k \in reg /\ m \in mids[k]
      PROVE  k \in reg' /\ m \in mids'[k]
  <2>1. \/ UNCHANGED <<reg, mids>>
        \/ reg' = reg \cup {on[c]} /\ mids' = [mids EXCEPT ![on[c]] = @ \cup {tk[c].mid}]
    BY <1>9 DEF Claim, ledgerVars
  <2>2. mids \in [Machines -> SUBSET Mids]
    BY DEF TypeOK
  <2> HIDE DEF Held
  <2> QED
    BY <1>9, <2>1, <2>2
<1>10. ASSUME UNCHANGED <<reg, mids>>,
             NEW k \in Machines, NEW m \in Mids, k \in reg /\ m \in mids[k]
      PROVE  k \in reg' /\ m \in mids'[k]
  BY <1>10
<1>11. \/ UNCHANGED <<reg, mids>>
       \/ \E x \in Removals : DropMid(x)
       \/ \E k \in Machines : Prune(k)
       \/ \E c \in Checks : Claim(c)
  BY LedgerKinds
<1>12. \A k \in Machines, m \in Mids : Held(k, m) => k \in reg' /\ m \in mids'[k]
  <2> HIDE DEF Held
  <2> QED
    BY <1>2, <1>7, <1>8, <1>9, <1>10, <1>11
<1> QED
  BY <1>5, <1>6, <1>12

-----------------------------------------------------------------------------
(* Removals.                                                               *)

\* The steps, by what they do to rows, removals and the record of numbers.
LEMMA Kinds ==
  ASSUME [Next]_vars
  PROVE  \/ UNCHANGED <<acctVars, remVars, revoked>>
         \/ UNCHANGED <<row, key, issue, remVars, revoked>> /\ valid' \subseteq valid
         \/ UNCHANGED <<remVars, ledgerVars, roomVars, checkVars>> /\ \E m \in Mids : AccountAct(m)
         \/ \E m \in Mids : MarkLapses(m)
         \/ \E x \in Removals : RemovalAct(x) \/ TellRoom(x) \/ DropMid(x)
<1>1. \A m \in Mids : AccountAct(m) => UNCHANGED <<remVars, ledgerVars, roomVars, checkVars>>
  BY DEF AccountAct, SignIn, IssueReads, IssueBinds, IssueReadsAgain, IssueSigns, Forget
<1>2. PlanChanges \/ UNCHANGED vars => UNCHANGED <<row, key, issue, remVars, revoked>> /\ valid' \subseteq valid
  BY DEF PlanChanges, vars, acctVars, ledgerVars
<1>3. \A t \in Tickets : TicketExpires(t) => UNCHANGED <<row, key, issue, remVars, revoked>> /\ valid' \subseteq valid
  BY DEF TicketExpires, ledgerVars
<1>4. \A k \in Machines : AgentComes(k) \/ AgentGoes(k) \/ Prune(k) => UNCHANGED <<acctVars, remVars, revoked>>
  BY DEF AgentComes, AgentGoes, Prune, ledgerVars
<1>5. \A c \in Checks, t \in Tickets : TicketComes(c, t) => UNCHANGED <<acctVars, remVars, revoked>>
  BY DEF TicketComes, ledgerVars
<1>6. \A c \in Checks : Claim(c) \/ ClaimFails(c) \/ Verified(c) \/ Refused(c) \/ Answered(c)
                          => UNCHANGED <<acctVars, remVars, revoked>>
  BY DEF Claim, ClaimFails, Verified, Refused, Answered, ledgerVars
<1> QED
  BY <1>1, <1>2, <1>3, <1>4, <1>5, <1>6, Acts DEF QuietAct

\* What a removal does to a row: mark it, take the mark off again, delete it.
RowGoes(x, m) ==
  \/ row'[m] = row[m]
  \/ row[m] \in {"signed", "deleting"} /\ row'[m] = "deleting"
  \/ row[m] = "deleting" /\ row'[m] = "signed" /\ m = remOf[x] /\ rem[x] \in Releasing
  \/ row'[m] = "removed" /\ m = remOf[x] /\ rem[x] = "delete" /\ Delete(x)

LEMMA RemovalRows ==
  ASSUME TypeOK, NEW x \in Removals, RemovalAct(x) \/ TellRoom(x) \/ DropMid(x)
  PROVE  UNCHANGED <<key, issue, valid>> /\ \A m \in Mids : RowGoes(x, m)
<1>1. UNCHANGED <<key, issue, valid>>
  BY DEF RemovalAct, StartRemoval, CallerLost, Mark, Delete, ReleaseFails, TellRoom, DropMid, acctVars
<1>2. \A m \in Mids : Unmarked(x)[m] = row[m]
        \/ (row[m] = "deleting" /\ Unmarked(x)[m] = "signed" /\ m = remOf[x])
  BY DEF Unmarked, TypeOK
<1>3. CASE TellRoom(x) \/ DropMid(x)
  BY <1>1, <1>3 DEF TellRoom, DropMid, acctVars, RowGoes
<1>4. ASSUME NEW m \in Mids, StartRemoval(x, m) PROVE \A n \in Mids : RowGoes(x, n)
  BY <1>4 DEF StartRemoval, RowGoes, TypeOK
<1>5. ASSUME NEW unmarks \in BOOLEAN, CallerLost(x, unmarks) PROVE \A n \in Mids : RowGoes(x, n)
  <2>1. row' = row \/ (row' = Unmarked(x) /\ rem[x] \in Releasing)
    BY <1>5 DEF CallerLost, TypeOK
  <2> QED
    BY <1>2, <2>1 DEF RowGoes
<1>6. CASE Mark(x) \/ ReleaseFails(x)
  <2>1. rem[x] \in Releasing /\ (row' = row \/ row' = Unmarked(x))
    BY <1>6 DEF Mark, ReleaseFails, Releasing
  <2> QED
    BY <1>1, <1>2, <2>1 DEF RowGoes
<1>7. CASE Delete(x)
  BY <1>1, <1>7 DEF Delete, RowGoes, TypeOK
<1> QED
  BY <1>1, <1>3, <1>4, <1>5, <1>6, <1>7 DEF RemovalAct

LEMMA KeyStep ==
  ASSUME TypeOK, KeyInv, [Next]_vars
  PROVE  KeyInv'
<1>1. CASE UNCHANGED <<acctVars, remVars, revoked>>
  BY <1>1 DEF acctVars, KeyInv, NoTickets
<1>2. CASE UNCHANGED <<row, key, issue, remVars, revoked>> /\ valid' \subseteq valid
  BY <1>2 DEF KeyInv, NoTickets
<1>3. ASSUME NEW n \in Mids, AccountAct(n) PROVE KeyInv'
  <2>1. ASSUME NEW known \in BOOLEAN, SignIn(n, known) PROVE KeyInv'
    BY <2>1 DEF SignIn, KeyInv, NoTickets, TypeOK
  <2>2. CASE IssueReads(n)
    BY <2>2 DEF IssueReads, KeyInv, NoTickets, TypeOK
  <2>3. CASE IssueBinds(n)
    BY <2>3 DEF IssueBinds, KeyInv, NoTickets, TypeOK
  <2>4. CASE IssueReadsAgain(n)
    BY <2>4 DEF IssueReadsAgain, KeyInv, NoTickets, TypeOK
  <2>5. CASE IssueSigns(n)
    BY <2>5 DEF IssueSigns, KeyInv, NoTickets, TypeOK
  <2>6. CASE Forget(n)
    BY <2>6 DEF Forget, KeyInv, NoTickets, TypeOK
  <2> QED
    BY <1>3, <2>1, <2>2, <2>3, <2>4, <2>5, <2>6 DEF AccountAct
<1>4. ASSUME NEW m \in Mids, MarkLapses(m) PROVE KeyInv'
  BY <1>4 DEF MarkLapses, acctVars, KeyInv, NoTickets
<1>5. ASSUME NEW x \in Removals, RemovalAct(x) \/ TellRoom(x) \/ DropMid(x) PROVE KeyInv'
  BY <1>5, RemovalRows DEF RowGoes, KeyInv, NoTickets
<1> QED
  BY <1>1, <1>2, <1>3, <1>4, <1>5, Kinds

\* What stays as it is: rows and keys that are there, and numbers recorded
\* while a removal needs them.
LEMMA Lasting ==
  ASSUME TypeOK, KeyInv, [Next]_vars, NEW m \in Mids
  PROVE  /\ row[m] # "absent" => row'[m] # "absent" /\ (key[m] => key'[m])
         /\ row[m] = "removed" => row'[m] = "removed" /\ (NoTickets(m) => NoTickets(m)')
         /\ m \in revoked => \/ m \in revoked'
                             \/ /\ NoTickets(m) /\ UNCHANGED <<acctVars, remVars, roomVars, checkVars>>
                                /\ \A x \in Removals : rem[x] # "none" => remOf[x] # m
<1> DEFINE P == /\ row[m] # "absent" => row'[m] # "absent" /\ (key[m] => key'[m])
                /\ row[m] = "removed" => row'[m] = "removed" /\ (NoTickets(m) => NoTickets(m)')
                /\ m \in revoked => \/ m \in revoked'
                                    \/ /\ NoTickets(m) /\ UNCHANGED <<acctVars, remVars, roomVars, checkVars>>
                                       /\ \A x \in Removals : rem[x] # "none" => remOf[x] # m
<1>1. CASE UNCHANGED <<acctVars, remVars, revoked>>
  BY <1>1 DEF acctVars, NoTickets
<1>2. CASE UNCHANGED <<row, key, issue, remVars, revoked>> /\ valid' \subseteq valid
  BY <1>2 DEF NoTickets
<1>3. ASSUME NEW n \in Mids, AccountAct(n), UNCHANGED ledgerVars PROVE P
  <2>1. revoked' = revoked
    BY <1>3 DEF ledgerVars
  <2>2. ASSUME NEW known \in BOOLEAN, SignIn(n, known) PROVE P
    BY <2>1, <2>2 DEF SignIn, NoTickets, TypeOK
  <2>3. CASE IssueReads(n)
    BY <2>1, <2>3 DEF IssueReads, NoTickets, TypeOK
  <2>4. CASE IssueBinds(n)
    BY <2>1, <2>4 DEF IssueBinds, NoTickets, TypeOK
  <2>5. CASE IssueReadsAgain(n)
    BY <2>1, <2>5 DEF IssueReadsAgain, NoTickets, TypeOK
  <2>6. CASE IssueSigns(n)
    BY <2>1, <2>6 DEF IssueSigns, NoTickets, TypeOK
  <2>7. CASE Forget(n)
    BY <2>1, <2>7 DEF Forget, NoTickets, TypeOK
  <2> QED
    BY <1>3, <2>2, <2>3, <2>4, <2>5, <2>6, <2>7 DEF AccountAct
<1>4. ASSUME NEW n \in Mids, MarkLapses(n) PROVE P
  <2>1. n = m => NoTickets(m) /\ \A x \in Removals : rem[x] # "none" => remOf[x] # m
    BY <1>4 DEF MarkLapses, NoTickets
  <2>2. UNCHANGED <<acctVars, remVars, roomVars, checkVars>> /\ revoked' = revoked \ {n}
    BY <1>4 DEF MarkLapses
  <2> QED
    BY <2>1, <2>2 DEF acctVars, NoTickets
<1>5. ASSUME NEW x \in Removals, RemovalAct(x) \/ TellRoom(x) \/ DropMid(x) PROVE P
  <2>1. revoked \subseteq revoked'
    BY <1>5 DEF RemovalAct, StartRemoval, CallerLost, Mark, Delete, ReleaseFails, TellRoom, DropMid, ledgerVars
  <2>2. UNCHANGED <<key, issue, valid>> /\ RowGoes(x, m)
    BY <1>5, RemovalRows
  <2> QED
    BY <2>1, <2>2 DEF RowGoes, NoTickets
<1> QED
  BY <1>1, <1>2, <1>3, <1>4, <1>5, Kinds

\* How removal x goes on.
RemGoes(x) ==
  \/ rem'[x] = "none"
  \/ /\ remOf'[x] = remOf[x]
     /\ \/ rem'[x] = rem[x]
        \/ rem[x] = "release" /\ rem'[x] = "telling" /\ remOf[x] \in revoked'
        \/ rem[x] = "telling" /\ rem'[x] = "told" /\ TellRoom(x)
        \/ rem[x] = "told" /\ rem'[x] = "delete" /\ DropMid(x)
  \/ /\ remOf'[x] \in Mids /\ row'[remOf'[x]] = "deleting" /\ UNCHANGED key
     /\ rem'[x] = IF key[remOf'[x]] THEN "release" ELSE "delete"

LEMMA RemovalGoes ==
  ASSUME TypeOK, [Next]_vars, NEW x \in Removals
  PROVE  RemGoes(x)
<1>1. CASE UNCHANGED remVars
  BY <1>1 DEF remVars, RemGoes
<1>2. ASSUME NEW y \in Removals, NEW m \in Mids, StartRemoval(y, m) PROVE RemGoes(x)
  BY <1>2 DEF StartRemoval, RemGoes, TypeOK
<1>3. ASSUME NEW y \in Removals, NEW unmarks \in BOOLEAN, CallerLost(y, unmarks) PROVE RemGoes(x)
  BY <1>3 DEF CallerLost, RemGoes, TypeOK
<1>4. ASSUME NEW y \in Removals, Mark(y) PROVE RemGoes(x)
  BY <1>4 DEF Mark, RemGoes, TypeOK
<1>5. ASSUME NEW y \in Removals, Delete(y) \/ ReleaseFails(y) PROVE RemGoes(x)
  BY <1>5 DEF Delete, ReleaseFails, RemGoes, TypeOK
<1>6. ASSUME NEW y \in Removals, TellRoom(y) PROVE RemGoes(x)
  BY <1>6 DEF TellRoom, RemGoes, TypeOK
<1>7. ASSUME NEW y \in Removals, DropMid(y) PROVE RemGoes(x)
  BY <1>7 DEF DropMid, RemGoes, TypeOK
<1>8. \A m \in Mids : MarkLapses(m) => UNCHANGED remVars
  BY DEF MarkLapses
<1>9. UNCHANGED <<row, key, issue, remVars, revoked>> \/ UNCHANGED <<acctVars, remVars, revoked>>
        => UNCHANGED remVars
  OBVIOUS
<1> QED
  BY <1>1, <1>2, <1>3, <1>4, <1>5, <1>6, <1>7, <1>8, <1>9, Kinds DEF RemovalAct

LEMMA ProgressStep ==
  ASSUME TypeOK, KeyInv, ProgressInv, [Next]_vars
  PROVE  ProgressInv'
<1> SUFFICES ASSUME NEW x \in Removals
    PROVE  /\ rem'[x] # "none" => row'[remOf'[x]] # "absent"
           /\ rem'[x] \in Releasing => key'[remOf'[x]]
           /\ rem'[x] \in {"telling", "told"} => remOf'[x] \in revoked'
  BY DEF ProgressInv
<1>1. RemGoes(x)
  BY RemovalGoes
<1>2. remOf[x] \in Mids
  BY DEF TypeOK
<1>3. CASE rem'[x] # "none" /\ rem[x] # "none" /\ remOf'[x] = remOf[x]
  <2>1. row'[remOf[x]] # "absent" /\ (key[remOf[x]] => key'[remOf[x]])
    BY <1>2, <1>3, Lasting DEF ProgressInv
  <2>2. remOf[x] \in revoked => remOf[x] \in revoked'
    BY <1>2, <1>3, Lasting
  <2> QED
    BY <1>1, <1>3, <2>1, <2>2 DEF RemGoes, ProgressInv, Releasing
<1>4. CASE rem'[x] # "none" /\ ~(rem[x] # "none" /\ remOf'[x] = remOf[x])
  BY <1>1, <1>4 DEF RemGoes, Releasing
<1>5. CASE rem'[x] = "none"
  BY <1>5 DEF Releasing
<1> QED
  BY <1>3, <1>4, <1>5

\* Who is locked out stays so while the number is recorded.
LEMMA LockedOutStays ==
  ASSUME TypeOK, HomeInv, CountInv, [Next]_vars, NEW m \in Mids, LockedOut(m), m \in revoked'
  PROVE  LockedOut(m)'
<1>1. (\A k \in Machines : RoomGoes(k)) /\ (\A c \in Checks : PassGoes(c))
  BY UseStep
<1>2. RunsNowhere(m)'
  BY <1>1 DEF LockedOut, RunsNowhere, RoomGoes
<1>3. \A c \in Checks : Passing(c)' => tk'[c].mid # m
  BY <1>1 DEF LockedOut, PassGoes, Claimed
<1> QED
  BY <1>2, <1>3 DEF LockedOut

LEMMA GoneStep ==
  ASSUME TypeOK, HomeInv, CountInv, RemovalInv, [Next]_vars
  PROVE  GoneInv'
<1>1. KeyInv /\ ProgressInv /\ GoneInv
  BY DEF RemovalInv
<1>2. ASSUME NEW m \in Mids, NoTickets(m) PROVE RunsNowhere(m)
  BY <1>2 DEF NoTickets, RunsNowhere, HomeInv
<1>3. ASSUME NEW x \in Removals, TellRoom(x), ProgressInv PROVE LockedOut(remOf[x])'
  <2> DEFINE m == remOf[x]
  <2>1. m \in Mids /\ Home[m] \in Machines /\ m \in revoked
    BY <1>3, TicketFacts DEF TellRoom, ProgressInv, TypeOK
  <2>2. remOf'[x] = m /\ revoked' = revoked
    BY <1>3 DEF TellRoom, ledgerVars
  <2>3. \A k \in Machines : lic'[k] # None => lic'[k].t.mid # m
    BY <1>3, <2>1 DEF TellRoom, HomeInv, TypeOK
  <2>4. ASSUME NEW c \in Checks, Passing(c)' PROVE tk'[c].mid # m
    <3>1. UNCHANGED <<on, tk, ph, dead>> /\ ph[c] \in Claiming /\ ~dead[c]
      BY <1>3, <2>4 DEF TellRoom, Passing, Claiming
    <3>2. tk[c].mid = m => on[c] = Home[m]
      BY <3>1 DEF HomeInv, Claiming
    <3> QED
      BY <1>3, <2>4, <3>1, <3>2 DEF TellRoom, Passing
  <2> QED
    BY <2>1, <2>2, <2>3, <2>4 DEF LockedOut, RunsNowhere
<1>4. ASSUME NEW x \in Removals
      PROVE  /\ rem'[x] = "told" => LockedOut(remOf[x])'
             /\ rem'[x] = "delete" =>
                  LockedOut(remOf[x])' \/ (~key'[remOf'[x]] /\ row'[remOf'[x]] # "signed")
  <2> DEFINE m == remOf[x]
  <2>1. RemGoes(x) /\ m \in Mids
    BY RemovalGoes DEF TypeOK
  <2>2. ASSUME rem[x] # "none", LockedOut(m), remOf'[x] = remOf[x] PROVE LockedOut(remOf[x])'
    <3>1. m \in revoked'
      BY <1>1, <2>1, <2>2, Lasting DEF LockedOut
    <3>2. \A n \in Mids : LockedOut(n) /\ n \in revoked' => LockedOut(n)'
      BY LockedOutStays
    <3> QED
      BY <2>1, <2>2, <3>1, <3>2 DEF LockedOut, RunsNowhere
  <2>3. CASE rem'[x] = "told"
    <3>1. CASE rem[x] = "told" /\ remOf'[x] = remOf[x]
      BY <1>1, <2>2, <2>3, <3>1 DEF GoneInv
    <3>2. CASE TellRoom(x)
      BY <1>1, <1>3, <2>3, <3>2
    <3> QED
      BY <2>1, <2>3, <3>1, <3>2 DEF RemGoes
  <2>4. CASE rem'[x] = "delete"
    <3>1. CASE rem[x] \in {"told", "delete"} /\ remOf'[x] = remOf[x] /\ LockedOut(m)
      BY <2>2, <2>4, <3>1
    <3>2. CASE rem[x] = "delete" /\ remOf'[x] = remOf[x] /\ ~key[m] /\ row[m] # "signed"
      <4>1. row[m] # "absent"
        BY <1>1, <3>2 DEF ProgressInv
      <4>2. ~key'[m] /\ row'[m] # "signed"
        <5>1. ASSUME NEW n \in Mids, AccountAct(n) PROVE ~key'[m] /\ row'[m] # "signed"
          BY <2>1, <3>2, <4>1, <5>1 DEF AccountAct, SignIn, IssueReads, IssueBinds, IssueReadsAgain, IssueSigns,
             Forget, TypeOK
        <5>2. ASSUME NEW y \in Removals, RemovalAct(y) \/ TellRoom(y) \/ DropMid(y)
              PROVE  ~key'[m] /\ row'[m] # "signed"
          <6>1. UNCHANGED key /\ RowGoes(y, m)
            BY <2>1, <5>2, RemovalRows
          <6>2. m = remOf[y] => rem[y] \notin Releasing
            BY <1>1, <3>2 DEF ProgressInv
          <6> QED
            BY <3>2, <6>1, <6>2 DEF RowGoes
        <5>3. \A n \in Mids : MarkLapses(n) => UNCHANGED <<row, key>>
          BY DEF MarkLapses, acctVars
        <5>4. UNCHANGED acctVars => UNCHANGED <<row, key>>
          BY DEF acctVars
        <5> QED
          BY <3>2, <5>1, <5>2, <5>3, <5>4, Kinds
      <4> QED
        BY <2>4, <3>2, <4>2
    <3>3. CASE ~(rem[x] \in {"told", "delete"} /\ remOf'[x] = remOf[x])
      BY <2>1, <2>4, <3>3 DEF RemGoes
    <3> QED
      BY <1>1, <3>1, <3>2, <3>3 DEF GoneInv
  <2> QED
    BY <2>3, <2>4
<1>5. ASSUME NEW m \in Mids, row'[m] = "removed"
      PROVE  RunsNowhere(m)' /\ (LockedOut(m)' \/ NoTickets(m)')
  <2>1. ASSUME LockedOut(m) PROVE RunsNowhere(m)' /\ (LockedOut(m)' \/ NoTickets(m)')
    <3>1. CASE m \in revoked'
      BY <2>1, <3>1, LockedOutStays DEF LockedOut
    <3>2. CASE NoTickets(m) /\ UNCHANGED <<acctVars, remVars, roomVars, checkVars>>
      BY <2>1, <3>2 DEF LockedOut, RunsNowhere, NoTickets, acctVars, roomVars
    <3> QED
      BY <1>1, <2>1, <3>1, <3>2, Lasting DEF LockedOut
  <2>2. ASSUME NoTickets(m), NoTickets(m)' PROVE RunsNowhere(m)'
    <3>1. \A k \in Machines : RoomGoes(k)
      BY UseStep
    <3> QED
      BY <1>2, <2>2, <3>1 DEF RoomGoes, RunsNowhere, NoTickets
  <2>3. CASE row[m] = "removed"
    BY <1>1, <2>1, <2>2, <2>3, Lasting DEF GoneInv
  <2>4. CASE Forget(m)
    <3>1. NoTickets(m) /\ NoTickets(m)'
      BY <2>4 DEF Forget, NoTickets
    <3> QED
      BY <2>2, <3>1
  <2>5. ASSUME NEW x \in Removals, Delete(x), m = remOf[x], rem[x] = "delete"
        PROVE  RunsNowhere(m)' /\ (LockedOut(m)' \/ NoTickets(m)')
    <3>1. CASE LockedOut(m)
      BY <2>1, <3>1
    <3>2. CASE ~key[m]
      <4>1. NoTickets(m) /\ NoTickets(m)'
        BY <1>1, <2>5, <3>2 DEF KeyInv, Delete, NoTickets
      <4> QED
        BY <2>2, <4>1
    <3> QED
      BY <1>1, <2>5, <3>1, <3>2 DEF GoneInv
  <2>6. CASE row[m] # "removed"
    <3>1. ASSUME NEW n \in Mids, AccountAct(n) PROVE Forget(m)
      BY <1>5, <2>6, <3>1 DEF AccountAct, SignIn, IssueReads, IssueBinds, IssueReadsAgain, IssueSigns, Forget, TypeOK
    <3>2. ASSUME NEW x \in Removals, RemovalAct(x) \/ TellRoom(x) \/ DropMid(x)
          PROVE  Delete(x) /\ m = remOf[x] /\ rem[x] = "delete"
      BY <1>5, <2>6, <3>2, RemovalRows DEF RowGoes
    <3>3. \A n \in Mids : MarkLapses(n) => UNCHANGED row
      BY DEF MarkLapses, acctVars
    <3>4. UNCHANGED acctVars => UNCHANGED row
      BY DEF acctVars
    <3> QED
      BY <1>5, <2>4, <2>5, <2>6, <3>1, <3>2, <3>3, <3>4, Kinds
  <2> QED
    BY <2>3, <2>6
<1> QED
  BY <1>4, <1>5 DEF GoneInv

-----------------------------------------------------------------------------
(* The numbers of tickets.                                                 *)

\* The check that ticket n of machine k is waiting for.
Awaited(k, n) == \E c \in Checks : on[c] = k /\ ph[c] # "none" /\ ~dead[c] /\ gen[c] = n

LEMMA CountStep ==
  ASSUME TypeOK, HomeInv, CountInv, [Next]_vars
  PROVE  CountInv'
<1> DEFINE Mine == \A c \in Checks : ph[c] # "none" /\ ~dead[c] => alive[on[c]] /\ gen[c] \in 1..seq[on[c]]
           Known == \A k \in Machines : alive[k] =>
                      applied[k] <= seq[k] /\ (lic[k] # None => lic[k].gen = applied[k])
           Waits == \A k \in Machines : alive[k] =>
                      \A n \in 1..MaxTickets : applied[k] < n /\ n <= seq[k] => Awaited(k, n)
<1>1. Mine /\ Known /\ Waits
  BY DEF CountInv, Awaited
<1> SUFFICES Mine' /\ Known' /\ Waits'
  BY DEF CountInv, Awaited
<1>2. CASE QuietAct \/ UNCHANGED vars
  BY <1>1, <1>2, QuietFacts DEF roomVars, checkVars, Awaited
<1>3. ASSUME NEW t \in Tickets, TicketExpires(t) PROVE Mine' /\ Known' /\ Waits'
  BY <1>1, <1>3 DEF TicketExpires, checkVars, Awaited
<1>4. ASSUME NEW x \in Removals, TellRoom(x) PROVE Mine' /\ Known' /\ Waits'
  <2>1. \A k \in Machines : lic'[k] = lic[k] \/ lic'[k] = None
    BY <1>4 DEF TellRoom, TypeOK
  <2>2. UNCHANGED <<alive, seq, applied, on, tk, gen, ph, dead>>
    BY <1>4 DEF TellRoom
  <2> QED
    BY <1>1, <2>1, <2>2 DEF Awaited
<1>5. ASSUME NEW k \in Machines, AgentComes(k) PROVE Mine' /\ Known' /\ Waits'
  <2>1. alive'[k] /\ seq'[k] = 0 /\ applied'[k] = 0 /\ lic'[k] = None
    BY <1>5 DEF AgentComes, TypeOK
  <2>2. \A j \in Machines : j # k =>
          alive'[j] = alive[j] /\ seq'[j] = seq[j] /\ applied'[j] = applied[j] /\ lic'[j] = lic[j]
    BY <1>5 DEF AgentComes, TypeOK
  <2>3. UNCHANGED <<on, gen>>
    BY <1>5 DEF AgentComes
  <2>4. \A c \in Checks : on[c] # k => ph'[c] = ph[c] /\ dead'[c] = dead[c]
    BY <1>5 DEF AgentComes, TypeOK
  <2>5. \A c \in Checks : on[c] = k => ph'[c] = "none" \/ dead'[c]
    BY <1>5 DEF AgentComes, TypeOK
  <2>6. Mine'
    BY <1>1, <2>2, <2>3, <2>4, <2>5 DEF TypeOK
  <2>7. Known'
    BY <1>1, <2>1, <2>2
  <2>8. Waits'
    BY <1>1, <2>1, <2>2, <2>3, <2>4 DEF Awaited
  <2> QED
    BY <2>6, <2>7, <2>8
<1>6. ASSUME NEW k \in Machines, AgentGoes(k) PROVE Mine' /\ Known' /\ Waits'
  <2>1. ~alive'[k] /\ UNCHANGED <<seq, applied>>
    BY <1>6 DEF AgentGoes, TypeOK
  <2>2. \A j \in Machines : j # k => alive'[j] = alive[j] /\ lic'[j] = lic[j]
    BY <1>6 DEF AgentGoes, TypeOK
  <2>3. UNCHANGED <<on, gen>>
    BY <1>6 DEF AgentGoes
  <2>4. \A c \in Checks : on[c] # k => ph'[c] = ph[c] /\ dead'[c] = dead[c]
    BY <1>6 DEF AgentGoes, TypeOK
  <2>5. \A c \in Checks : on[c] = k => ph'[c] = "none" \/ dead'[c]
    BY <1>6 DEF AgentGoes, TypeOK
  <2>6. Mine'
    BY <1>1, <2>1, <2>2, <2>3, <2>4, <2>5 DEF TypeOK
  <2>7. Known'
    BY <1>1, <2>1, <2>2
  <2>8. Waits'
    BY <1>1, <2>1, <2>2, <2>3, <2>4 DEF Awaited
  <2> QED
    BY <2>6, <2>7, <2>8
<1>7. ASSUME NEW c \in Checks, NEW t \in Tickets, TicketComes(c, t) PROVE Mine' /\ Known' /\ Waits'
  <2> DEFINE k == Home[t.mid]
  <2>1. k \in Machines /\ alive[k] /\ ph[c] = "none"
    BY <1>7, TicketFacts DEF TicketComes
  <2>2. UNCHANGED <<alive, applied, lic>>
    BY <1>7 DEF TicketComes
  <2>3. seq[k] \in Nat /\ seq'[k] = seq[k] + 1 /\ \A j \in Machines : j # k => seq'[j] = seq[j]
    BY <1>7, <2>1, Numbers DEF TicketComes, TypeOK
  <2>4. on'[c] = k /\ gen'[c] = seq[k] + 1 /\ ph'[c] = "verifying" /\ ~dead'[c]
    BY <1>7 DEF TicketComes, TypeOK
  <2>5. \A d \in Checks : d # c => on'[d] = on[d] /\ gen'[d] = gen[d] /\ ph'[d] = ph[d] /\ dead'[d] = dead[d]
    BY <1>7 DEF TicketComes, TypeOK
  <2>6. \A j \in Machines : seq[j] \in Nat /\ applied[j] \in Nat
    BY Numbers DEF TypeOK
  <2> HIDE DEF k
  <2>7. Mine'
    BY <1>1, <2>1, <2>2, <2>3, <2>4, <2>5, <2>6 DEF TypeOK
  <2>8. Known'
    BY <1>1, <2>2, <2>3, <2>6
  <2>9. ASSUME NEW j \in Machines, alive[j], NEW n \in 1..MaxTickets, applied[j] < n, n <= seq'[j]
        PROVE  Awaited(j, n)'
    <3>1. CASE j = k /\ n = seq[k] + 1
      BY <2>4, <3>1 DEF Awaited
    <3>2. CASE ~(j = k /\ n = seq[k] + 1)
      <4>1. n <= seq[j]
        BY <2>3, <2>6, <2>9, <3>2, Numbers
      <4>2. PICK d \in Checks : on[d] = j /\ ph[d] # "none" /\ ~dead[d] /\ gen[d] = n
        BY <1>1, <2>9, <4>1 DEF Awaited
      <4> QED
        BY <2>1, <2>5, <4>2 DEF Awaited
    <3> QED
      BY <3>1, <3>2
  <2> QED
    BY <2>2, <2>7, <2>8, <2>9
<1>8. ASSUME NEW c \in Checks, Claim(c) \/ ClaimFails(c) \/ Verified(c) PROVE Mine' /\ Known' /\ Waits'
  <2>1. UNCHANGED <<alive, seq, applied, lic, on, gen, dead>>
    BY <1>8 DEF Claim, ClaimFails, Verified, roomVars
  <2>2. \A d \in Checks : d # c => ph'[d] = ph[d]
    BY <1>8 DEF Claim, ClaimFails, Verified, TypeOK
  <2>3. ph[c] # "none" /\ (~dead[c] => ph'[c] # "none")
    BY <1>8 DEF Claim, ClaimFails, Verified, TypeOK
  <2>4. \A d \in Checks : ~dead[d] => (ph'[d] # "none" <=> ph[d] # "none")
    BY <2>2, <2>3
  <2> QED
    BY <1>1, <2>1, <2>4 DEF Awaited
<1>9. ASSUME NEW c \in Checks, Refused(c) \/ Answered(c) PROVE Mine' /\ Known' /\ Waits'
  <2>1. PICK l : Settles(c, l) /\ Outcome(c, l)
    BY <1>9, Outcomes
  <2>2. UNCHANGED <<alive, seq, on, gen, dead>> /\ ph[c] # "none" /\ ~dead[c]
    BY <1>9, Outcomes
  <2>3. /\ on[c] \in Machines /\ ph'[c] = "none"
        /\ \A d \in Checks : d # c => ph'[d] = ph[d]
        /\ \A k \in Machines : k # on[c] => lic'[k] = lic[k] /\ applied'[k] = applied[k]
        /\ \/ applied[on[c]] > gen[c] /\ lic' = lic /\ applied' = applied
           \/ ~(applied[on[c]] > gen[c]) /\ lic'[on[c]] = l /\ applied'[on[c]] = gen[c]
    BY <2>1, SettlesFacts
  <2>4. \A j \in Machines : seq[j] \in Nat /\ applied[j] \in Nat
    BY Numbers DEF TypeOK
  <2>5. alive[on[c]] /\ gen[c] \in 1..seq[on[c]]
    BY <1>1, <2>2
  <2>6. Mine'
    BY <1>1, <2>2, <2>3
  <2>7. Known'
    BY <1>1, <2>1, <2>2, <2>3, <2>4, <2>5 DEF Outcome
  <2>8. ASSUME NEW j \in Machines, alive[j], NEW n \in 1..MaxTickets, applied'[j] < n, n <= seq[j]
        PROVE  Awaited(j, n)'
    <3>1. applied[j] < n /\ (j = on[c] => n # gen[c])
      BY <2>3, <2>4, <2>5, <2>8
    <3>2. PICK d \in Checks : on[d] = j /\ ph[d] # "none" /\ ~dead[d] /\ gen[d] = n
      BY <1>1, <2>8, <3>1 DEF Awaited
    <3> QED
      BY <2>2, <2>3, <3>1, <3>2 DEF Awaited
  <2> QED
    BY <2>2, <2>6, <2>7, <2>8
<1> QED
  BY <1>2, <1>3, <1>4, <1>5, <1>6, <1>7, <1>8, <1>9, Acts

-----------------------------------------------------------------------------
(* The order of machines, and the plan.                                    *)

\* What a step does to the order: nothing, or machine k leaves, or it comes last.
OrderGoes ==
  \/ UNCHANGED <<reg, older>>
  \/ \E k \in Machines : Freed(k)
  \/ \E k \in Machines \ reg : reg' = reg \cup {k} /\ older' = [older EXCEPT ![k] = reg]

LEMMA Orders ==
  ASSUME TypeOK, [Next]_vars
  PROVE  OrderGoes
<1>1. ASSUME NEW x \in Removals, DropMid(x) PROVE OrderGoes
  <2>1. Home[remOf[x]] \in Machines
    BY TicketFacts DEF TypeOK
  <2> QED
    BY <1>1, <2>1 DEF DropMid, OrderGoes
<1>2. ASSUME NEW k \in Machines, Prune(k) PROVE OrderGoes
  BY <1>2 DEF Prune, OrderGoes
<1>3. ASSUME NEW c \in Checks, Claim(c) PROVE OrderGoes
  <2>1. on[c] \in Machines
    BY DEF TypeOK
  <2>2. CASE on[c] \in reg
    BY <1>3, <2>2 DEF Claim, ledgerVars, OrderGoes
  <2>3. CASE on[c] \notin reg
    BY <1>3, <2>1, <2>3 DEF Claim, ledgerVars, OrderGoes
  <2> QED
    BY <2>2, <2>3
<1> QED
  BY <1>1, <1>2, <1>3, LedgerKinds DEF OrderGoes

LEMMA OrderStep ==
  ASSUME TypeOK, OrderInv, [Next]_vars
  PROVE  OrderInv'
<1>1. reg \subseteq Machines /\ older \in [Machines -> SUBSET Machines]
  BY DEF TypeOK
<1>2. CASE UNCHANGED <<reg, older>>
  BY <1>2 DEF OrderInv
<1>3. ASSUME NEW k \in Machines, Freed(k) PROVE OrderInv'
  <2>1. reg' = reg \ {k} /\ older'[k] = {} /\ \A j \in Machines : j # k => older'[j] = older[j] \ {k}
    BY <1>3 DEF Freed
  <2>2. IsFiniteSet(reg')
    BY <2>1, FS_Subset DEF OrderInv
  <2>3. \A j \in Machines : older'[j] \subseteq reg' \ {j}
    BY <2>1 DEF OrderInv
  <2>4. \A i, j \in reg' : i # j => i \in older'[j] \/ j \in older'[i]
    BY <1>1, <2>1 DEF OrderInv
  <2>5. \A j \in Machines : \A i \in older'[j] : older'[i] \subseteq older'[j]
    BY <1>1, <2>1 DEF OrderInv
  <2> QED
    BY <2>2, <2>3, <2>4, <2>5 DEF OrderInv
<1>4. ASSUME NEW k \in Machines \ reg, reg' = reg \cup {k}, older' = [older EXCEPT ![k] = reg]
      PROVE  OrderInv'
  <2>1. older'[k] = reg /\ \A j \in Machines : j # k => older'[j] = older[j]
    BY <1>1, <1>4
  <2>2. IsFiniteSet(reg')
    BY <1>4, FS_AddElement DEF OrderInv
  <2>3. \A j \in Machines : older'[j] \subseteq reg' \ {j}
    BY <1>4, <2>1 DEF OrderInv
  <2>4. \A i, j \in reg' : i # j => i \in older'[j] \/ j \in older'[i]
    BY <1>1, <1>4, <2>1 DEF OrderInv
  <2>5. \A j \in Machines : \A i \in older'[j] : older'[i] \subseteq older'[j]
    BY <1>1, <1>4, <2>1 DEF OrderInv
  <2> QED
    BY <2>2, <2>3, <2>4, <2>5 DEF OrderInv
<1> QED
  BY <1>2, <1>3, <1>4, Orders DEF OrderGoes

LEMMA PlanStep ==
  ASSUME TypeOK, HomeInv, SlotInv, CountInv, OrderInv, PlanInv, [Next]_vars
  PROVE  PlanInv'
<1>1. (\A k \in Machines : RoomGoes(k)) /\ (\A c \in Checks : PassGoes(c))
  BY UseStep
<1>2. \A k \in Machines : Cardinality(older[k]) \in Nat
  BY FS_Subset, FS_CardinalityType DEF OrderInv
<1>3. \A k \in Machines, max \in Plans : max \in Nat
  BY TicketFacts
\* A machine with a slot does not move back.
<1>4. ASSUME NEW k \in reg
      PROVE  /\ k \in Machines /\ Cardinality(older[k]) \in Nat /\ Cardinality(older'[k]) \in Nat
             /\ Cardinality(older'[k]) <= Cardinality(older[k])
  <2>1. k \in Machines /\ IsFiniteSet(older[k])
    BY <1>4, FS_Subset DEF OrderInv, TypeOK
  <2>2. older'[k] \subseteq older[k]
    <3>1. older \in [Machines -> SUBSET Machines]
      BY DEF TypeOK
    <3>2. \A j \in Machines : Freed(j) => older'[k] \subseteq older[k]
      BY <2>1 DEF Freed
    <3>3. \A j \in Machines \ reg : older' = [older EXCEPT ![j] = reg] => older'[k] = older[k]
      BY <1>4, <2>1, <3>1
    <3> QED
      BY <3>2, <3>3, Orders DEF OrderGoes
  <2> QED
    BY <2>1, <2>2, FS_Subset, FS_CardinalityType
<1>5. \A k \in Machines : lic[k] # None => k \in reg /\ lic[k].t.max \in Nat
  BY TicketFacts DEF SlotInv, RunsOnItsSlot, TypeOK
<1>6. \A c \in Checks : on[c] \in Machines /\ tk[c].max \in Nat /\ (Passing(c) => on[c] \in reg)
  BY TicketFacts DEF SlotInv, TypeOK
<1>7. \A c \in Checks : Passing(c) => Cardinality(older'[on[c]]) < tk[c].max
  BY <1>4, <1>6 DEF PlanInv
<1>8. \A k \in Machines : lic'[k] # None => Cardinality(older'[k]) < lic'[k].t.max
  BY <1>1, <1>4, <1>5, <1>7 DEF PlanInv, RoomGoes
<1>9. ASSUME NEW c \in Checks, Claimed(c) PROVE Cardinality(older'[on[c]]) < tk[c].max
  <2>1. CASE on[c] \in reg
    BY <1>9, <2>1 DEF Claimed, Claim, MayUse
  <2>2. CASE on[c] \notin reg
    BY <1>6, <1>9, <2>2 DEF Claimed, Claim, MayUse, TypeOK
  <2> QED
    BY <2>1, <2>2
<1> QED
  BY <1>1, <1>7, <1>8, <1>9 DEF PlanInv, PassGoes

-----------------------------------------------------------------------------
(* Results.                                                                *)

THEOREM InitAccount == Init => AccountInv
<1> SUFFICES ASSUME Init PROVE AccountInv
  OBVIOUS
<1>1. TypeOK
  BY TypeInit
<1>2. HomeInv /\ SlotInv /\ PlanInv
  BY DEF Init, HomeInv, SlotInv, RunsOnItsSlot, PlanInv, Passing
<1>3. RemovalInv
  BY DEF Init, RemovalInv, KeyInv, ProgressInv, GoneInv, NoTickets, Releasing
<1>4. CountInv
  BY DEF Init, CountInv
<1>5. OrderInv
  BY FS_EmptySet DEF Init, OrderInv
<1> QED
  BY <1>1, <1>2, <1>3, <1>4, <1>5 DEF AccountInv

THEOREM AccountStep == AccountInv /\ [Next]_vars => AccountInv'
<1> SUFFICES ASSUME AccountInv, [Next]_vars PROVE AccountInv'
  OBVIOUS
<1>1. TypeOK /\ HomeInv /\ SlotInv /\ RemovalInv /\ CountInv /\ OrderInv /\ PlanInv
  BY DEF AccountInv
<1>2. TypeOK' /\ HomeInv' /\ CountInv'
  BY <1>1, TypeStep, HomeStep, CountStep
<1>3. SlotInv' /\ OrderInv' /\ PlanInv'
  BY <1>1, SlotStep, OrderStep, PlanStep
<1>4. RemovalInv'
  BY <1>1, KeyStep, ProgressStep, GoneStep DEF RemovalInv
<1> QED
  BY <1>2, <1>3, <1>4 DEF AccountInv

THEOREM AccountInvariant == Spec => []AccountInv
BY InitAccount, AccountStep, PTL DEF Spec

(* Every variable of the account, its ledger and its rooms keeps its type. *)
THEOREM TypeCorrect == Spec => []TypeOK
<1>1. AccountInv => TypeOK
  BY DEF AccountInv
<1> QED
  BY <1>1, AccountInvariant, PTL

(* A credential whose removal has completed runs no room, whatever tickets *)
(* of it were being issued, sent or checked meanwhile.                     *)
THEOREM RemovedIsGoneHolds == Spec => []RemovedIsGone
<1>1. AccountInv => RemovedIsGone
  BY DEF AccountInv, RemovalInv, GoneInv, RunsNowhere, RemovedIsGone
<1> QED
  BY <1>1, AccountInvariant, PTL

(* The rooms that run on tickets of a plan hold a slot each, and they are  *)
(* no more than the plan has machines: by the order in which they came,    *)
(* each of them has fewer machines before it than that.                    *)
LEMMA PlanKept == AccountInv => WithinPlan
<1> SUFFICES ASSUME AccountInv, NEW max \in Plans
    PROVE  Cardinality({k \in Machines : lic[k] # None /\ lic[k].t.max <= max}) <= max
  BY DEF WithinPlan
<1> DEFINE S == {k \in Machines : lic[k] # None /\ lic[k].t.max <= max}
           f == [k \in S |-> Cardinality(older[k])]
<1>1. OrderInv /\ PlanInv /\ RunsOnItsSlot /\ TypeOK /\ max \in Nat \ {0}
  BY TicketFacts DEF AccountInv, SlotInv
<1>2. S \subseteq reg /\ S \subseteq Machines
  BY <1>1 DEF RunsOnItsSlot
<1>3. \A k \in Machines : IsFiniteSet(older[k]) /\ Cardinality(older[k]) \in Nat
  BY <1>1, FS_Subset, FS_CardinalityType DEF OrderInv
<1>4. \A k \in S : Cardinality(older[k]) \in 0..(max - 1)
  <2>1. ASSUME NEW k \in S PROVE Cardinality(older[k]) < lic[k].t.max /\ lic[k].t.max \in Nat
    BY <1>1, <2>1, TicketFacts DEF PlanInv, TypeOK
  <2> QED
    BY <1>1, <1>3, <2>1
<1>5. ASSUME NEW j \in S, NEW k \in S, j \in older[k]
      PROVE  Cardinality(older[j]) # Cardinality(older[k])
  <2>1. older[j] \subseteq older[k] /\ j \notin older[j] /\ IsFiniteSet(older[k])
    BY <1>1, <1>2, <1>3, <1>5 DEF OrderInv
  <2> QED
    BY <1>5, <2>1, FS_Subset
<1>6. \A j, k \in S : j # k => Cardinality(older[j]) # Cardinality(older[k])
  <2> HIDE DEF S
  <2>1. \A j, k \in S : j # k => j \in older[k] \/ k \in older[j]
    BY <1>1, <1>2 DEF OrderInv
  <2> QED
    BY <1>5, <2>1
<1>7. f \in Injection(S, 0..(max - 1))
  <2> HIDE DEF S
  <2> QED
    BY <1>4, <1>6 DEF Injection, IsInjective
<1>8. IsFiniteSet(0..(max - 1)) /\ Cardinality(0..(max - 1)) = max
  BY <1>1, FS_Interval
<1> HIDE DEF S, f
<1>9. Cardinality(S) <= max
  BY <1>7, <1>8, FS_Injection
<1> QED
  BY <1>9 DEF S

THEOREM SlotsInPlanHolds == Spec => []SlotsInPlan
<1>1. AccountInv => SlotsInPlan
  BY PlanKept DEF AccountInv, SlotInv, SlotsInPlan
<1> QED
  BY <1>1, AccountInvariant, PTL

(* A room that checks no ticket any more runs on the outcome of the last   *)
(* one that its agent sent.                                                *)
THEOREM LastTicketCountsHolds == Spec => []LastTicketCounts
<1>1. ASSUME CountInv, TypeOK PROVE LastTicketCounts
  <2> SUFFICES ASSUME NEW k \in Machines, alive[k],
                      \A c \in Checks : on[c] = k => ph[c] = "none" \/ dead[c]
      PROVE  applied[k] = seq[k] /\ (lic[k] # None => lic[k].gen = seq[k])
    BY DEF LastTicketCounts
  <2>1. applied[k] \in 0..MaxTickets /\ seq[k] \in 0..MaxTickets /\ MaxTickets \in Nat
    BY <1>1, Numbers DEF TypeOK
  <2>2. applied[k] <= seq[k] /\ (lic[k] # None => lic[k].gen = applied[k])
    BY <1>1 DEF CountInv
  <2>3. ASSUME applied[k] < seq[k] PROVE FALSE
    <3>1. seq[k] \in 1..MaxTickets
      BY <2>1, <2>3
    <3> QED
      BY <1>1, <2>1, <2>3, <3>1 DEF CountInv
  <2> QED
    BY <2>1, <2>2, <2>3
<1>2. AccountInv => LastTicketCounts
  BY <1>1 DEF AccountInv
<1> QED
  BY <1>2, AccountInvariant, PTL
-----------------------------------------------------------------------------
(* Buying: for any tabs and Checkouts, beside the signals of an account.   *)

\* A Checkout that is or was to be paid.
Offered == {"open", "expired", "complete"}

\* What may be alive: a subscription, or an open Checkout the user has the address of.
Payable == {k \in Bought!Keys : \/ sub[k] \in Bought!Open
                                \/ k \in handed /\ checkout[k] = "open"}

\* How far the tabs are with the Checkouts they close or make.
KeyInTab ==
  \A t \in Tabs :
    /\ at[t] \in {"replay", "close", "create", "made"} => prev[t] \in Bought!Keys
    /\ at[t] = "made" => checkout[prev[t]] \in Offered
    /\ todo[t] # {} => at[t] = "open"

\* The tab that holds the lease has held it since it began: so what it has seen
\* closed stays closed, and nobody else hands out anything.
Found(t) ==
  /\ at[t] = "open" /\ todo[t] # {} => \A k \in handed : checkout[k] = "open" => k \in todo[t]
  /\ at[t] = "subs" => \A k \in handed : checkout[k] # "open"
  /\ at[t] \in {"key", "create", "made"} => Payable = {}

ClosedFirst == \A t \in Tabs : lease = t => Found(t)

BuyInv ==
  /\ Bought!TypeOK /\ KeyInTab /\ ClosedFirst
  /\ \A k \in handed : checkout[k] \in Offered
  /\ \A j, k \in Payable : j = k

\* A handler that has read and written, and was told of nothing since.
Done(h) == at[h] = "check" /\ fresh[h]

\* Signals that some handler will still read the list for.
Unseen == {s \in unacked : \A h \in Handlers : Done(h) => signal[h] # s}

\* The row shows what Stripe has, or what does not is still to be read; and
\* that is so of what the holder of the lease is about to write.
SignalInv ==
  /\ Bought!TypeOK /\ KeyInTab
  /\ \A h \in Handlers : signal[h] <= signals
  /\ shown = Bought!Summary \/ Unseen # {}
  /\ \A h \in Handlers : at[h] = "write" /\ lease = h =>
       \/ read[h] = Bought!Summary
       \/ \E s \in Unseen : fresh[h] => signal[h] # s

\* Instances count as this module does.
LEMMA SameCount ==
  ASSUME NEW S
  PROVE  Bought!Cardinality(S) = Cardinality(S)
BY DEF Bought!Cardinality, Cardinality

\* What is written to the row is a summary.
LEMMA SummaryType == Bought!Summary \in Bought!Summaries
<1> DEFINE S == {k \in Bought!Keys : sub[k] \in Bought!Open}
<1>1. MaxKeys \in Nat
  BY BoughtAssumption DEF Bought!BillingAssumption
<1>2. IsFiniteSet(1 .. MaxKeys) /\ Cardinality(1 .. MaxKeys) = MaxKeys
  BY <1>1, FS_Interval
<1>3. S \subseteq 1 .. MaxKeys
  BY DEF Bought!Keys
<1>4. Cardinality(S) \in Nat /\ Cardinality(S) <= MaxKeys
  BY <1>2, <1>3, FS_Subset, FS_CardinalityType
<1>5. Cardinality(S) \in 0 .. MaxKeys
  BY <1>1, <1>4
<1> DEFINE best == IF \E k \in S : sub[k] = "active" THEN "active"
                   ELSE IF S # {} THEN "unpaid"
                   ELSE IF \E k \in Bought!Keys : sub[k] # "none" THEN "canceled" ELSE "none"
<1>6. best \in {"active", "unpaid", "canceled", "none"}
  OBVIOUS
<1>7. \A a \in {"active", "unpaid", "canceled", "none"}, n \in 0 .. MaxKeys :
        [status |-> a, count |-> n] \in Bought!Summaries
  BY DEF Bought!Summaries, Bought!Open
<1>8. [status |-> best, count |-> Cardinality(S)] \in Bought!Summaries
  <2> HIDE DEF best, S
  <2> QED BY <1>5, <1>6, <1>7
<1> QED BY <1>8, SameCount DEF Bought!Summary

LEMMA NothingType == Bought!Nothing \in Bought!Summaries
BY BoughtAssumption DEF Bought!Nothing, Bought!Summaries, Bought!BillingAssumption

\* A request that ends or dies forgets what it had under way.
LEMMA ForgottenType ==
  ASSUME Bought!TypeOK, NEW p \in Bought!Requests, Bought!ForgetLocals(p)
  PROVE  /\ prev' \in [Tabs -> Bought!Keys \cup {None}] /\ todo' \in [Tabs -> SUBSET Bought!Keys]
         /\ signal' \in [Handlers -> 0 .. MaxSignals] /\ fresh' \in [Handlers -> BOOLEAN]
         /\ read' \in [Handlers -> Bought!Summaries]
<1> USE DEF Bought!TypeOK, Bought!ForgetLocals
<1>1. prev' \in [Tabs -> Bought!Keys \cup {None}] /\ todo' \in [Tabs -> SUBSET Bought!Keys]
  OBVIOUS
<1>2. signal' \in [Handlers -> 0 .. MaxSignals]
  BY BoughtAssumption DEF Bought!BillingAssumption
<1>3. fresh' \in [Handlers -> BOOLEAN]
  <2> fresh' = [h \in Handlers |-> fresh[h] /\ h # p]
    OBVIOUS
  <2> QED BY Zenon
<1>4. read' \in [Handlers -> Bought!Summaries]
  BY NothingType
<1> QED BY <1>1, <1>2, <1>3, <1>4

LEMMA EndedType ==
  ASSUME Bought!TypeOK, NEW p \in Bought!Requests, Bought!End(p)
  PROVE  /\ lease' \in Bought!Requests \cup {None} /\ at' \in [Bought!Requests -> Bought!Steps]
         /\ prev' \in [Tabs -> Bought!Keys \cup {None}] /\ todo' \in [Tabs -> SUBSET Bought!Keys]
         /\ signal' \in [Handlers -> 0 .. MaxSignals] /\ fresh' \in [Handlers -> BOOLEAN]
         /\ read' \in [Handlers -> Bought!Summaries]
BY ForgottenType DEF Bought!End, Bought!Release, Bought!Go, Bought!TypeOK, Bought!Steps

\* What Stripe makes of the request to make a Checkout.
LEMMA MadeType ==
  ASSUME Bought!TypeOK, NEW k \in Bought!Keys,
         Bought!Made(k) \/ Bought!NotAllowed(k) \/ Bought!Unknown(k)
  PROVE  /\ checkout' \in [Bought!Keys -> {"none", "refused", "open", "expired", "complete"}]
         /\ late' \subseteq Bought!Keys
BY DEF Bought!Made, Bought!NotAllowed, Bought!Unknown, Bought!TypeOK

\* Every step of a tab, a handler, Stripe or the user keeps the types.
LEMMA BillingType == Bought!TypeOK /\ KeyInTab /\ Bought!Next => Bought!TypeOK'
<1> SUFFICES ASSUME Bought!TypeOK, KeyInTab, Bought!Next PROVE Bought!TypeOK'
  OBVIOUS
<1> USE DEF Bought!stripeVars, Bought!tabVars, Bought!handlerVars, Bought!Go, KeyInTab
<1>0. MaxKeys \in Nat /\ MaxSignals \in Nat
  BY BoughtAssumption DEF Bought!BillingAssumption
<1>1. ASSUME NEW t \in Tabs PROVE t \in Bought!Requests
  BY DEF Bought!Requests
<1>2. ASSUME NEW h \in Handlers PROVE h \in Bought!Requests
  BY DEF Bought!Requests
<1>3. ASSUME NEW p \in Bought!Requests, Bought!Throw(p) PROVE Bought!TypeOK'
  BY <1>3, EndedType DEF Bought!Throw, Bought!TypeOK
<1>4. ASSUME NEW p \in Bought!Requests, Bought!Crash(p) PROVE Bought!TypeOK'
  BY <1>4, ForgottenType DEF Bought!Crash, Bought!TypeOK, Bought!Steps
<1>5. CASE Bought!Expire
  BY <1>5 DEF Bought!Expire, Bought!TypeOK
<1>6. ASSUME NEW t \in Tabs, Bought!Begin(t) PROVE Bought!TypeOK'
  BY <1>1, <1>6 DEF Bought!Begin, Bought!Acquire, Bought!TypeOK, Bought!Steps
<1>7. ASSUME NEW t \in Tabs, Bought!ReadAttempt(t) PROVE Bought!TypeOK'
  BY <1>1, <1>7 DEF Bought!ReadAttempt, Bought!TypeOK, Bought!Steps
<1>8. ASSUME NEW t \in Tabs, Bought!Replay(t) PROVE Bought!TypeOK'
  <2>1. prev[t] \in Bought!Keys
    BY <1>8 DEF Bought!Replay
  <2>2. CASE Bought!End(t)
    BY <1>1, <1>8, <2>1, <2>2, MadeType, EndedType DEF Bought!Replay, Bought!TypeOK
  <2>3. CASE ~Bought!End(t)
    BY <1>1, <1>8, <2>1, <2>3, MadeType DEF Bought!Replay, Bought!TypeOK, Bought!Steps
  <2> QED BY <2>2, <2>3
<1>9. ASSUME NEW t \in Tabs, Bought!Close(t) PROVE Bought!TypeOK'
  BY <1>1, <1>9 DEF Bought!Close, Bought!CloseAtStripe, Bought!TypeOK, Bought!Steps
<1>10. ASSUME NEW t \in Tabs, Bought!Clear(t) PROVE Bought!TypeOK'
  BY <1>1, <1>10 DEF Bought!Clear, Bought!TypeOK, Bought!Steps
<1>11. ASSUME NEW t \in Tabs, Bought!ListOpen(t) PROVE Bought!TypeOK'
  BY <1>1, <1>11 DEF Bought!ListOpen, Bought!TypeOK, Bought!Steps
<1>12. ASSUME NEW t \in Tabs, Bought!CloseOpen(t) PROVE Bought!TypeOK'
  BY <1>1, <1>12 DEF Bought!CloseOpen, Bought!CloseAtStripe, Bought!TypeOK, Bought!Steps
<1>13. ASSUME NEW t \in Tabs, Bought!ListSubs(t) PROVE Bought!TypeOK'
  <2>1. CASE Bought!End(t)
    BY <1>1, <1>13, <2>1, EndedType DEF Bought!ListSubs, Bought!TypeOK
  <2>2. CASE Bought!Go(t, "key") /\ UNCHANGED <<lease, prev, todo, signal, read, fresh>>
    BY <1>1, <1>13, <2>2 DEF Bought!ListSubs, Bought!TypeOK, Bought!Steps
  <2> QED BY <1>13, <2>1, <2>2 DEF Bought!ListSubs
<1>14. ASSUME NEW t \in Tabs, Bought!WriteKey(t) PROVE Bought!TypeOK'
  BY <1>1, <1>14 DEF Bought!WriteKey, Bought!TypeOK, Bought!Steps
<1>15. ASSUME NEW t \in Tabs, Bought!Create(t) PROVE Bought!TypeOK'
  <2>1. prev[t] \in Bought!Keys
    BY <1>15 DEF Bought!Create
  <2>2. CASE Bought!End(t)
    BY <1>1, <1>15, <2>1, <2>2, MadeType, EndedType DEF Bought!Create, Bought!TypeOK
  <2>3. CASE ~Bought!End(t)
    BY <1>1, <1>15, <2>1, <2>3, MadeType DEF Bought!Create, Bought!TypeOK, Bought!Steps
  <2> QED BY <2>2, <2>3
<1>16. ASSUME NEW t \in Tabs, Bought!HandOut(t) PROVE Bought!TypeOK'
  <2>1. prev[t] \in Bought!Keys
    BY <1>16 DEF Bought!HandOut
  <2> QED BY <1>1, <1>16, <2>1, EndedType DEF Bought!HandOut, Bought!TypeOK
<1>17. ASSUME NEW h \in Handlers, Bought!Deliver(h) PROVE Bought!TypeOK'
  BY <1>0, <1>2, <1>17 DEF Bought!Deliver, Bought!TypeOK, Bought!Steps
<1>18. ASSUME NEW h \in Handlers, Bought!BeginSync(h) PROVE Bought!TypeOK'
  BY <1>2, <1>18 DEF Bought!BeginSync, Bought!Acquire, Bought!TypeOK, Bought!Steps
<1>19. ASSUME NEW h \in Handlers, Bought!ReadWanted(h) PROVE Bought!TypeOK'
  BY <1>2, <1>19 DEF Bought!ReadWanted, Bought!TypeOK, Bought!Steps
<1>20. ASSUME NEW h \in Handlers, Bought!ReadSubs(h) PROVE Bought!TypeOK'
  BY <1>2, <1>20, SummaryType DEF Bought!ReadSubs, Bought!TypeOK, Bought!Steps
<1>21. ASSUME NEW h \in Handlers, Bought!WriteSync(h) PROVE Bought!TypeOK'
  BY <1>2, <1>21, NothingType DEF Bought!WriteSync, Bought!TypeOK, Bought!Steps
<1>22. ASSUME NEW h \in Handlers, Bought!CheckWanted(h) PROVE Bought!TypeOK'
  <2>1. CASE Bought!End(h)
    BY <1>2, <1>22, <2>1, EndedType DEF Bought!CheckWanted, Bought!TypeOK
  <2>2. CASE Bought!Go(h, "read") /\ UNCHANGED <<lease, unacked, prev, todo, signal, read, fresh>>
    BY <1>2, <1>22, <2>2 DEF Bought!CheckWanted, Bought!TypeOK, Bought!Steps
  <2> QED BY <1>22, <2>1, <2>2 DEF Bought!CheckWanted
<1>23. ASSUME NEW k \in Bought!Keys, Bought!LateRequest(k) PROVE Bought!TypeOK'
  BY <1>23 DEF Bought!LateRequest, Bought!TypeOK
<1>24. ASSUME NEW k \in Bought!Keys, Bought!Pay(k) PROVE Bought!TypeOK'
  BY <1>0, <1>24 DEF Bought!Pay, Bought!Signal, Bought!TypeOK, Bought!Open
<1>25. ASSUME NEW k \in Bought!Keys, Bought!SubscriptionChanges(k) PROVE Bought!TypeOK'
  BY <1>0, <1>25 DEF Bought!SubscriptionChanges, Bought!Signal, Bought!TypeOK, Bought!Open
<1> QED
  BY <1>3, <1>4, <1>5, <1>6, <1>7, <1>8, <1>9, <1>10, <1>11, <1>12, <1>13, <1>14, <1>15, <1>16,
     <1>17, <1>18, <1>19, <1>20, <1>21, <1>22, <1>23, <1>24, <1>25 DEF Bought!Next

\* What was offered stays so, and what is closed is not opened again.
LEMMA OfferedStep ==
  ASSUME Bought!TypeOK, KeyInTab, Bought!Next, NEW k \in Bought!Keys, checkout[k] \in Offered
  PROVE  checkout'[k] \in Offered /\ (checkout'[k] = "open" => checkout[k] = "open")
<1> USE DEF Bought!TypeOK, Offered
<1>1. CASE checkout' = checkout
  BY <1>1
<1>2. ASSUME NEW j, Bought!Made(j) \/ Bought!NotAllowed(j) \/ Bought!Unknown(j)
      PROVE  checkout'[k] = checkout[k]
  BY <1>2 DEF Bought!Made, Bought!NotAllowed, Bought!Unknown
<1>3. ASSUME NEW t \in Tabs, Bought!Replay(t) \/ Bought!Create(t) PROVE checkout'[k] = checkout[k]
  BY <1>2, <1>3 DEF Bought!Replay, Bought!Create
<1>4. ASSUME NEW t \in Tabs, Bought!Close(t) \/ Bought!CloseOpen(t)
      PROVE  checkout'[k] \in Offered /\ (checkout'[k] = "open" => checkout[k] = "open")
  BY <1>4 DEF Bought!Close, Bought!CloseOpen, Bought!CloseAtStripe
<1>5. ASSUME NEW j \in Bought!Keys, Bought!LateRequest(j) \/ Bought!Pay(j)
      PROVE  checkout'[k] \in Offered /\ (checkout'[k] = "open" => checkout[k] = "open")
  BY <1>5 DEF Bought!LateRequest, Bought!Pay
<1>6. \/ checkout' = checkout
      \/ \E t \in Tabs : Bought!Replay(t) \/ Bought!Create(t) \/ Bought!Close(t) \/ Bought!CloseOpen(t)
      \/ \E j \in Bought!Keys : Bought!LateRequest(j) \/ Bought!Pay(j)
  BY DEF Bought!Next, Bought!Throw, Bought!Crash, Bought!Expire, Bought!Begin, Bought!ReadAttempt,
         Bought!Clear, Bought!ListOpen, Bought!ListSubs, Bought!WriteKey, Bought!HandOut, Bought!Deliver,
         Bought!BeginSync, Bought!ReadWanted, Bought!ReadSubs, Bought!WriteSync, Bought!CheckWanted,
         Bought!SubscriptionChanges, Bought!stripeVars
<1> QED BY <1>1, <1>3, <1>4, <1>5, <1>6

\* The user gets an address from a tab that hands it out, and from nobody else.
LEMMA HandedStep ==
  ASSUME Bought!Next
  PROVE  handed' = handed \/ \E t \in Tabs : Bought!HandOut(t)
BY DEF Bought!Next, Bought!Throw, Bought!Crash, Bought!Expire, Bought!Begin, Bought!ReadAttempt,
       Bought!Replay, Bought!Close, Bought!Clear, Bought!ListOpen, Bought!CloseOpen, Bought!ListSubs,
       Bought!WriteKey, Bought!Create, Bought!Deliver, Bought!BeginSync, Bought!ReadWanted,
       Bought!ReadSubs, Bought!WriteSync, Bought!CheckWanted, Bought!LateRequest, Bought!Pay,
       Bought!SubscriptionChanges

\* A subscription comes alive by being paid for.
LEMMA SubStep ==
  ASSUME Bought!TypeOK, Bought!Next, NEW k \in Bought!Keys, sub'[k] \in Bought!Open
  PROVE  sub[k] \in Bought!Open \/ (k \in handed /\ checkout[k] = "open")
<1>1. \/ sub' = sub
      \/ \E j \in Bought!Keys : Bought!Pay(j) \/ Bought!SubscriptionChanges(j)
  BY DEF Bought!Next, Bought!Throw, Bought!Crash, Bought!Expire, Bought!Begin, Bought!ReadAttempt,
         Bought!Replay, Bought!Close, Bought!Clear, Bought!ListOpen, Bought!CloseOpen, Bought!ListSubs,
         Bought!WriteKey, Bought!Create, Bought!HandOut, Bought!Deliver, Bought!BeginSync,
         Bought!ReadWanted, Bought!ReadSubs, Bought!WriteSync, Bought!CheckWanted, Bought!LateRequest,
         Bought!stripeVars
<1> QED BY <1>1 DEF Bought!Pay, Bought!SubscriptionChanges, Bought!TypeOK

LEMMA PayableStep ==
  ASSUME Bought!TypeOK, KeyInTab, \A k \in handed : checkout[k] \in Offered, Bought!Next
  PROVE  \/ handed' = handed /\ Payable' \subseteq Payable
         \/ \E t \in Tabs : Bought!HandOut(t) /\ Payable' \subseteq Payable \cup {prev[t]}
<1>1. ASSUME NEW k \in Payable', k \in handed' => k \in handed
      PROVE  k \in Payable
  <2>1. k \in Bought!Keys
    BY DEF Payable, Bought!Keys
  <2>2. CASE sub'[k] \in Bought!Open
    BY <2>1, <2>2, SubStep DEF Payable
  <2>3. CASE k \in handed' /\ checkout'[k] = "open"
    BY <1>1, <2>1, <2>3, OfferedStep DEF Payable
  <2> QED BY <2>2, <2>3 DEF Payable, Bought!Open
<1>2. CASE handed' = handed
  BY <1>1, <1>2
<1>3. ASSUME NEW t \in Tabs, Bought!HandOut(t)
      PROVE  Payable' \subseteq Payable \cup {prev[t]}
  <2>1. handed' = handed \cup {prev[t]}
    BY <1>3 DEF Bought!HandOut
  <2> QED BY <1>1, <2>1
<1> QED BY <1>2, <1>3, HandedStep

\* Nothing happens to tab t.
Still(t) == /\ at'[t] = at[t] /\ prev'[t] = prev[t] /\ todo'[t] = todo[t]
            /\ lease' = t => lease = t

\* What tab t itself does.
Does(t) ==
  \/ Bought!Begin(t) \/ Bought!ReadAttempt(t) \/ Bought!Replay(t) \/ Bought!Close(t) \/ Bought!Clear(t)
  \/ Bought!ListOpen(t) \/ Bought!CloseOpen(t) \/ Bought!ListSubs(t)
  \/ Bought!WriteKey(t) \/ Bought!Create(t)

LEMMA TabStep ==
  ASSUME Bought!TypeOK, Bought!Next, NEW t \in Tabs
  PROVE  Still(t) \/ (at'[t] = "idle" /\ todo'[t] = {}) \/ Does(t)
<1> USE DEF Bought!TypeOK, Bought!Requests, Bought!Go, Bought!tabVars
<1>1. ASSUME NEW p \in Bought!Requests, p # t, Bought!End(p) PROVE Still(t)
  BY <1>1, BoughtAssumption
     DEF Bought!End, Bought!Release, Bought!ForgetLocals, Bought!BillingAssumption, Still
<1>2. ASSUME NEW p \in Bought!Requests, Bought!Throw(p) \/ Bought!Crash(p)
      PROVE  Still(t) \/ (at'[t] = "idle" /\ todo'[t] = {})
  <2>1. CASE p = t
    BY <1>2, <2>1 DEF Bought!Throw, Bought!Crash, Bought!End, Bought!ForgetLocals
  <2>2. CASE p # t
    BY <1>1, <1>2, <2>2 DEF Bought!Throw, Bought!Crash, Bought!ForgetLocals, Still
  <2> QED BY <2>1, <2>2
<1>3. CASE Bought!Expire
  BY <1>3, BoughtAssumption DEF Bought!Expire, Bought!BillingAssumption, Still
<1>4. ASSUME NEW u \in Tabs, u # t, Bought!Begin(u) PROVE Still(t)
  BY <1>4 DEF Bought!Begin, Bought!Acquire, Still
<1>5. ASSUME NEW u \in Tabs, u # t,
             \/ Bought!ReadAttempt(u) \/ Bought!Close(u) \/ Bought!Clear(u)
             \/ Bought!ListOpen(u) \/ Bought!CloseOpen(u) \/ Bought!WriteKey(u)
      PROVE  Still(t)
  BY <1>5 DEF Bought!ReadAttempt, Bought!Close, Bought!Clear, Bought!ListOpen, Bought!CloseOpen,
              Bought!WriteKey, Still
<1>6. ASSUME NEW u \in Tabs, u # t,
             Bought!Replay(u) \/ Bought!ListSubs(u) \/ Bought!Create(u) \/ Bought!HandOut(u)
      PROVE  Still(t)
  <2>1. CASE Bought!End(u)
    BY <1>1, <1>6, <2>1
  <2>2. CASE ~Bought!End(u)
    BY <1>6, <2>2 DEF Bought!Replay, Bought!ListSubs, Bought!Create, Bought!HandOut, Still
  <2> QED BY <2>1, <2>2
<1>7. ASSUME Bought!HandOut(t) PROVE at'[t] = "idle" /\ todo'[t] = {}
  BY <1>7 DEF Bought!HandOut, Bought!End, Bought!ForgetLocals
<1>8. ASSUME NEW h \in Handlers, h # t,
             \/ Bought!Deliver(h) \/ Bought!BeginSync(h) \/ Bought!ReadWanted(h) \/ Bought!ReadSubs(h)
             \/ Bought!WriteSync(h)
      PROVE  Still(t)
  BY <1>8 DEF Bought!Deliver, Bought!BeginSync, Bought!ReadWanted, Bought!ReadSubs, Bought!WriteSync,
              Bought!Acquire, Still
<1>9. ASSUME NEW h \in Handlers, h # t, Bought!CheckWanted(h) PROVE Still(t)
  BY <1>1, <1>9 DEF Bought!CheckWanted, Still
<1>10. ASSUME NEW k \in Bought!Keys,
              Bought!LateRequest(k) \/ Bought!Pay(k) \/ Bought!SubscriptionChanges(k)
       PROVE  Still(t)
  BY <1>10 DEF Bought!LateRequest, Bought!Pay, Bought!SubscriptionChanges, Still
<1>11. \A h \in Handlers : h # t
  BY BoughtAssumption DEF Bought!BillingAssumption
<1> QED BY <1>2, <1>3, <1>4, <1>5, <1>6, <1>7, <1>8, <1>9, <1>10, <1>11 DEF Bought!Next, Does

\* Tabs keep to the key they close or make.
LEMMA BuyKeyStep ==
  ASSUME Bought!TypeOK, KeyInTab, Bought!Next
  PROVE  KeyInTab'
<1> SUFFICES ASSUME NEW t \in Tabs
             PROVE  /\ at'[t] \in {"replay", "close", "create", "made"} => prev'[t] \in Bought!Keys
                    /\ at'[t] = "made" => checkout'[prev'[t]] \in Offered
                    /\ todo'[t] # {} => at'[t] = "open"
  BY DEF KeyInTab, Bought!Keys
<1> USE DEF Bought!TypeOK, Bought!Requests, Bought!Go
<1>1. CASE Still(t)
  BY <1>1, OfferedStep DEF Still, KeyInTab
<1>2. CASE (at'[t] = "idle" /\ todo'[t] = {}) \/ Bought!Begin(t)
  BY <1>2 DEF Bought!Begin, Bought!Acquire, Bought!tabVars, KeyInTab
<1>3. CASE Bought!ReadAttempt(t)
  BY <1>3 DEF Bought!ReadAttempt, KeyInTab
<1>4. CASE Bought!Replay(t)
  <2>1. prev[t] \in Bought!Keys
    BY <1>4 DEF KeyInTab, Bought!Replay
  <2>2. todo[t] = {}
    BY <1>4 DEF KeyInTab, Bought!Replay
  <2> QED BY <1>4, <2>1, <2>2 DEF Bought!Replay, Bought!End, Bought!ForgetLocals, Bought!tabVars
<1>5. CASE Bought!Create(t)
  <2>1. prev[t] \in Bought!Keys /\ todo[t] = {}
    BY <1>5 DEF KeyInTab, Bought!Create
  <2>2. CASE Bought!Made(prev[t]) /\ Bought!Go(t, "made")
    BY <1>5, <2>1, <2>2 DEF Bought!Create, Bought!Made, Bought!End, Bought!tabVars, Offered
  <2>3. CASE Bought!End(t)
    BY <2>3 DEF Bought!End, Bought!ForgetLocals
  <2> QED BY <1>5, <2>2, <2>3 DEF Bought!Create
<1>6. CASE Bought!WriteKey(t)
  BY <1>6 DEF Bought!WriteKey, KeyInTab
<1>7. CASE Bought!ListSubs(t)
  BY <1>7 DEF Bought!ListSubs, Bought!End, Bought!ForgetLocals, Bought!tabVars, KeyInTab
<1>8. CASE Bought!Close(t) \/ Bought!Clear(t) \/ Bought!ListOpen(t) \/ Bought!CloseOpen(t)
  BY <1>8 DEF Bought!Close, Bought!Clear, Bought!ListOpen, Bought!CloseOpen, Bought!tabVars, KeyInTab
<1> QED BY <1>1, <1>2, <1>3, <1>4, <1>5, <1>6, <1>7, <1>8, TabStep DEF Does

LEMMA FoundStep ==
  ASSUME BuyInv, Bought!Next, NEW t \in Tabs, lease' = t
  PROVE  Found(t)'
<1> USE DEF BuyInv
<1>1. ASSUME NEW u \in Tabs, Bought!HandOut(u) PROVE FALSE
  BY <1>1, BoughtAssumption
     DEF Bought!HandOut, Bought!End, Bought!Release, Bought!Holds, Bought!BillingAssumption
<1>2. handed' = handed /\ Payable' \subseteq Payable
  BY <1>1, PayableStep
<1>3. \A k \in handed : checkout'[k] = "open" => checkout[k] = "open"
  BY OfferedStep DEF Bought!TypeOK
<1> USE DEF Found, Bought!TypeOK, Bought!Requests, Bought!Go
<1>4. CASE Still(t)
  <2>1. Found(t)
    BY <1>4 DEF Still, ClosedFirst
  <2> QED BY <1>2, <1>3, <1>4, <2>1 DEF Still
<1>5. CASE at'[t] = "idle" \/ Bought!Begin(t)
  BY <1>5 DEF Bought!Begin, Bought!Acquire
<1>6. CASE Bought!ReadAttempt(t) \/ Bought!Replay(t) \/ Bought!Close(t)
  BY <1>6 DEF Bought!ReadAttempt, Bought!Replay, Bought!Close, Bought!End
<1>7. CASE Bought!Clear(t)
  BY <1>7 DEF Bought!Clear, KeyInTab
<1>8. CASE Bought!ListOpen(t)
  BY <1>2, <1>3, <1>8 DEF Bought!ListOpen, Bought!stripeVars
<1>9. CASE Bought!CloseOpen(t)
  <2>1. at[t] = "open" /\ todo[t] # {} /\ lease = t
    BY <1>9 DEF Bought!CloseOpen, Bought!Holds
  <2>2. \A k \in handed : checkout[k] = "open" => k \in todo[t]
    BY <2>1 DEF ClosedFirst
  <2>3. PICK k \in todo[t] : /\ Bought!CloseAtStripe(k)
                             /\ todo' = [todo EXCEPT ![t] = @ \ {k}]
                             /\ Bought!Go(t, IF todo'[t] = {} THEN "subs" ELSE "open")
    BY <1>9 DEF Bought!CloseOpen
  <2>4. \A j \in handed : checkout'[j] = "open" => checkout[j] = "open" /\ j # k
    BY <2>3 DEF Bought!CloseAtStripe
  <2> QED BY <1>2, <2>2, <2>3, <2>4
<1>10. CASE Bought!ListSubs(t)
  <2>1. CASE Bought!Subscribed
    BY <1>10, <2>1 DEF Bought!ListSubs, Bought!End
  <2>2. CASE ~Bought!Subscribed
    <3>1. Payable = {}
      BY <1>10, <2>2 DEF Bought!ListSubs, Bought!Holds, Bought!Subscribed, ClosedFirst, Payable
    <3> QED BY <1>2, <1>10, <2>2, <3>1 DEF Bought!ListSubs
  <2> QED BY <2>1, <2>2
<1>11. CASE Bought!WriteKey(t) \/ Bought!Create(t)
  <2>1. Payable = {}
    BY <1>11 DEF Bought!WriteKey, Bought!Create, Bought!Holds, ClosedFirst
  <2> QED BY <1>2, <1>11, <2>1 DEF Bought!WriteKey, Bought!Create, Bought!End
<1> QED BY <1>4, <1>5, <1>6, <1>7, <1>8, <1>9, <1>10, <1>11, TabStep DEF Does

\* Every step keeps it.
LEMMA BuyStep == BuyInv /\ Bought!Next => BuyInv'
<1> SUFFICES ASSUME BuyInv, Bought!Next PROVE BuyInv'
  OBVIOUS
<1> USE DEF BuyInv
<1>1. Bought!TypeOK' /\ KeyInTab'
  BY BillingType, BuyKeyStep
<1>2. ClosedFirst'
  BY FoundStep DEF ClosedFirst
<1>3. ASSUME NEW t \in Tabs, Bought!HandOut(t)
      PROVE  /\ lease = t /\ at[t] = "made" /\ Payable = {} /\ handed' = handed \cup {prev[t]}
             /\ prev[t] \in Bought!Keys /\ checkout[prev[t]] \in Offered
  BY <1>3 DEF Bought!HandOut, Bought!Holds, ClosedFirst, Found, KeyInTab
<1>4. \A k \in handed' : checkout'[k] \in Offered
  BY <1>3, HandedStep, OfferedStep DEF Bought!TypeOK
<1>5. \A j, k \in Payable' : j = k
  BY <1>3, PayableStep
<1> QED BY <1>1, <1>2, <1>4, <1>5

\* No more than one is alive of what may be alive.
LEMMA OneAlive == BuyInv => Bought!OneSubscription
<1> SUFFICES ASSUME BuyInv PROVE Bought!OneSubscription
  OBVIOUS
<1> DEFINE S == {k \in Bought!Keys : sub[k] \in Bought!Open}
<1>1. \A j, k \in S : j = k
  BY DEF BuyInv, Payable
<1>2. S = {} \/ \E k : S = {k}
  BY <1>1
<1>3. Cardinality(S) <= 1
  <2> HIDE DEF S
  <2>1. CASE S = {}
    BY <2>1, FS_EmptySet
  <2>2. ASSUME NEW k, S = {k} PROVE Cardinality(S) = 1
    BY <2>2, FS_Singleton
  <2> QED BY <1>2, <2>1, <2>2
<1> QED BY <1>3, SameCount DEF Bought!OneSubscription

\* Nothing happens to handler h.
HandlerStill(h) ==
  /\ at'[h] = at[h] /\ signal'[h] = signal[h] /\ fresh'[h] = fresh[h] /\ read'[h] = read[h]
  /\ lease' = h => lease = h

\* Nothing happens to the signals and what is shown.
Quiet == UNCHANGED <<sub, shown, unacked, signals>>

LEMMA OthersStill ==
  ASSUME Bought!TypeOK, NEW p \in Bought!Requests, NEW h \in Handlers, h # p,
         Bought!End(p) \/ (Bought!Go(p, "idle") /\ Bought!ForgetLocals(p) /\ lease' = lease)
  PROVE  HandlerStill(h)
<1> USE DEF Bought!End, Bought!Go, Bought!ForgetLocals, Bought!TypeOK
<1>1. at'[h] = at[h]
  BY DEF Bought!Requests
<1>2. signal'[h] = signal[h] /\ read'[h] = read[h]
  OBVIOUS
<1>3. fresh'[h] = fresh[h]
  <2>1. fresh' = [x \in Handlers |-> fresh[x] /\ x # p]
    OBVIOUS
  <2>2. fresh'[h] = (fresh[h] /\ h # p)
    BY <2>1, Zenon
  <2>3. fresh[h] \in BOOLEAN
    OBVIOUS
  <2> QED BY <2>2, <2>3
<1>4. lease' = h => lease = h
  BY BoughtAssumption DEF Bought!Release, Bought!BillingAssumption
<1> QED BY <1>1, <1>2, <1>3, <1>4 DEF HandlerStill

\* Tabs leave the handlers and the signals alone.
LEMMA TabsQuiet ==
  ASSUME Bought!TypeOK, NEW t \in Tabs,
         \/ Bought!Throw(t) \/ Bought!Crash(t) \/ Bought!Begin(t) \/ Does(t) \/ Bought!HandOut(t)
  PROVE  Quiet /\ \A h \in Handlers : HandlerStill(h)
<1>1. t \in Bought!Requests /\ t \notin Handlers
  BY BoughtAssumption DEF Bought!Requests, Bought!BillingAssumption
<1>2. Quiet
  BY DEF Quiet, Does, Bought!Throw, Bought!Crash, Bought!Begin, Bought!ReadAttempt, Bought!Replay,
         Bought!Close, Bought!Clear, Bought!ListOpen, Bought!CloseOpen, Bought!ListSubs,
         Bought!WriteKey, Bought!Create, Bought!HandOut, Bought!stripeVars
<1>3. ASSUME NEW h \in Handlers PROVE HandlerStill(h)
  <2>1. h # t
    BY <1>1
  <2>2. CASE Bought!End(t) \/ Bought!Crash(t)
    BY <1>1, <2>1, <2>2, OthersStill DEF Bought!Crash
  <2>3. CASE ~Bought!End(t) /\ ~Bought!Crash(t)
    BY <1>1, <2>1, <2>3
       DEF HandlerStill, Does, Bought!Throw, Bought!Begin, Bought!ReadAttempt, Bought!Replay,
           Bought!Close, Bought!Clear, Bought!ListOpen, Bought!CloseOpen, Bought!ListSubs,
           Bought!WriteKey, Bought!Create, Bought!HandOut, Bought!Acquire, Bought!Go,
           Bought!handlerVars, Bought!TypeOK, Bought!Requests
  <2> QED BY <2>2, <2>3
<1> QED BY <1>2, <1>3

\* What is shown and what is read stand for a list that has not changed.
LEMMA SummaryStays == sub' = sub => Bought!Summary' = Bought!Summary
BY DEF Bought!Summary

\* The step of a handler that has ended, or of nobody: nothing is lost.
LEMMA QuietStep ==
  ASSUME SignalInv, Quiet, NEW p,
         \A h \in Handlers : HandlerStill(h) \/ (h = p /\ at'[h] = "idle" /\ signal'[h] = 0)
  PROVE  /\ \A h \in Handlers : signal'[h] <= signals'
         /\ shown' = Bought!Summary' \/ Unseen' # {}
         /\ \A h \in Handlers : at'[h] = "write" /\ lease' = h =>
              read'[h] = Bought!Summary' \/ \E s \in Unseen' : fresh'[h] => signal'[h] # s
<1> USE DEF SignalInv, Quiet, HandlerStill
<1>1. \A h \in Handlers : signal'[h] <= signals'
  BY DEF Bought!TypeOK
<1>2. Unseen \subseteq Unseen'
  BY DEF Unseen, Done
<1>3. Bought!Summary' = Bought!Summary
  BY SummaryStays
<1>4. shown' = Bought!Summary' \/ Unseen' # {}
  BY <1>2, <1>3
<1>5. ASSUME NEW h \in Handlers, at'[h] = "write", lease' = h
      PROVE  read'[h] = Bought!Summary' \/ \E s \in Unseen' : fresh'[h] => signal'[h] # s
  BY <1>2, <1>3, <1>5
<1> QED BY <1>1, <1>4, <1>5

\* A subscription changes, which Stripe tells by a new signal.
LEMMA SignalStep ==
  ASSUME SignalInv, Bought!Signal, UNCHANGED <<shown, at, lease, signal, fresh, read>>
  PROVE  /\ \A h \in Handlers : signal'[h] <= signals'
         /\ \E s \in Unseen' : \A h \in Handlers : signal'[h] # s
<1> USE DEF SignalInv, Bought!Signal
<1>1. signals \in Nat /\ \A h \in Handlers : signal[h] \in Nat
  BY BoughtAssumption DEF Bought!TypeOK, Bought!BillingAssumption
<1>2. \A h \in Handlers : signal'[h] # signals + 1 /\ signal'[h] <= signals'
  BY <1>1
<1>3. signals + 1 \in Unseen'
  BY <1>2 DEF Unseen
<1> QED BY <1>2, <1>3

\* Every step keeps it.
LEMMA SignalInvStep == SignalInv /\ Bought!Next => SignalInv'
<1> SUFFICES ASSUME SignalInv, Bought!Next PROVE SignalInv'
  OBVIOUS
<1>1. Bought!TypeOK' /\ KeyInTab'
  BY BillingType, BuyKeyStep DEF SignalInv
<1> DEFINE Kept ==
      /\ \A h \in Handlers : signal'[h] <= signals'
      /\ shown' = Bought!Summary' \/ Unseen' # {}
      /\ \A h \in Handlers : at'[h] = "write" /\ lease' = h =>
           read'[h] = Bought!Summary' \/ \E s \in Unseen' : fresh'[h] => signal'[h] # s
<1>2. SUFFICES Kept
  BY <1>1 DEF SignalInv
<1>3. Bought!TypeOK
  BY DEF SignalInv
<1>4. ASSUME NEW t \in Tabs,
             \/ Bought!Throw(t) \/ Bought!Crash(t) \/ Bought!Begin(t) \/ Does(t) \/ Bought!HandOut(t)
      PROVE  Kept
  BY <1>3, <1>4, TabsQuiet, QuietStep
<1>5. ASSUME NEW h \in Handlers, Bought!Throw(h) \/ Bought!Crash(h) PROVE Kept
  <2>1. Quiet /\ at'[h] = "idle" /\ signal'[h] = 0
    BY <1>3, <1>5
       DEF Quiet, Bought!Throw, Bought!Crash, Bought!End, Bought!Go, Bought!ForgetLocals,
           Bought!stripeVars, Bought!TypeOK, Bought!Requests
  <2>2. ASSUME NEW g \in Handlers, g # h PROVE HandlerStill(g)
    BY <1>3, <1>5, <2>2, OthersStill DEF Bought!Throw, Bought!Crash, Bought!Requests
  <2> QED BY <2>1, <2>2, QuietStep
<1>6. CASE Bought!Expire
  <2>1. \A h \in Handlers : HandlerStill(h)
    BY <1>6, BoughtAssumption
       DEF HandlerStill, Bought!Expire, Bought!handlerVars, Bought!BillingAssumption
  <2> QED BY <1>6, <2>1, QuietStep DEF Quiet, Bought!Expire, Bought!stripeVars
<1>7. ASSUME NEW k \in Bought!Keys, Bought!LateRequest(k) PROVE Kept
  <2>1. Quiet /\ \A h \in Handlers : HandlerStill(h)
    BY <1>7 DEF Quiet, HandlerStill, Bought!LateRequest, Bought!handlerVars
  <2> QED BY <2>1, QuietStep
<1>8. ASSUME NEW k \in Bought!Keys, Bought!Pay(k) \/ Bought!SubscriptionChanges(k) PROVE Kept
  BY <1>8, SignalStep DEF Bought!Pay, Bought!SubscriptionChanges, Bought!handlerVars
<1> USE DEF SignalInv, Bought!TypeOK, Bought!Requests, Bought!Go, Bought!stripeVars
<1>9. ASSUME NEW h \in Handlers, Bought!Deliver(h) PROVE Kept
  <2>1. Unseen' = unacked /\ unacked # {} /\ \A g \in Handlers : ~fresh'[g]
    BY <1>9 DEF Bought!Deliver, Unseen, Done
  <2>2. \A g \in Handlers : signal'[g] <= signals'
    BY <1>9 DEF Bought!Deliver
  <2> QED BY <2>1, <2>2
<1>10. ASSUME NEW h \in Handlers, Bought!BeginSync(h) PROVE Kept
  <2>1. Bought!Summary' = Bought!Summary
    BY <1>10, SummaryStays DEF Bought!BeginSync
  <2>2. Unseen' = Unseen
    BY <1>10 DEF Bought!BeginSync, Bought!Acquire, Bought!handlerVars, Unseen, Done
  <2> QED BY <1>10, <2>1, <2>2 DEF Bought!BeginSync, Bought!Acquire, Bought!handlerVars
<1>11. ASSUME NEW h \in Handlers, Bought!ReadWanted(h) PROVE Kept
  <2>1. Bought!Summary' = Bought!Summary
    BY <1>11, SummaryStays DEF Bought!ReadWanted
  <2>2. Unseen' = Unseen
    BY <1>11 DEF Bought!ReadWanted, Unseen, Done
  <2> QED BY <1>11, <2>1, <2>2 DEF Bought!ReadWanted
<1>12. ASSUME NEW h \in Handlers, Bought!ReadSubs(h) PROVE Kept
  <2>1. Bought!Summary' = Bought!Summary
    BY <1>12, SummaryStays DEF Bought!ReadSubs
  <2>2. Unseen' = Unseen
    BY <1>12 DEF Bought!ReadSubs, Unseen, Done
  <2> QED BY <1>12, <2>1, <2>2 DEF Bought!ReadSubs
<1>13. ASSUME NEW h \in Handlers, Bought!WriteSync(h) PROVE Kept
  <2>1. Bought!Summary' = Bought!Summary
    BY <1>13, SummaryStays DEF Bought!WriteSync
  <2>2. at[h] = "write" /\ lease = h /\ shown' = read[h] /\ lease' = lease
    BY <1>13 DEF Bought!WriteSync, Bought!Holds
  <2>3. \A s \in Unseen : (fresh[h] => signal[h] # s) => s \in Unseen'
    BY <1>13 DEF Bought!WriteSync, Unseen, Done
  <2>4. \A g \in Handlers : at'[g] = "write" /\ lease' = g => g # h
    BY <1>13 DEF Bought!WriteSync
  <2>5. signal' = signal /\ signals' = signals
    BY <1>13 DEF Bought!WriteSync
  <2> QED BY <2>1, <2>2, <2>3, <2>4, <2>5
<1>14. ASSUME NEW h \in Handlers, Bought!CheckWanted(h) PROVE Kept
  <2>1. Bought!Summary' = Bought!Summary
    BY <1>14, SummaryStays DEF Bought!CheckWanted
  <2>2. ASSUME NEW g \in Handlers, g # h PROVE HandlerStill(g)
    <3>1. CASE Bought!End(h)
      BY <2>2, <3>1, OthersStill
    <3>2. CASE ~Bought!End(h)
      BY <1>14, <2>2, <3>2 DEF Bought!CheckWanted, Bought!handlerVars, HandlerStill
    <3> QED BY <3>1, <3>2
  <2>3. at'[h] \in {"idle", "read"} /\ (signal'[h] = 0 \/ signal'[h] = signal[h])
    BY <1>14 DEF Bought!CheckWanted, Bought!End, Bought!ForgetLocals, Bought!handlerVars
  <2>4. Unseen \subseteq Unseen'
    <3>1. CASE fresh[h]
      BY <1>14, <2>2, <2>3, <3>1 DEF Bought!CheckWanted, Unseen, Done, HandlerStill
    <3>2. CASE ~fresh[h]
      BY <1>14, <2>2, <2>3, <3>2 DEF Bought!CheckWanted, Unseen, Done, HandlerStill
    <3> QED BY <3>1, <3>2
  <2>5. shown' = shown /\ signals' = signals
    BY <1>14 DEF Bought!CheckWanted
  <2>6. \A g \in Handlers : signal'[g] <= signals'
    BY <2>2, <2>3, <2>5 DEF HandlerStill
  <2>7. \A g \in Handlers : at'[g] = "write" /\ lease' = g =>
          read'[g] = Bought!Summary' \/ \E s \in Unseen' : fresh'[g] => signal'[g] # s
    BY <2>1, <2>2, <2>3, <2>4 DEF HandlerStill
  <2> QED BY <2>1, <2>4, <2>5, <2>6, <2>7
<1> QED
  BY <1>4, <1>5, <1>6, <1>7, <1>8, <1>9, <1>10, <1>11, <1>12, <1>13, <1>14 DEF Bought!Next, Does

LEMMA InitBilling == Bought!Init => BuyInv /\ SignalInv
<1> SUFFICES ASSUME Bought!Init PROVE BuyInv /\ SignalInv
  OBVIOUS
<1> USE DEF Bought!Init
<1>0. MaxKeys \in Nat /\ MaxSignals \in Nat
  BY BoughtAssumption DEF Bought!BillingAssumption
<1>1. Bought!TypeOK
  BY <1>0, NothingType DEF Bought!TypeOK, Bought!Steps
<1>2. KeyInTab
  BY DEF KeyInTab, Bought!Requests
<1>3. Payable = {} /\ handed = {}
  BY DEF Payable, Bought!Open
<1>4. ClosedFirst
  BY BoughtAssumption DEF ClosedFirst, Bought!BillingAssumption
<1>5. shown = Bought!Summary
  <2>1. {k \in Bought!Keys : sub[k] \in Bought!Open} = {}
    BY DEF Bought!Open
  <2>2. Cardinality({}) = 0
    BY FS_EmptySet
  <2> QED BY <2>1, <2>2, SameCount DEF Bought!Summary, Bought!Nothing
<1>6. \A h \in Handlers : signal[h] <= signals /\ at[h] # "write"
  BY DEF Bought!Requests
<1> QED BY <1>1, <1>2, <1>3, <1>4, <1>5, <1>6 DEF BuyInv, SignalInv

LEMMA BillingStutters ==
  ASSUME BuyInv, SignalInv, UNCHANGED moneyVars
  PROVE  BuyInv' /\ SignalInv'
<1>1. Bought!TypeOK' /\ KeyInTab' /\ ClosedFirst' /\ Payable' = Payable /\ Unseen' = Unseen
  BY DEF moneyVars, BuyInv, Bought!TypeOK, KeyInTab, ClosedFirst, Found, Payable, Unseen, Done
<1>2. Bought!Summary' = Bought!Summary
  BY SummaryStays DEF moneyVars
<1> QED BY <1>1, <1>2 DEF moneyVars, BuyInv, SignalInv

\* Two subscriptions of an account are never alive, and what the account shows
\* once every signal was answered is what Stripe has, for any number of tabs,
\* handlers, Checkouts and signals (app.ts, startCheckout and syncAccount).
THEOREM BilledOnceHolds == MCSpec => []BilledOnce
<1>1. MCInit => BuyInv /\ SignalInv
  BY InitBilling DEF MCInit
<1>2. BuyInv /\ SignalInv /\ [MCNext]_<<part, slotVars, moneyVars>> => (BuyInv /\ SignalInv)'
  BY BuyStep, SignalInvStep, BillingStutters DEF MCNext
<1>3. BuyInv /\ SignalInv => BilledOnce
  BY OneAlive DEF SignalInv, Unseen, Bought!AckedIsShown, BilledOnce
<1> QED BY <1>1, <1>2, <1>3, PTL DEF MCSpec
=============================================================================
