----------------------------- MODULE MCAccount -----------------------------
(* The account's slots in three worlds: two credentials used on one        *)
(* machine and removed; one credential, tickets that overtake each other;  *)
(* two machines under a plan for one or two.  And two of what is bought:   *)
(* two tabs buy; signals are handled while one buys.  A behaviour is one   *)
(* of one part; the bounds of the part say what its world has.             *)
EXTENDS AccountSlots, TLC

CONSTANTS k1, k2, m1, m2, n1, n2, c1, c2, x1, t1
CONSTANTS Tabs, Handlers, MaxKeys, MaxSignals   \* of what is bought

VARIABLES part, lease, attempt, shown, checkout, late, sub, unacked, at, prev, todo,
          signal, read, fresh, handed, signals

slotVars == <<acctVars, remVars, ledgerVars, roomVars, checkVars>>

moneyVars == <<lease, attempt, shown, checkout, late, sub, unacked, at, prev, todo,
               signal, read, fresh, handed, signals>>

MCMachines == {k1, k2}
MCMids == {m1, n1, m2, n2}
MCHome == (m1 :> k1) @@ (n1 :> k1) @@ (m2 :> k2) @@ (n2 :> k2)
MCPlans == {1, 2}
MCChecks == {c1, c2}
MCRemovals == {x1}

Bought == INSTANCE Billing

ASSUME BoughtAssumption == Bought!BillingAssumption

MCInit ==
  /\ part \in {"removed", "tickets", "plans", "buying", "signals"}
  /\ Init /\ Bought!Init

MCNext ==
  /\ UNCHANGED part
  /\ \/ part \in {"removed", "tickets", "plans"} /\ Next /\ UNCHANGED moneyVars
     \/ part \in {"buying", "signals"} /\ Bought!Next /\ UNCHANGED slotVars

MCSpec == MCInit /\ [][MCNext]_<<part, slotVars, moneyVars>>

\* Checks may be swapped, and machines and credentials as long as each
\* credential stays on its machine.
MCMoves == {p \in Permutations(Machines \cup Mids) :
              \A m \in Mids : p[m] \in Mids /\ p[Home[m]] = Home[p[m]]}
MCSymmetry == {p @@ q : p \in MCMoves, q \in Permutations(Checks)}

(* What a check, a removal and a connection can still do.                  *)
MCCheckView(c) ==
  IF ph[c] = "none" THEN <<>>
  ELSE IF dead[c] THEN <<on[c], tk[c], "dead">>
  ELSE <<on[c], tk[c], gen[c], ph[c], cut[c]>>

MCRemovalView(x) == IF rem[x] = "none" THEN <<>> ELSE <<rem[x], remOf[x], lost[x]>>

MCRoomView(k) == IF alive[k] THEN <<seq[k], applied[k], lic[k]>> ELSE <<>>

MCRowView(m) ==
  IF row[m] \in {"absent", "removed"} THEN <<row[m], issue[m] = "signing">>
  ELSE <<row[m], key[m], issue[m]>>

MCView == <<part, [m \in DOMAIN row |-> MCRowView(m)], plan, valid, reg, older, mids, revoked,
            [x \in DOMAIN rem |-> MCRemovalView(x)], [c \in DOMAIN ph |-> MCCheckView(c)],
            [k \in DOMAIN alive |-> MCRoomView(k)],
            IF part \in {"buying", "signals"} THEN moneyVars ELSE <<>>>>

MCAtWork == {c \in Checks : ph[c] # "none"}
MCSigned == {m \in Mids : row[m] # "absent"}
MCOneMachine == Cardinality({Home[m] : m \in MCSigned} \cup {k \in Machines : alive[k]}) <= 1

\* Removed: one machine with two credentials, one ticket checked at a time.
\* Tickets: one credential, two tickets of one connection overtake each other.
\* Plans: two machines ask for tickets one after the other, and two tickets
\* are good at a time.
\* Buying: two tabs buy, nobody handles signals.  Signals: two are handled at a
\* time, and one tab buys, once.
MCBound ==
  /\ part = "removed" =>
       MCOneMachine /\ plan = 1 /\ Cardinality(MCAtWork) <= 1 /\ \A k \in Machines : seq[k] <= 1
  /\ part = "tickets" => MCOneMachine /\ Cardinality(MCSigned) <= 1
  /\ part = "plans" =>
       /\ \A m, n \in MCSigned : Home[m] = Home[n] => m = n
       /\ \A k \in Machines : seq[k] <= 1
       /\ Cardinality({m \in Mids : issue[m] # "none"}) <= 1
       /\ Cardinality(valid) <= 2
  /\ part \in {"tickets", "plans"} => \A x \in Removals : rem[x] = "none"
  /\ part = "buying" => \A h \in Handlers : at[h] = "idle"
  /\ part = "signals" =>
       /\ \A t \in Tabs : at[t] # "idle" => t = t1
       /\ attempt # None => attempt.key = 1

-----------------------------------------------------------------------------
\* Two subscriptions of an account are never alive, however many tabs buy and
\* whenever the user pays; and once every signal was answered with 200 the
\* account shows what Stripe has (app.ts, startCheckout and syncAccount).
BilledOnce == Bought!OneSubscription /\ Bought!AckedIsShown
=============================================================================
