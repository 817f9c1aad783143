------------------------------ MODULE Billing ------------------------------
(***************************************************************************)
(* Buying and re-reading a subscription in the account Worker.             *)
(*                                                                         *)
(*   - A tab of the account page starts a Checkout (account/src/app.ts,    *)
(*     startCheckout); Stripe's signals make the Worker read the list of   *)
(*     subscriptions again (onWebhook, syncAccount).                       *)
(*   - Either works under the account's lease in D1 (worker.ts, d1Store),  *)
(*     which it extends before each call of Stripe.  The lease may expire  *)
(*     at any other time; then another takes it over while the first goes  *)
(*     on until it notices.                                                *)
(*   - A Checkout is made with a key written to D1 first.  Its answer may  *)
(*     be lost, its request may arrive late, the Worker may die: the next  *)
(*     holder finds the key and closes what was made with it.              *)
(*                                                                         *)
(* The user pays any open Checkout whose address was handed out, at any    *)
(* time; Stripe sends each signal until one handler answers it with 200,   *)
(* several at once and one signal twice.                                   *)
(*                                                                         *)
(* Simplifications:                                                        *)
(*   - A Checkout and the subscription it becomes are named by the key.    *)
(*   - A call lasts at most 10 s and is made right after the lease of 30 s *)
(*     was extended: extending and calling are one step.  The Checkout of  *)
(*     a call that was given up is made, if ever, within the ten minutes   *)
(*     after which the next holder takes its outcome for settled.          *)
(*   - The customer exists, and lists have one page.  Dates and the unused *)
(*     statuses (trialing, past_due, incomplete) are left out.             *)
(***************************************************************************)
EXTENDS Naturals, FiniteSets

CONSTANTS
  Tabs,        \* requests of startCheckout at a time
  Handlers,    \* signals being handled at a time
  None,
  MaxKeys,     \* bound: Checkouts begun
  MaxSignals   \* bound: changes of a subscription

BillingAssumption ==
  /\ Tabs \cap Handlers = {}
  /\ None \notin Tabs \cup Handlers \cup Nat
  /\ {MaxKeys, MaxSignals} \subseteq Nat \ {0}

VARIABLES
  \* D1: the row of the account
  lease,     \* who holds it
  attempt,   \* checkoutKey and whether checkoutSession is written, or None
  shown,     \* status and count of its subscriptions
  \* Stripe
  checkout,  \* checkout[k]: what became of the request with key k
  late,      \* keys whose request was given up and is on its way
  sub,       \* sub[k]: status of the subscription
  unacked,   \* signals not answered with 200
  \* the requests
  at,        \* at[p]: the next step
  prev,      \* the key the tab closes or makes
  todo,      \* the open Checkouts it closes
  signal,    \* the signal handled
  read,      \* the summary it has read
  fresh,     \* syncWanted is as it was before reading
  handed,    \* keys of the addresses given to the user
  signals    \* number of signals so far

stripeVars == <<checkout, late, sub, unacked, signals>>
tabVars == <<prev, todo>>
handlerVars == <<signal, read, fresh>>
vars == <<lease, attempt, shown, stripeVars, at, tabVars, handlerVars, handed>>

Keys == 1 .. MaxKeys
Requests == Tabs \cup Handlers

Open == {"active", "unpaid"}   \* OPEN_STATUSES

\* summarize(listSubscriptions(customer)): the best status and how many live.
Summary ==
  LET open == {k \in Keys : sub[k] \in Open}
      best == IF \E k \in open : sub[k] = "active" THEN "active"
              ELSE IF open # {} THEN "unpaid"
              ELSE IF \E k \in Keys : sub[k] # "none" THEN "canceled" ELSE "none"
  IN [status |-> best, count |-> Cardinality(open)]

Nothing == [status |-> "none", count |-> 0]
Summaries == [status : Open \cup {"canceled", "none"}, count : 0 .. MaxKeys]

Steps == {"idle", "attempt", "replay", "close", "clear", "open", "subs", "key", "create", "made",
          "begin", "read", "list", "write", "check"}

TypeOK ==
  /\ lease \in Requests \cup {None}
  /\ attempt \in [key : Keys, session : BOOLEAN] \cup {None}
  /\ shown \in Summaries /\ read \in [Handlers -> Summaries]
  /\ checkout \in [Keys -> {"none", "refused", "open", "expired", "complete"}]
  /\ late \subseteq Keys /\ handed \subseteq Keys
  /\ sub \in [Keys -> Open \cup {"canceled", "none"}]
  /\ signals \in 0 .. MaxSignals /\ unacked \subseteq 1 .. signals
  /\ at \in [Requests -> Steps]
  /\ prev \in [Tabs -> Keys \cup {None}] /\ todo \in [Tabs -> SUBSET Keys]
  /\ signal \in [Handlers -> 0 .. MaxSignals] /\ fresh \in [Handlers -> BOOLEAN]

Init ==
  /\ lease = None /\ attempt = None /\ shown = Nothing
  /\ checkout = [k \in Keys |-> "none"] /\ late = {} /\ handed = {}
  /\ sub = [k \in Keys |-> "none"] /\ signals = 0 /\ unacked = {}
  /\ at = [p \in Requests |-> "idle"]
  /\ prev = [t \in Tabs |-> None] /\ todo = [t \in Tabs |-> {}]
  /\ signal = [h \in Handlers |-> 0] /\ fresh = [h \in Handlers |-> FALSE]
  /\ read = [h \in Handlers |-> Nothing]

-----------------------------------------------------------------------------
(* withLease *)

Go(p, step) == at' = [at EXCEPT ![p] = step]

Acquire(p, step) == lease = None /\ lease' = p /\ Go(p, step)

Release(p) == lease' = IF lease = p THEN None ELSE lease

\* renewLease, and the condition of the conditional writes.
Holds(p) == lease = p

ForgetLocals(p) ==
  /\ prev' = [t \in Tabs |-> IF t = p THEN None ELSE prev[t]]
  /\ todo' = [t \in Tabs |-> IF t = p THEN {} ELSE todo[t]]
  /\ signal' = [h \in Handlers |-> IF h = p THEN 0 ELSE signal[h]]
  /\ fresh' = [h \in Handlers |-> fresh[h] /\ h # p]
  /\ read' = [h \in Handlers |-> IF h = p THEN Nothing ELSE read[h]]

End(p) == Go(p, "idle") /\ Release(p) /\ ForgetLocals(p)

\* A call fails, the lease is lost, the outcome is unknown (Busy), or a
\* handler has read SYNC_ROUNDS times: a 500, "busy" or a 503.
Throw(p) ==
  /\ at[p] # "idle"
  /\ End(p)
  /\ UNCHANGED <<attempt, shown, stripeVars, handed>>

\* The Worker dies: nobody releases.
Crash(p) ==
  /\ at[p] # "idle"
  /\ Go(p, "idle") /\ ForgetLocals(p)
  /\ UNCHANGED <<lease, attempt, shown, stripeVars, handed>>

Expire == lease # None /\ lease' = None
          /\ UNCHANGED <<attempt, shown, stripeVars, at, tabVars, handlerVars, handed>>

-----------------------------------------------------------------------------
(* startCheckout *)

Begin(t) ==
  /\ at[t] = "idle"
  /\ Acquire(t, "attempt")
  /\ UNCHANGED <<attempt, shown, stripeVars, tabVars, handlerVars, handed>>

\* ① What an earlier holder began: its Checkout is closed by its id, or made
\* again with its key and closed.
ReadAttempt(t) ==
  /\ at[t] = "attempt"
  /\ IF attempt = None THEN Go(t, "clear") /\ UNCHANGED prev
     ELSE /\ Go(t, IF attempt.session THEN "close" ELSE "replay")
          /\ prev' = [prev EXCEPT ![t] = attempt.key]
  /\ UNCHANGED <<lease, attempt, shown, stripeVars, todo, handlerVars, handed>>

\* Stripe answers a key it knows as it did the first time.
Made(k) ==
  /\ checkout[k] # "refused" /\ k \notin late
  /\ checkout' = [checkout EXCEPT ![k] = IF @ = "none" THEN "open" ELSE @]
  /\ UNCHANGED late

NotAllowed(k) ==
  /\ checkout[k] \in {"none", "refused"} /\ k \notin late
  /\ checkout' = [checkout EXCEPT ![k] = "refused"]
  /\ UNCHANGED late

\* The answer is lost, a 5xx, or the request is given up on its way.
Unknown(k) ==
  \/ Made(k)
  \/ checkout[k] = "none" /\ late' = late \cup {k} /\ UNCHANGED checkout

Replay(t) ==
  LET k == prev[t] IN
  /\ at[t] = "replay" /\ Holds(t)
  /\ \/ Made(k) /\ Go(t, "close") /\ UNCHANGED <<lease, tabVars, handlerVars>>
     \/ NotAllowed(k) /\ Go(t, "clear") /\ UNCHANGED <<lease, tabVars, handlerVars>>
     \/ Unknown(k) /\ End(t)
     \/ k \notin late /\ Go(t, "clear")   \* ATTEMPT_SETTLE_MS have passed
        /\ UNCHANGED <<lease, checkout, late, tabVars, handlerVars>>
  /\ UNCHANGED <<attempt, shown, sub, unacked, signals, handed>>

\* expireCheckout: one that is paid or closed stays so.
CloseAtStripe(k) ==
  checkout' = [checkout EXCEPT ![k] = IF @ = "open" THEN "expired" ELSE @]

Close(t) ==
  /\ at[t] = "close" /\ Holds(t)
  /\ CloseAtStripe(prev[t]) /\ Go(t, "clear")
  /\ UNCHANGED <<lease, attempt, shown, late, sub, unacked, signals, tabVars, handlerVars, handed>>

Clear(t) ==
  /\ at[t] = "clear" /\ Holds(t)
  /\ attempt' = None /\ Go(t, "open")
  /\ prev' = [prev EXCEPT ![t] = None]
  /\ UNCHANGED <<lease, shown, stripeVars, todo, handlerVars, handed>>

\* ② The open Checkouts are closed,
ListOpen(t) ==
  /\ at[t] = "open" /\ Holds(t)
  /\ todo' = [todo EXCEPT ![t] = {k \in Keys : checkout[k] = "open"}]
  /\ Go(t, IF todo'[t] = {} THEN "subs" ELSE "open")
  /\ todo[t] = {}
  /\ UNCHANGED <<lease, attempt, shown, stripeVars, prev, handlerVars, handed>>

CloseOpen(t) ==
  /\ at[t] = "open" /\ Holds(t)
  /\ \E k \in todo[t] :
       /\ CloseAtStripe(k)
       /\ todo' = [todo EXCEPT ![t] = @ \ {k}]
       /\ Go(t, IF todo'[t] = {} THEN "subs" ELSE "open")
  /\ UNCHANGED <<lease, attempt, shown, late, sub, unacked, signals, prev, handlerVars, handed>>

\* A fault: what the row shows is taken for what Stripe has.
SubscribedFault == shown.status \in Open

\* ③ and only then is the list of subscriptions read: with one, the user is
\* sent to the billing portal.
Subscribed == \E k \in Keys : sub[k] \in Open

ListSubs(t) ==
  /\ at[t] = "subs" /\ Holds(t)
  /\ IF Subscribed THEN End(t) ELSE Go(t, "key") /\ UNCHANGED <<lease, tabVars, handlerVars>>
  /\ UNCHANGED <<attempt, shown, stripeVars, handed>>

\* ④ The key is written, the Checkout made, its id written, and the address
\* handed out.
WriteKey(t) ==
  /\ at[t] = "key" /\ Holds(t)
  /\ \E k \in Keys :
       /\ checkout[k] = "none" /\ k \notin late
       /\ \A j \in 1 .. k - 1 : checkout[j] # "none" \/ j \in late
       /\ \A u \in Tabs : prev[u] # k
       /\ attempt' = [key |-> k, session |-> FALSE]
       /\ prev' = [prev EXCEPT ![t] = k]
  /\ Go(t, "create")
  /\ UNCHANGED <<lease, shown, stripeVars, todo, handlerVars, handed>>

Create(t) ==
  LET k == prev[t] IN
  /\ at[t] = "create" /\ Holds(t)
  /\ \/ Made(k) /\ Go(t, "made") /\ UNCHANGED <<lease, tabVars, handlerVars>>
     \/ (NotAllowed(k) \/ Unknown(k)) /\ End(t)
  /\ UNCHANGED <<attempt, shown, sub, unacked, signals, handed>>

HandOut(t) ==
  /\ at[t] = "made" /\ Holds(t)
  /\ attempt' = [key |-> prev[t], session |-> TRUE]
  /\ handed' = handed \cup {prev[t]}
  /\ End(t)
  /\ UNCHANGED <<shown, stripeVars>>

-----------------------------------------------------------------------------
(* onWebhook and syncAccount *)

\* bumpSync: whoever is reading will read again.
Deliver(h) ==
  /\ at[h] = "idle"
  /\ \E s \in unacked : signal' = [signal EXCEPT ![h] = s]
  /\ fresh' = [x \in Handlers |-> FALSE]
  /\ Go(h, "begin")
  /\ UNCHANGED <<lease, attempt, shown, stripeVars, tabVars, read, handed>>

BeginSync(h) ==
  /\ at[h] = "begin"
  /\ Acquire(h, "read")
  /\ UNCHANGED <<attempt, shown, stripeVars, tabVars, handlerVars, handed>>

ReadWanted(h) ==
  /\ at[h] = "read"
  /\ fresh' = [fresh EXCEPT ![h] = TRUE]
  /\ Go(h, "list")
  /\ UNCHANGED <<lease, attempt, shown, stripeVars, tabVars, signal, read, handed>>

ReadSubs(h) ==
  /\ at[h] = "list" /\ Holds(h)
  /\ read' = [read EXCEPT ![h] = Summary]
  /\ Go(h, "write")
  /\ UNCHANGED <<lease, attempt, shown, stripeVars, tabVars, signal, fresh, handed>>

WriteSync(h) ==
  /\ at[h] = "write" /\ Holds(h)
  /\ shown' = read[h] /\ Go(h, "check")
  /\ read' = [read EXCEPT ![h] = Nothing]
  /\ UNCHANGED <<lease, attempt, stripeVars, tabVars, signal, fresh, handed>>

CheckWanted(h) ==
  /\ at[h] = "check"
  /\ IF fresh[h] THEN End(h) /\ unacked' = unacked \ {signal[h]}
     ELSE Go(h, "read") /\ UNCHANGED <<lease, unacked, tabVars, handlerVars>>
  /\ UNCHANGED <<attempt, shown, checkout, late, sub, signals, handed>>

-----------------------------------------------------------------------------
(* Stripe and the user *)

Signal == signals < MaxSignals /\ signals' = signals + 1 /\ unacked' = unacked \cup {signals + 1}

LateRequest(k) ==
  /\ k \in late
  /\ late' = late \ {k}
  /\ checkout' = [checkout EXCEPT ![k] = IF @ = "none" THEN "open" ELSE @]
  /\ UNCHANGED <<lease, attempt, shown, sub, unacked, signals, at, tabVars, handlerVars, handed>>

Pay(k) ==
  /\ checkout[k] = "open" /\ k \in handed
  /\ checkout' = [checkout EXCEPT ![k] = "complete"]
  /\ sub' = [sub EXCEPT ![k] = "active"]
  /\ Signal
  /\ UNCHANGED <<lease, attempt, shown, late, at, tabVars, handlerVars, handed>>

SubscriptionChanges(k) ==
  /\ sub[k] \in Open
  /\ \E s \in (Open \cup {"canceled"}) \ {sub[k]} : sub' = [sub EXCEPT ![k] = s]
  /\ Signal
  /\ UNCHANGED <<lease, attempt, shown, checkout, late, at, tabVars, handlerVars, handed>>

Next ==
  \/ \E p \in Requests : Throw(p) \/ Crash(p)
  \/ Expire
  \/ \E t \in Tabs :
       \/ Begin(t) \/ ReadAttempt(t) \/ Replay(t) \/ Close(t) \/ Clear(t)
       \/ ListOpen(t) \/ CloseOpen(t) \/ ListSubs(t)
       \/ WriteKey(t) \/ Create(t) \/ HandOut(t)
  \/ \E h \in Handlers :
       Deliver(h) \/ BeginSync(h) \/ ReadWanted(h) \/ ReadSubs(h) \/ WriteSync(h) \/ CheckWanted(h)
  \/ \E k \in Keys : LateRequest(k) \/ Pay(k) \/ SubscriptionChanges(k)

Spec == Init /\ [][Next]_vars

-----------------------------------------------------------------------------
\* However many tabs buy, and whenever the user pays: two subscriptions are
\* never alive (startCheckout).
OneSubscription == Cardinality({k \in Keys : sub[k] \in Open}) <= 1

\* Once every signal is answered with 200, the row shows what Stripe has
\* (onWebhook, syncAccount: nothing is lost).
AckedIsShown == unacked = {} => shown = Summary
=============================================================================
