---------------------------- MODULE Connections ----------------------------
(***************************************************************************)
(* The list of machines on the phone (endpoints.ts): the app's rows, what   *)
(* is stored of them, and the copy that the Settings screen edits           *)
(* (ui/Endpoints.tsx).  Pairing, unlinking and the probe of the own origin  *)
(* change the rows while the copy is open; saving it starts the app anew.   *)
(*                                                                         *)
(* A row is the relay by which its machine is reached, or Direct.           *)
(* A pairing over a row that is there and is not by the relay writes none.   *)
(* Simplified: the QR code of a machine always or never has its URL, so a   *)
(* machine has one id; one pairing and one unlinking at a time; one tab.    *)
(***************************************************************************)
EXTENDS Naturals

CONSTANTS
    Machines,
    Relays,
    Self,         \* the machine at the own origin
    MaxActs,      \* bound: what the user begins
    Direct,       \* a row without a relay
    Out,          \* no row
    None

(* What a row can be is told apart, and "none" from what there may be.      *)
ConnectionsAssumption ==
    /\ Direct # Out /\ Relays \cap {Direct, Out} = {} /\ Self \in Machines
    /\ None \notin [Machines -> Relays \cup {Direct, Out}]
    /\ None \notin [m : Machines, here : BOOLEAN]
    /\ None \notin [m : Machines, via : Relays \cup {Direct}, adds : BOOLEAN, here : BOOLEAN]

VARIABLES
    rows,    \* of the app
    stored,  \* in localStorage
    form,    \* the copy being edited
    seen,    \* the rows that were merged into it last (prevFresh)
    dirty,
    probing, \* the own origin is asked
    unlink,  \* the unlinking under way, and whether its screen is still there
    pair,    \* the pairing under way, whether it adds a row, and its screen
    last,    \* the machine paired on this screen (lastPaired)
    acts,
    added,   \* typed in and not saved
    outlived,\* in the copy, though unlinked from an earlier screen since (history)
    wanted   \* what the user did last with each machine (history variable)

app == <<rows, stored>>
screen == <<form, seen, dirty, last, added, outlived>>
vars == <<app, screen, probing, unlink, pair, acts, wanted>>

Listed(list) == {m \in Machines : list[m] # Out}
Empty == [m \in Machines |-> Out]

Init ==
    /\ stored \in [Machines -> Relays \cup {Direct, Out}] /\ rows = stored /\ wanted = stored
    /\ form = None /\ seen = Empty /\ dirty = FALSE /\ last = None /\ added = {}
    /\ outlived = {}
    /\ probing = (Listed(rows) = {}) /\ unlink = None /\ pair = None /\ acts = 0

Act == acts < MaxActs /\ acts' = acts + 1

-----------------------------------------------------------------------------
(* A change of the rows, and what the open copy takes over of it.           *)

(* A relay learned.                                                         *)
MergeRelay(editing, fresh) ==
    [m \in Machines |->
        IF editing[m] = Direct /\ fresh[m] \in Relays THEN fresh[m] ELSE editing[m]]

\* A fault: no change of a route is taken over.
MergeRouteFault(editing, before, fresh) == editing

(* A relay changed or dropped since it was seen.                            *)
MergeRoute(editing, before, fresh) ==
    [m \in Machines |->
        IF Out \notin {editing[m], before[m], fresh[m]} /\ fresh[m] # before[m]
        THEN fresh[m] ELSE editing[m]]

\* A fault: what the copy lacks is taken to be new.
MergeAddedFault(editing, before, fresh) ==
    [m \in Machines |-> IF editing[m] = Out THEN fresh[m] ELSE editing[m]]

(* New rows; one that was seen before and is not in the copy was removed.   *)
MergeAdded(editing, before, fresh) ==
    [m \in Machines |-> IF editing[m] = Out /\ before[m] = Out THEN fresh[m] ELSE editing[m]]

Merged(fresh) ==
    MergeAdded(MergeRoute(MergeRelay(form, fresh), seen, fresh), seen, fresh)

(* `gone` are the machines that the screen takes out of its copy itself.    *)
SetRows(new, gone) ==
    /\ rows' = new /\ stored' = new /\ probing' = (probing \/ (rows # new /\ Listed(new) = {}))
    /\ IF form = None THEN UNCHANGED <<form, seen>>
       ELSE /\ form' = [m \in Machines |-> IF m \in gone THEN Out ELSE Merged(new)[m]]
            /\ seen' = new

-----------------------------------------------------------------------------
(* The Settings screen.                                                     *)

OpenSettings ==
    /\ form = None /\ form' = stored /\ seen' = rows
    /\ UNCHANGED <<app, dirty, last, added, outlived, probing, unlink, pair, acts, wanted>>

(* The screen and its state are gone.                                       *)
Closed ==
    form' = None /\ seen' = Empty /\ dirty' = FALSE /\ last' = None /\ added' = {} /\ outlived' = {}

(* What is under way goes on without its screen.                            *)
Orphaned(job) == IF job = None THEN None ELSE [job EXCEPT !.here = FALSE]

Leave ==
    /\ form # None /\ Closed
    /\ unlink' = Orphaned(unlink) /\ pair' = Orphaned(pair)
    /\ UNCHANGED <<app, probing, acts, wanted>>

(* A URL is typed in.                                                       *)
Add(m) ==
    /\ form # None /\ form[m] = Out /\ Act
    /\ form' = [form EXCEPT ![m] = Direct] /\ dirty' = TRUE /\ added' = added \cup {m}
    /\ UNCHANGED <<app, seen, last, outlived, probing, unlink, pair, wanted>>

(* Saved, the app is loaded anew; not while this screen unlinks.            *)
Apply ==
    /\ form # None /\ dirty /\ ~(unlink # None /\ unlink.here)
    /\ stored' = form /\ rows' = form /\ Closed
    /\ unlink' = None /\ pair' = None /\ probing' = (Listed(form) = {})
    /\ wanted' = [m \in Machines |-> IF m \in added \cup outlived THEN form[m] ELSE wanted[m]]
    /\ UNCHANGED acts

-----------------------------------------------------------------------------
(* Unlinking: the machine is told first, and the row goes in any case.      *)

DoUnlink(m) ==
    /\ form # None /\ form[m] # Out /\ unlink = None /\ Act
    /\ unlink' = [m |-> m, here |-> TRUE]
    /\ UNCHANGED <<app, screen, probing, pair, wanted>>

(* The answer, or that there is none.  The copy of another screen than its  *)
(* own keeps the row.                                                       *)
Forget ==
    /\ unlink # None /\ unlink' = None
    /\ SetRows([rows EXCEPT ![unlink.m] = Out], IF unlink.here THEN {unlink.m} ELSE {})
    /\ IF unlink.here
       THEN added' = added \ {unlink.m} /\ outlived' = outlived \ {unlink.m}
       ELSE /\ outlived' = outlived \cup {m \in {unlink.m} : form # None /\ form[m] # Out}
            /\ UNCHANGED added
    /\ wanted' = [wanted EXCEPT ![unlink.m] = Out]
    /\ UNCHANGED <<dirty, last, pair, acts>>

(* A row like that of the machine just paired, of an older key: the user    *)
(* may take it off the list.                                                *)
ForgetTwin(m) ==
    /\ form # None /\ last # None /\ last # m
    /\ form[m] # Out /\ form[m] \in Relays /\ form[m] = rows[last] /\ Act
    /\ SetRows([rows EXCEPT ![m] = Out], {m})
    /\ added' = added \ {m} /\ outlived' = outlived \ {m} /\ wanted' = [wanted EXCEPT ![m] = Out]
    /\ UNCHANGED <<dirty, last, unlink, pair>>

-----------------------------------------------------------------------------
(* Pairing, by the relay of the QR code or, if that names none, by its URL. *)
(* A listed machine whose own way answers is registered over that, and its  *)
(* row stays as it is; in all other cases a row is written.                 *)

RunPairing(m, via, adds) ==
    /\ adds \/ (via = Direct /\ rows[m] # Out)
    /\ form # None /\ pair = None /\ Act
    /\ pair' = [m |-> m, via |-> via, adds |-> adds, here |-> TRUE] /\ last' = None
    /\ UNCHANGED <<app, form, seen, dirty, added, outlived, probing, unlink, wanted>>

(* A row that is there takes the way that worked; a relay is dropped when   *)
(* the machine has none any more.                                           *)
Upsert(m, via) == [rows EXCEPT ![m] = via]

PairDone ==
    /\ pair # None /\ pair' = None
    /\ IF pair.adds
       THEN /\ SetRows(Upsert(pair.m, pair.via), {})
            /\ added' = added \ {pair.m} /\ wanted' = [wanted EXCEPT ![pair.m] = pair.via]
       ELSE UNCHANGED <<app, form, seen, probing, added, wanted>>
    /\ last' = IF pair.here /\ pair.via # Direct THEN pair.m ELSE last
    /\ UNCHANGED <<dirty, outlived, unlink, acts>>

PairFailed == pair # None /\ pair' = None /\ UNCHANGED <<app, screen, probing, unlink, acts, wanted>>

-----------------------------------------------------------------------------
\* A fault: rows may have come while the origin was asked.
ShouldOfferSelfFault(list, ok) == ok

ShouldOfferSelf(list, ok) == Listed(list) = {} /\ ok

(* Asked when there are no rows; a row may have come meanwhile.             *)
OfferSelf(ok) ==
    /\ probing
    /\ IF ShouldOfferSelf(rows, ok)
       THEN LET new == [Empty EXCEPT ![Self] = Direct]
            IN  /\ rows' = new /\ stored' = new
                /\ IF form = None THEN UNCHANGED <<form, seen>>
                   ELSE form' = Merged(new) /\ seen' = new
                /\ added' = added \ {Self} /\ wanted' = [wanted EXCEPT ![Self] = Direct]
       ELSE UNCHANGED <<app, form, seen, added, wanted>>
    /\ probing' = FALSE
    /\ UNCHANGED <<dirty, last, outlived, unlink, pair, acts>>

Next ==
    \/ OpenSettings \/ Leave \/ Apply \/ Forget \/ PairDone \/ PairFailed
    \/ \E m \in Machines :
          \/ Add(m) \/ DoUnlink(m) \/ ForgetTwin(m)
          \/ \E via \in Relays \cup {Direct}, adds \in BOOLEAN : RunPairing(m, via, adds)
    \/ \E ok \in BOOLEAN : OfferSelf(ok)

Spec == Init /\ [][Next]_vars

-----------------------------------------------------------------------------
TypeOK ==
    /\ rows \in [Machines -> Relays \cup {Direct, Out}]
    /\ added \subseteq Machines /\ acts \in 0 .. MaxActs

(* The list is what the user made of it: a row that a pairing wrote is      *)
(* neither lost nor undone, and a machine that was unlinked does not come   *)
(* back, not by saving the copy of the Settings screen, however long it was *)
(* open (endpoints.ts mergeRelay, mergeRoute, mergeAdded, shouldOfferSelf). *)
(* Only a copy opened after the screen of an unlinking was left, and before *)
(* its answer, keeps the row and brings it back if it is saved.             *)
AsTheUserLeftIt ==
    /\ rows = wanted /\ stored = wanted
    /\ form # None => \A m \in Machines \ (added \cup outlived) : form[m] = wanted[m]
=============================================================================
