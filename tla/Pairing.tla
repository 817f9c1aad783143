------------------------------ MODULE Pairing ------------------------------
(***************************************************************************)
(* Pairing a phone: the registered devices and the one-time codes of the   *)
(* agent (agent/src/devices.ts, routes/devices.ts), nyan pair, which shows *)
(* a code as a QR and asks every second what became of it                  *)
(* (scripts/pair.mjs), and the steps of the phone (web/src/ui/pairRun.ts). *)
(*                                                                         *)
(*   - Registrations, revocations and cancellations wait in one queue; the *)
(*     head saves devices.json and may fail to.                            *)
(*   - Issuing a code and asking for its state do not wait in the queue.   *)
(*   - The agent may stop at any time: codes and outcomes are in memory    *)
(*     only, devices.json is read again at the next start.                 *)
(*                                                                         *)
(* A code is its own id.  An outcome is kept for five minutes and asked    *)
(* for every second, so it is not forgotten here.  What a phone asks is    *)
(* its key to be registered or revoked; an answer may be lost.             *)
(***************************************************************************)
EXTENDS Naturals, Sequences, FiniteSets

CONSTANTS
  Keys,        \* device keys
  Codes,       \* one-time codes that may be issued
  None,
  MaxQueue,    \* bound: operations waiting at the same time
  MaxStops,    \* bound: stops of the agent
  MaxAsks      \* bound: what phones ask

VARIABLES
  disk,        \* devices.json: a set of keys, or None when it cannot be read
  up,
  broken,      \* the registrations could not be loaded
  devices,     \* the keys registered, in memory
  oneTimes,    \* codes issued and not used or cancelled
  expired,     \* codes whose five minutes are over
  settled,     \* settled[c]: the outcome of a code
  chain,       \* operations: the first is under way
  phase,       \* of the first: waits, saves, saved
  stops, asks,
  pc,          \* pc[c]: the nyan pair that asked for c
  said,        \* said[c]: what it ended with
  phone,       \* phone[k]: what the phone with key k did last
  used,        \* history, used[c]: the keys registered with c
  undone       \* history: codes that were about when the agent stopped

agentVars == <<up, broken, devices, oneTimes, settled, chain, phase>>
histVars == <<used, undone>>
vars == <<disk, agentVars, expired, stops, asks, pc, said, phone, histVars>>

PairingAssumption == (\A K \in SUBSET Keys : K # None) /\ None \notin Keys \cup Codes

Outcomes == {"none", "registering", "registered", "already", "failed", "cancelled"}

TypeOK ==
  /\ disk \in (SUBSET Keys) \cup {None} /\ devices \in SUBSET Keys
  /\ oneTimes \subseteq Codes /\ expired \subseteq Codes
  /\ settled \in [Codes -> Outcomes]
  /\ phase \in {"waits", "saves", "saved"} /\ Len(chain) <= MaxQueue
  /\ pc \in [Codes -> {"idle", "issuing", "stopping", "shows", "cancels", "gone"}]
  /\ used \in [Codes -> SUBSET Keys]

NoCode == [c \in Codes |-> "none"]

\* loadDevices: a file that cannot be read refuses every device and is kept.
Loaded ==
  /\ broken' = (disk = None) /\ devices' = (IF disk = None THEN {} ELSE disk)
  /\ oneTimes' = {} /\ settled' = NoCode /\ chain' = <<>> /\ phase' = "waits"

Init ==
  /\ disk \in {{}, None} \cup {{k} : k \in Keys} /\ up = TRUE
  /\ broken = (disk = None) /\ devices = (IF disk = None THEN {} ELSE disk)
  /\ oneTimes = {} /\ expired = {} /\ settled = NoCode /\ chain = <<>> /\ phase = "waits"
  /\ stops = 0 /\ asks = 0 /\ pc = [c \in Codes |-> "idle"] /\ said = NoCode
  /\ phone = [k \in Keys |-> [doing |-> "idle", told |-> "none"]]
  /\ used = [c \in Codes |-> {}] /\ undone = {}

-----------------------------------------------------------------------------
(* The queue.                                                              *)

Enqueue(op) == up /\ Len(chain) < MaxQueue /\ chain' = Append(chain, op)
Dequeue == chain' = Tail(chain) /\ phase' = "waits"
Under(op) == up /\ chain # <<>> /\ Head(chain).op = op

\* The phone that asked is told, if it still waits.
Tell(k, t) ==
  phone' = IF Head(chain).awaited THEN [phone EXCEPT ![k] = [doing |-> "idle", told |-> t]] ELSE phone

\* A fault: a code is good for more than one phone.
ConsumedFault(c) == oneTimes
Consumed(c) == oneTimes \ {c}

Registering(c) == [settled EXCEPT ![c] = "registering"]

\* A device that is not registered yet is taken over once it is saved.
\* A fault: it is taken over at once.
TakenFault(k) == devices \cup {k}
Taken(k) == devices

\* registerDevice, up to the save.
Register ==
  /\ Under("register") /\ phase = "waits"
  /\ LET k == Head(chain).key
         c == Head(chain).code
     IN IF broken \/ c \notin oneTimes \/ ~Head(chain).early
        THEN Dequeue /\ Tell(k, "refused") /\ UNCHANGED <<devices, oneTimes, settled, used>>
        ELSE /\ oneTimes' = Consumed(c)
             /\ IF k \in devices
                THEN /\ settled' = [settled EXCEPT ![c] = "already"] /\ used' = [used EXCEPT ![c] = @ \cup {k}]
                     /\ Dequeue /\ Tell(k, "in") /\ UNCHANGED devices
                ELSE /\ settled' = Registering(c) /\ phase' = "saves" /\ devices' = Taken(k)
                     /\ UNCHANGED <<chain, phone, used>>
  /\ UNCHANGED <<disk, up, broken, expired, stops, asks, pc, said, undone>>

\* revokeDevice, up to the save: the key is refused from here on.
Revoke ==
  /\ Under("revoke") /\ phase = "waits"
  /\ LET k == Head(chain).key
     IN IF broken \/ k \notin devices
        THEN Dequeue /\ Tell(k, "refused") /\ UNCHANGED devices
        ELSE devices' = devices \ {k} /\ phase' = "saves" /\ UNCHANGED <<chain, phone>>
  /\ UNCHANGED <<disk, up, broken, oneTimes, settled, expired, stops, asks, pc, said, histVars>>

\* A fault: what is written is what the process read at its start.
WrittenFault == IF Head(chain).op = "register" THEN disk \cup {Head(chain).key} ELSE disk
\* writeState: the registrations in memory, and the one being added.
Written == IF Head(chain).op = "register" THEN devices \cup {Head(chain).key} ELSE devices

Write ==
  /\ up /\ chain # <<>> /\ phase = "saves" /\ phase' = "saved" /\ disk' = Written
  /\ UNCHANGED <<up, broken, devices, oneTimes, settled, chain, expired, stops, asks, pc, said, phone, histVars>>

\* The save is known to have gone well.
Saved ==
  /\ up /\ chain # <<>> /\ phase = "saved" /\ Dequeue
  /\ Tell(Head(chain).key, IF Head(chain).op = "register" THEN "in" ELSE "out")
  /\ IF Head(chain).op = "register"
     THEN /\ devices' = devices \cup {Head(chain).key}
          /\ settled' = [settled EXCEPT ![Head(chain).code] = "registered"]
          /\ used' = [used EXCEPT ![Head(chain).code] = @ \cup {Head(chain).key}]
     ELSE UNCHANGED <<devices, settled, used>>
  /\ UNCHANGED <<disk, up, broken, oneTimes, expired, stops, asks, pc, said, undone>>

SaveFails ==
  /\ up /\ chain # <<>> /\ phase = "saves" /\ Dequeue /\ Tell(Head(chain).key, "unsaved")
  /\ settled' = IF Head(chain).op = "register" THEN [settled EXCEPT ![Head(chain).code] = "failed"] ELSE settled
  /\ UNCHANGED <<disk, up, broken, devices, oneTimes, expired, stops, asks, pc, said, histVars>>

\* cancelOneTime: what it answers is the state the code is left in.
Cancel ==
  /\ Under("cancel") /\ Dequeue
  /\ LET c == Head(chain).code
         hit == c \in oneTimes /\ Head(chain).early
     IN /\ oneTimes' = oneTimes \ (IF hit THEN {c} ELSE {})
        /\ settled' = IF hit THEN [settled EXCEPT ![c] = "cancelled"] ELSE settled
        /\ IF pc[c] = "cancels"
           THEN pc' = [pc EXCEPT ![c] = "gone"] /\ said' = [said EXCEPT ![c] = IF hit THEN "cancelled" ELSE "over"]
           ELSE UNCHANGED <<pc, said>>
  /\ UNCHANGED <<disk, up, broken, devices, expired, stops, asks, phone, histVars>>

Expire(c) ==
  /\ pc[c] # "idle" /\ c \notin expired /\ expired' = expired \cup {c}
  /\ UNCHANGED <<disk, agentVars, stops, asks, pc, said, phone, histVars>>

Stop ==
  /\ up /\ stops < MaxStops /\ stops' = stops + 1 /\ up' = FALSE
  /\ chain' = <<>> /\ phase' = "waits"
  \* those who wait for an answer get none
  /\ phone' = [k \in Keys |-> IF phone[k].doing = "idle" THEN phone[k] ELSE [doing |-> "idle", told |-> "lost"]]
  /\ pc' = [c \in Codes |-> IF pc[c] \in {"issuing", "stopping", "cancels"} THEN "gone" ELSE pc[c]]
  /\ undone' = {c \in Codes : pc[c] # "idle"}
  /\ UNCHANGED <<disk, broken, devices, oneTimes, settled, expired, asks, said, used>>

Start ==
  /\ ~up /\ up' = TRUE /\ Loaded
  /\ UNCHANGED <<disk, expired, stops, asks, pc, said, phone, histVars>>

-----------------------------------------------------------------------------
(* nyan pair.                                                              *)

\* pairToken: refused while the registrations are broken.
Issue(c) ==
  /\ pc[c] = "idle" /\ up /\ ~broken
  /\ pc' = [pc EXCEPT ![c] = "issuing"]
  /\ oneTimes' = (oneTimes \ expired) \cup {c}
  /\ UNCHANGED <<disk, up, broken, devices, settled, chain, phase, expired, stops, asks, said, phone, histVars>>

\* The answer with the code: the QR is shown, or taken back at once when
\* Ctrl-C was pressed meanwhile.
Issued(c) ==
  /\ pc[c] \in {"issuing", "stopping"}
  /\ IF pc[c] = "issuing" THEN pc' = [pc EXCEPT ![c] = "shows"] /\ UNCHANGED chain
     ELSE /\ pc' = [pc EXCEPT ![c] = "cancels"]
          /\ Enqueue([op |-> "cancel", code |-> c, key |-> None, early |-> c \notin expired, awaited |-> TRUE])
  /\ UNCHANGED <<disk, up, broken, devices, oneTimes, settled, phase, expired, stops, asks, said, phone, histVars>>

\* Ctrl-C: a second one while the code is awaited leaves without it.
CtrlC(c) ==
  /\ \/ pc[c] = "issuing" /\ pc' = [pc EXCEPT ![c] = "stopping"] /\ UNCHANGED chain
     \/ pc[c] = "stopping" /\ pc' = [pc EXCEPT ![c] = "gone"] /\ UNCHANGED chain
     \/ /\ pc[c] = "shows" /\ pc' = [pc EXCEPT ![c] = "cancels"]
        /\ Enqueue([op |-> "cancel", code |-> c, key |-> None, early |-> c \notin expired, awaited |-> TRUE])
     \/ \* it cannot be taken back: the code stays good until it expires
        pc[c] = "cancels" /\ pc' = [pc EXCEPT ![c] = "gone"] /\ UNCHANGED chain
  /\ UNCHANGED <<disk, up, broken, devices, oneTimes, settled, phase, expired, stops, asks, said, phone, histVars>>

\* oneTimeStatus
Status(c) ==
  IF settled[c] # "none" THEN settled[c]
  ELSE IF c \in oneTimes \ expired THEN "waiting" ELSE "expired"

\* The state asked for every second: an end of the code ends nyan pair.
Poll(c) ==
  /\ pc[c] = "shows" /\ up /\ Status(c) \notin {"waiting", "registering"}
  /\ pc' = [pc EXCEPT ![c] = "gone"] /\ said' = [said EXCEPT ![c] = Status(c)]
  /\ UNCHANGED <<disk, agentVars, expired, stops, asks, phone, histVars>>

\* Ten misses in a row.
LostContact(c) ==
  /\ pc[c] = "shows" /\ ~up
  /\ pc' = [pc EXCEPT ![c] = "gone"] /\ said' = [said EXCEPT ![c] = "unknown"]
  /\ UNCHANGED <<disk, agentVars, expired, stops, asks, phone, histVars>>

-----------------------------------------------------------------------------
(* The phone: runPairing with the code of a QR, runRevoke or runUnlink.    *)

Shown(c) == pc[c] \in {"shows", "cancels", "gone"}

Scan(k, c) ==
  /\ phone[k].doing = "idle" /\ Shown(c) /\ asks < MaxAsks /\ asks' = asks + 1
  /\ phone' = [phone EXCEPT ![k].doing = "register"]
  /\ Enqueue([op |-> "register", code |-> c, key |-> k, early |-> c \notin expired, awaited |-> TRUE])
  /\ UNCHANGED <<disk, up, broken, devices, oneTimes, settled, phase, expired, stops, pc, said, histVars>>

Unpair(k) ==
  /\ phone[k].doing = "idle" /\ asks < MaxAsks /\ asks' = asks + 1
  /\ phone' = [phone EXCEPT ![k].doing = "revoke"]
  /\ Enqueue([op |-> "revoke", code |-> None, key |-> k, early |-> TRUE, awaited |-> TRUE])
  /\ UNCHANGED <<disk, up, broken, devices, oneTimes, settled, phase, expired, stops, pc, said, histVars>>

LoseAnswer(k) ==
  /\ phone[k].doing # "idle" /\ phone' = [phone EXCEPT ![k] = [doing |-> "idle", told |-> "lost"]]
  /\ chain' = [i \in DOMAIN chain |-> [chain[i] EXCEPT !.awaited = @ /\ chain[i].key # k]]
  /\ UNCHANGED <<disk, up, broken, devices, oneTimes, settled, phase, expired, stops, asks, pc, said, histVars>>

Next ==
  \/ Register \/ Revoke \/ Write \/ Saved \/ SaveFails \/ Cancel \/ Stop \/ Start
  \/ \E c \in Codes : Expire(c) \/ Issue(c) \/ Issued(c) \/ CtrlC(c) \/ Poll(c) \/ LostContact(c)
  \/ \E k \in Keys : Unpair(k) \/ LoseAnswer(k) \/ \E c \in Codes : Scan(k, c)

Spec == Init /\ [][Next]_vars

-----------------------------------------------------------------------------
(* What nyan pair ends with is what became of its code: a code registers   *)
(* one device at most, none once it is said to be cancelled or failed, and *)
(* one was registered when it says so (devices.ts: "one of them wins       *)
(* first").  While a registration with the code is being saved it is not   *)
(* said to have expired (devices.ts:106).                                  *)
TellsCodes ==
  \A c \in Codes :
    /\ Cardinality(used'[c]) <= 1
    /\ said'[c] \in {"cancelled", "failed"} => used'[c] = {}
    /\ said'[c] \in {"registered", "already"} => used'[c] # {}
    /\ said'[c] = "expired" /\ said[c] # "expired" =>
         ~(chain # <<>> /\ chain[1].code = c /\ phase # "waits")
CodesTold == [][TellsCodes]_vars

(* What a phone is told holds, whatever fails and restarts in between: a   *)
(* key said to be registered is in devices.json, one said to be revoked is *)
(* neither there nor accepted; and a key that is not saved is not accepted *)
(* ("never start accepting what could not be saved").                      *)
PhonesTold ==
  /\ disk # None => devices \subseteq disk
  /\ \A k \in Keys : phone[k].doing = "idle" =>
       /\ phone[k].told = "in" => k \in disk
       /\ phone[k].told = "out" => k \notin disk \cup devices

(* A code that nyan pair said to have expired registers no device          *)
(* afterwards, unless the agent was stopped (devices.ts:105-109).          *)
ExpiredIsFinal ==
  \A c \in Codes \ undone : said[c] = "expired" => used[c] = {}
=============================================================================
