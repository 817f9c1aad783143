------------------------------ MODULE Handshake ------------------------------
(***************************************************************************)
(* The handshake of a phone and an agent and the session it ends in        *)
(* (shared/crypto.ts), as calls that are under way at the same time.       *)
(*                                                                         *)
(*   - A phone starts a handshake meant for one agent, and finishes it     *)
(*     with a reply; an agent accepts a first message.  Both derive the    *)
(*     keys of the session, one per direction, from the four Diffie-       *)
(*     Hellman values and from all that was said.                          *)
(*   - The agent seals the confirm frame before it has the session; the    *)
(*     phone has the session when it has opened that frame.                *)
(*   - Sealing and opening wait in a queue each, and take a while.         *)
(*                                                                         *)
(* The network passes anything on: a first message or a reply of any       *)
(* content, and frames in any order, again, or to somebody else.           *)
(*                                                                         *)
(* Simplifications:                                                        *)
(*   - A Diffie-Hellman value is the set of the two key pairs it is of; a   *)
(*     key is what it was derived from.  So no two keys agree by chance,   *)
(*     and a frame opens under the key it was sealed with only.            *)
(*   - The ephemeral key and the nonce of a call are the call.             *)
(*   - What was cut short, altered or of another version fails to parse or *)
(*     to open: a call may fail at any time instead.                       *)
(*   - Whom an agent lets through is decided elsewhere (auth.ts,           *)
(*     authorizeConnection; Tunnel and Pairing).                           *)
(***************************************************************************)
EXTENDS Integers, Sequences

CONSTANTS
  Devices, Agents,   \* their static keys
  Shakes,            \* calls of startHandshake
  Finishes,          \* calls of finishHandshake
  Accepts,           \* calls of acceptHandshake
  Bodies,            \* what is sealed
  MaxCounter,        \* MAX_COUNTER
  MaxWaits,          \* bound: frames and bodies that wait at one end
  None

VARIABLES
  message,   \* message[h]: the first message of a handshake that was started
  used,      \* handshakes that were finished, with success or not
  fin,       \* fin[c]: how far the call is, its handshake, and the reply's key
  acc,       \* acc[a]: how far the call is, the agent, and the first message
  out,       \* out[e]: the next counter of the session at e
  sealing,   \* sealing[e]: its bodies that wait, the first is being sealed
  taken,     \* taken[e]: the counter of the first, None if it has none yet
  lastIn,    \* lastIn[e]: the last counter opened, -1 if none
  opening,   \* opening[e]: frames that wait, the first is being opened
  checked,   \* checked[e]: the counter of the first was found to be new
  sealed,    \* every frame that left an end
  got        \* history, got[e]: the frames opened at e, in order

sendVars == <<out, sealing, taken, sealed>>
recvVars == <<lastIn, opening, checked, got>>
vars == <<message, used, fin, acc, sendVars, recvVars>>

Ends == Finishes \cup Accepts
First == [dev : Devices, eph : Shakes, to : Agents]

HandshakeAssumption ==
  /\ Devices \cap Agents = {} /\ Shakes \cap (Devices \cup Agents \cup Accepts) = {}
  /\ Accepts \cap (Devices \cup Agents \cup Finishes) = {}
  /\ MaxCounter \in Nat \ {0} /\ MaxWaits \in Nat
  /\ None \notin First \cup Nat \cup Shakes \cup Accepts \cup Agents

ASSUME HandshakeAssumption

\* The two keys of a session: the four shared secrets, and the transcript.
Derived(z1, z2, z3, z4, first, reply) == [z |-> <<z1, z2, z3, z4>>, over |-> <<first, reply>>]

\* At the phone: from its own ephemeral and static key, and the two of the agent.
PhoneKey(c) ==
  LET m == message[fin[c].of] IN
  Derived({fin[c].of, fin[c].eph}, {fin[c].of, m.to}, {m.dev, fin[c].eph}, {m.dev, m.to}, m, fin[c].eph)

\* At the agent: from its own two, and the two that the first message names.
AgentKey(a) ==
  LET m == acc[a].first IN
  Derived({a, m.eph}, {acc[a].at, m.eph}, {a, m.dev}, {acc[a].at, m.dev}, m, a)

KeyOf(e) == IF e \in Finishes THEN PhoneKey(e) ELSE AgentKey(e)

\* The direction in which an end sends.
Dir(e) == IF e \in Finishes THEN "d2a" ELSE "a2d"

\* There are keys, and with them a SessionImpl.
HasKeys(e) ==
  IF e \in Finishes THEN fin[e].ph \in {"pending", "open"} ELSE acc[e].ph \in {"confirming", "open"}

Keys == [z : Seq(SUBSET (Devices \cup Agents \cup Shakes \cup Accepts)), over : First \X Accepts]
Items == [type : {"data"}, body : Bodies] \cup [type : {"confirm"}, body : First \X Accepts]
Frames == [key : Keys, dir : {"d2a", "a2d"}, n : Nat, type : {"data", "confirm"},
           body : Bodies \cup (First \X Accepts), by : Ends]

Waits == [frame : Frames, as : {"accept", "open"}]
FinishCalls == [ph : {"none", "deriving", "pending", "open", "failed"},
                of : Shakes \cup {None}, eph : Accepts \cup {None}]
AcceptCalls == [ph : {"none", "asking", "deriving", "confirming", "open", "refused"},
                at : Agents \cup {None}, first : First \cup {None}]

TypeOK ==
  /\ message \in [Shakes -> First \cup {None}] /\ used \subseteq Shakes
  /\ fin \in [Finishes -> FinishCalls] /\ acc \in [Accepts -> AcceptCalls]
  /\ out \in [Ends -> Nat] /\ sealing \in [Ends -> Seq(Items)] /\ taken \in [Ends -> Nat \cup {None}]
  /\ lastIn \in [Ends -> Nat \cup {-1}] /\ checked \in [Ends -> BOOLEAN]
  /\ opening \in [Ends -> Seq(Waits)]
  /\ sealed \subseteq Frames /\ got \in [Ends -> Seq(Frames)]

Init ==
  /\ message = [h \in Shakes |-> None] /\ used = {}
  /\ fin = [c \in Finishes |-> [ph |-> "none", of |-> None, eph |-> None]]
  /\ acc = [a \in Accepts |-> [ph |-> "none", at |-> None, first |-> None]]
  /\ out = [e \in Ends |-> 0] /\ sealing = [e \in Ends |-> <<>>] /\ taken = [e \in Ends |-> None]
  /\ lastIn = [e \in Ends |-> -1] /\ opening = [e \in Ends |-> <<>>]
  /\ checked = [e \in Ends |-> FALSE] /\ sealed = {} /\ got = [e \in Ends |-> <<>>]

-----------------------------------------------------------------------------
(* The phone.                                                              *)

\* startHandshake, by the phone d, meant for the agent g (of the QR).
StartHandshake(h, d, g) ==
  /\ message[h] = None
  /\ message' = [message EXCEPT ![h] = [dev |-> d, eph |-> h, to |-> g]]
  /\ UNCHANGED <<used, fin, acc, sendVars, recvVars>>

\* A fault: the flag is set after the awaits.
FinishHandshakeFault(c, h, x) ==
  /\ fin[c].ph = "none" /\ message[h] # None
  /\ used' = used \cup {h} /\ fin' = [fin EXCEPT ![c] = [ph |-> "deriving", of |-> h, eph |-> x]]
  /\ UNCHANGED <<message, acc, sendVars, recvVars>>

\* finishHandshake up to its first await: a handshake is finished once.
FinishHandshake(c, h, x) ==
  /\ fin[c].ph = "none" /\ message[h] # None
  /\ IF h \in used THEN fin' = [fin EXCEPT ![c].ph = "failed"] /\ UNCHANGED used
     ELSE /\ used' = used \cup {h}
          /\ fin' = [fin EXCEPT ![c] = [ph |-> "deriving", of |-> h, eph |-> x]]
  /\ UNCHANGED <<message, acc, sendVars, recvVars>>

\* The rest of it: the keys are derived, or the reply was none.
FinishDerives(c, ok) ==
  /\ fin[c].ph = "deriving"
  /\ fin' = [fin EXCEPT ![c].ph = IF ok THEN "pending" ELSE "failed"]
  /\ UNCHANGED <<message, used, acc, sendVars, recvVars>>

\* accept: the frame is opened like any other.
Accept(c, f) ==
  /\ fin[c].ph = "pending" /\ f \in sealed /\ Len(opening[c]) < MaxWaits
  /\ opening' = [opening EXCEPT ![c] = Append(@, [frame |-> f, as |-> "accept"])]
  /\ UNCHANGED <<message, used, fin, acc, sendVars, lastIn, checked, got>>

-----------------------------------------------------------------------------
(* The agent.                                                              *)

\* acceptHandshake at the agent g, up to the decision of the caller.
AcceptHandshake(a, g, m) ==
  /\ acc[a].ph = "none"
  /\ acc' = [acc EXCEPT ![a] = [ph |-> IF m.to = g THEN "asking" ELSE "refused", at |-> g, first |-> m]]
  /\ UNCHANGED <<message, used, fin, sendVars, recvVars>>

\* authorize.
Authorized(a, ok) ==
  /\ acc[a].ph = "asking"
  /\ acc' = [acc EXCEPT ![a].ph = IF ok THEN "deriving" ELSE "refused"]
  /\ UNCHANGED <<message, used, fin, sendVars, recvVars>>

\* The keys are derived, and the confirm frame is being sealed; or a key of the
\* message was none.
AcceptDerives(a, ok) ==
  /\ acc[a].ph = "deriving"
  /\ acc' = [acc EXCEPT ![a].ph = IF ok THEN "confirming" ELSE "refused"]
  /\ sealing' = IF ok THEN [sealing EXCEPT ![a] = <<[type |-> "confirm", body |-> AgentKey(a).over]>>]
                ELSE sealing
  /\ UNCHANGED <<message, used, fin, out, taken, sealed, recvVars>>

-----------------------------------------------------------------------------
(* The session.                                                            *)

\* A Session is out.
IsOpen(e) == IF e \in Finishes THEN fin[e].ph = "open" ELSE acc[e].ph = "open"

Seal(e, b) ==
  /\ IsOpen(e) /\ Len(sealing[e]) < MaxWaits
  /\ sealing' = [sealing EXCEPT ![e] = Append(@, [type |-> "data", body |-> b])]
  /\ UNCHANGED <<message, used, fin, acc, out, taken, sealed, recvVars>>

\* #seal of the first in the queue: it takes its counter, unless there is none left.
SealBegins(e) ==
  /\ sealing[e] # <<>> /\ taken[e] = None
  /\ IF out[e] >= MaxCounter THEN sealing' = [sealing EXCEPT ![e] = Tail(@)] /\ UNCHANGED <<out, taken>>
     ELSE /\ taken' = [taken EXCEPT ![e] = out[e]] /\ out' = [out EXCEPT ![e] = @ + 1]
          /\ UNCHANGED sealing
  /\ UNCHANGED <<message, used, fin, acc, sealed, recvVars>>

\* What leaves the end: the first in the queue, under the counter it took.
Sealed(e) == LET i == Head(sealing[e]) IN
  [key |-> KeyOf(e), dir |-> Dir(e), n |-> taken[e], type |-> i.type, body |-> i.body, by |-> e]

\* It is encrypted; with the confirm frame, acceptHandshake returns.
SealEnds(e) ==
  /\ taken[e] # None
  /\ sealed' = sealed \cup {Sealed(e)}
  /\ sealing' = [sealing EXCEPT ![e] = Tail(@)] /\ taken' = [taken EXCEPT ![e] = None]
  /\ acc' = IF Sealed(e).type = "confirm" THEN [acc EXCEPT ![e].ph = "open"] ELSE acc
  /\ UNCHANGED <<message, used, fin, out, recvVars>>

Open(e, f) ==
  /\ IsOpen(e) /\ f \in sealed /\ Len(opening[e]) < MaxWaits
  /\ opening' = [opening EXCEPT ![e] = Append(@, [frame |-> f, as |-> "open"])]
  /\ UNCHANGED <<message, used, fin, acc, sendVars, lastIn, checked, got>>

\* #open of the first in the queue: a counter that goes back is refused.
OpenBegins(e) ==
  /\ opening[e] # <<>> /\ ~checked[e]
  /\ IF Head(opening[e]).frame.n <= lastIn[e]
       THEN opening' = [opening EXCEPT ![e] = Tail(@)] /\ UNCHANGED checked
       ELSE checked' = [checked EXCEPT ![e] = TRUE] /\ UNCHANGED opening
  /\ UNCHANGED <<message, used, fin, acc, sendVars, lastIn, got>>

\* The frame opens under the key of the other direction.
Fits(e, f) == f.key = KeyOf(e) /\ f.dir # Dir(e)

\* What accept makes of a frame that opened.
Confirms(e, r) == /\ r.as = "accept" /\ r.frame.type = "confirm" /\ r.frame.body = KeyOf(e).over

\* It is decrypted, or fails to be; accept returns the session.
OpenEnds(e) ==
  LET r == Head(opening[e]) IN
  /\ checked[e]
  /\ opening' = [opening EXCEPT ![e] = Tail(@)] /\ checked' = [checked EXCEPT ![e] = FALSE]
  /\ IF Fits(e, r.frame)
       THEN /\ lastIn' = [lastIn EXCEPT ![e] = r.frame.n] /\ got' = [got EXCEPT ![e] = Append(@, r.frame)]
            /\ fin' = IF Confirms(e, r) THEN [fin EXCEPT ![e].ph = "open"] ELSE fin
       ELSE UNCHANGED <<lastIn, got, fin>>
  /\ UNCHANGED <<message, used, acc, sendVars>>

-----------------------------------------------------------------------------
Next ==
  \/ \E h \in Shakes, d \in Devices, g \in Agents : StartHandshake(h, d, g)
  \/ \E c \in Finishes, h \in Shakes, x \in Accepts : FinishHandshake(c, h, x)
  \/ \E c \in Finishes, ok \in BOOLEAN : FinishDerives(c, ok)
  \/ \E c \in Finishes, f \in sealed : Accept(c, f)
  \/ \E a \in Accepts, g \in Agents, m \in First : AcceptHandshake(a, g, m)
  \/ \E a \in Accepts, ok \in BOOLEAN : Authorized(a, ok) \/ AcceptDerives(a, ok)
  \/ \E e \in Ends, b \in Bodies : Seal(e, b)
  \/ \E e \in Ends, f \in sealed : Open(e, f)
  \/ \E e \in Ends : SealBegins(e) \/ SealEnds(e) \/ OpenBegins(e) \/ OpenEnds(e)

Spec == Init /\ [][Next]_vars

-----------------------------------------------------------------------------
\* A counter is used once under a key: two frames of one key, direction and
\* counter are one frame, whatever calls were under way together (crypto.ts,
\* used, #sendChain).
CounterOnce ==
  \A f, g \in sealed : f.key = g.key /\ f.dir = g.dir /\ f.n = g.n => f = g

\* What an end opened has growing counters, so that no frame is taken twice and
\* none after a later one (crypto.ts, #chain, #lastIn).
TakenInOrder ==
  \A e \in Ends : \A i, j \in 1..Len(got[e]) : i < j => got[e][i].n < got[e][j].n

\* The two ends of a session: a handshake that a phone started for an agent, and
\* a call of just that agent which was given just its first message.
Peers(c, a) ==
  /\ message[fin[c].of] # None /\ acc[a].first = message[fin[c].of] /\ fin[c].eph = a
  /\ acc[a].at = message[fin[c].of].to

\* A phone that has its session shares it with a call of the agent it meant, and
\* what either end opened was sealed by the other (crypto.ts, finishHandshake,
\* acceptHandshake).
SpeaksWithPeer ==
  /\ \A c \in Finishes : fin[c].ph = "open" => \E a \in Accepts : Peers(c, a) /\ acc[a].ph = "open"
  /\ \A c \in Finishes : \A i \in 1..Len(got[c]) : got[c][i].by \in Accepts /\ Peers(c, got[c][i].by)
  /\ \A a \in Accepts : \A i \in 1..Len(got[a]) : got[a][i].by \in Finishes /\ Peers(got[a][i].by, a)

\* All of it: what two ends say to each other is one conversation (crypto.ts).
OneConversation == CounterOnce /\ TakenInOrder /\ SpeaksWithPeer
=============================================================================
