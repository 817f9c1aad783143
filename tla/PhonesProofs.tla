--------------------------- MODULE PhonesProofs ---------------------------
(***************************************************************************)
(* Proofs about the agent and its phones, for any number of them:          *)
(* auto-approve (any sessions, operations that wait, lengths and grants),  *)
(* the account (any sign-ins and fetches under way), pairing (any devices  *)
(* and codes) and notifications (any number of tabs).                      *)
(***************************************************************************)
EXTENDS MCPhones, FiniteSetTheorems, TLAPS
-----------------------------------------------------------------------------
(* Auto-approve.                                                           *)

Is(i, k) == op[i] # None /\ op[i].k = k
Running(i) == op[i] # None /\ op[i].ph # "queued"

\* Entry n is not among the entries e.
NotIn(e, n) == \A s \in Sessions : e[s] # None => e[s].n # n

\* Only the first operation runs, and a clean-up is always the first one.
QueueInv ==
  /\ \A k \in 1..Len(queue) : op[queue[k]] # None
  /\ \A i \in Ops : Running(i) \/ Is(i, "clean") => Turn(i)

\* What operations are about.
ShapeInv ==
  \A i \in Ops :
    /\ op[i] # None /\ op[i].k # "clean" => op[i].s \in Sessions
    /\ Is(i, "on") \/ Is(i, "expire") => op[i].g \in Grants /\ op[i].g.n <= made
    /\ Is(i, "clean") => \A n \in op[i].due : n <= made

\* An agent that is down has nothing in memory; one that found the file
\* broken begins nothing; and nothing is turned on before it is up.
UpInv ==
  /\ up = "down" =>
       ~broken /\ queue = <<>> /\ mem = NoEntry /\ timer = NoEntry /\ \A i \in Ops : op[i] = None
  /\ up # "down" => (broken <=> file = Broken)
  /\ broken => mem = NoEntry
  /\ \A i \in Ops : Running(i) \/ Is(i, "clean") => ~broken
  /\ \A i, j \in Ops : Is(i, "clean") => up = "loading" /\ ~Is(j, "on")

\* What is being saved is the memory, with the entry that is turned on; and
\* what is in memory is in the file.
SaveInv ==
  /\ \A i \in Ops : Running(i) /\ op[i].ph # "failed" =>
       op[i].want = IF op[i].k = "on" THEN [mem EXCEPT ![op[i].s] = op[i].g] ELSE mem
  /\ \A i \in Ops : Running(i) /\ op[i].ph = "saved" => file = op[i].want
  /\ SavedBeforeUsed

\* What is turned off, or ends, is out of the memory before it is saved.
RemovedInv ==
  \A i \in Ops : Running(i) /\ op[i].k \in {"off", "end", "expire"} => mem[op[i].s] = None

\* What is off is nowhere, and not about to be turned on.
OffInv ==
  \A s \in Sessions : off[s] =>
    /\ mem[s] = None /\ (file # Broken => file[s] = None)
    /\ \A i \in Ops : Running(i) /\ op[i].k = "on" => op[i].s # s

\* Entries are numbered as they are made.
NumberInv ==
  /\ \A s \in Sessions : mem[s] # None => mem[s].n <= made
  /\ \A s \in Sessions : timer[s] # None => timer[s].n <= made
  /\ file # Broken => \A s \in Sessions : file[s] # None => file[s].n <= made
  /\ \A n \in 1..MaxGrants : said[n] > 0 => n <= made

\* An entry is in one place: of one session, and not in memory before it is
\* turned on nor after its end has begun.
UniqueInv ==
  /\ \A s, t \in Sessions : mem[s] # None /\ mem[t] # None /\ mem[s].n = mem[t].n => s = t
  /\ file # Broken =>
       \A s, t \in Sessions : file[s] # None /\ file[t] # None /\ file[s].n = file[t].n => s = t
  /\ \A i, j \in Ops : Is(i, "on") /\ Is(j, "on") /\ op[i].g.n = op[j].g.n => i = j
  /\ \A i \in Ops : Is(i, "on") => NotIn(mem, op[i].g.n)
  /\ \A i \in Ops : Is(i, "expire") /\ Running(i) =>
       NotIn(mem, op[i].g.n) /\ \A j \in Ops : Is(j, "on") => op[j].g.n # op[i].g.n
  /\ \A i \in Ops : Is(i, "clean") => \A n \in op[i].due : NotIn(mem, n)

\* An entry whose end was announced is nowhere any more, unless that could
\* not be saved.
ToldInv ==
  \A n \in 1..MaxGrants : said[n] > 0 /\ n \notin slip =>
    /\ said[n] = 1
    /\ NotIn(mem, n) /\ (file # Broken => NotIn(file, n))
    /\ \A i \in Ops : Is(i, "on") => op[i].g.n # n
    /\ \A i \in Ops : Is(i, "expire") /\ Running(i) => op[i].g.n # n
    /\ \A i \in Ops : Is(i, "clean") => n \notin op[i].due

-----------------------------------------------------------------------------
(* The chain, seen from its operations.                                    *)

ChainType ==
  /\ queue \in Seq(Ops) /\ \A k, l \in 1..Len(queue) : queue[k] = queue[l] => k = l
  /\ op \in [Ops -> OpRecords \cup {None}]

Same(i) == /\ op'[i].k = op[i].k /\ op'[i].s = op[i].s /\ op'[i].g = op[i].g
           /\ op'[i].due = op[i].due
Others(i) == \A j \in Ops \ {i} : op'[j] = op[j]

LEMMA FieldTypes ==
  ASSUME NEW r \in OpRecords
  PROVE  /\ r # None
         /\ r.k \in {"on", "off", "end", "expire", "clean"} /\ r.s \in Sessions \cup {None}
         /\ r.g \in Grants \cup {None} /\ r.due \in SUBSET (1..MaxGrants)
         /\ r.ph \in {"queued", "saving", "saved", "failed"} /\ r.want \in Entries
BY AutoApproveAssumption DEF AutoApproveAssumption, OpRecords

\* An operation enters the chain.
LEMMA Entered ==
  ASSUME ChainType, QueueInv, NEW i \in Ops, NEW k \in {"on", "off", "end", "expire", "clean"},
         NEW s \in Sessions \cup {None}, NEW g \in Grants \cup {None},
         NEW due \in SUBSET (1..MaxGrants), Enqueue(i, k, s, g, due),
         k = "clean" => queue = <<>>
  PROVE  /\ ChainType' /\ QueueInv'
         /\ op[i] = None /\ op'[i] # None
         /\ op'[i].k = k /\ op'[i].s = s /\ op'[i].g = g /\ op'[i].due = due /\ op'[i].ph = "queued"
         /\ Others(i)
<1> DEFINE r == [k |-> k, s |-> s, g |-> g, due |-> due, ph |-> "queued", want |-> NoEntry]
<1>1. r \in OpRecords
  <2>1. NoEntry \in Entries
    BY DEF NoEntry, Entries
  <2> QED
    BY <2>1 DEF OpRecords
<1>2. r # None
  BY <1>1, FieldTypes
<1>3. op[i] = None /\ op' = [op EXCEPT ![i] = r] /\ queue' = Append(queue, i)
  BY DEF Enqueue
<1>4. op'[i] = r /\ Others(i) /\ op' \in [Ops -> OpRecords \cup {None}]
  BY <1>1, <1>3 DEF ChainType, Others
<1>5. \A l \in 1..Len(queue) : queue[l] # i
  BY <1>3 DEF QueueInv
<1>6. ChainType'
  BY <1>3, <1>4, <1>5 DEF ChainType
<1>7. \A l \in 1..Len(queue') : op'[queue'[l]] # None
  BY <1>2, <1>3, <1>4, <1>5 DEF ChainType, QueueInv, Others
<1>8. ASSUME NEW j \in Ops, Running(j)' \/ Is(j, "clean")' PROVE Turn(j)'
  <2>1. CASE j = i
    <3>1. op'[j].k = "clean"
      BY <2>1, <1>4, <1>8 DEF Running, Is
    <3>2. queue = <<>>
      BY <3>1, <2>1, <1>4
    <3> QED
      BY <3>2, <2>1, <1>3 DEF Turn
  <2>2. CASE j # i
    <3>1. Turn(j)
      BY <2>2, <1>4, <1>8 DEF Running, Is, Others, QueueInv
    <3> QED
      BY <3>1, <1>3 DEF Turn, ChainType
  <2> QED
    BY <2>1, <2>2
<1> QED
  BY <1>2, <1>3, <1>4, <1>6, <1>7, <1>8 DEF QueueInv

\* The operation that runs is over: none runs.
LEMMA Left ==
  ASSUME ChainType, QueueInv, NEW i \in Ops, Turn(i), Done(i)
  PROVE  /\ ChainType' /\ QueueInv'
         /\ op'[i] = None /\ Others(i)
         /\ \A j \in Ops : ~Running(j)' /\ ~Is(j, "clean")'
<1>1. queue' = Tail(queue) /\ op' = [op EXCEPT ![i] = None] /\ queue # <<>> /\ Head(queue) = i
  BY DEF Done, RestFault, Rest, Turn
<1>2. op'[i] = None /\ Others(i) /\ op' \in [Ops -> OpRecords \cup {None}]
  BY <1>1 DEF ChainType, Others
<1>3. /\ queue' \in Seq(Ops) /\ Len(queue') = Len(queue) - 1
      /\ \A l \in 1..Len(queue') : queue'[l] = queue[l + 1] /\ queue'[l] # i
  BY <1>1 DEF ChainType
<1>4. ChainType'
  BY <1>2, <1>3 DEF ChainType
<1>5. \A j \in Ops : ~Running(j)' /\ ~Is(j, "clean")'
  BY <1>1, <1>2 DEF Running, Is, QueueInv, Turn, Others
<1>6. \A l \in 1..Len(queue') : op'[queue'[l]] # None
  BY <1>2, <1>3 DEF ChainType, QueueInv, Others
<1> QED
  BY <1>2, <1>4, <1>5, <1>6 DEF QueueInv

\* The operation that runs starts to save, or its saving ends.
Goes(i, ph, w) ==
  op' = [op EXCEPT ![i] = [op[i] EXCEPT !.ph = ph, !.want = w]] /\ UNCHANGED queue

LEMMA Going ==
  ASSUME ChainType, QueueInv, NEW i \in Ops, Turn(i), op[i] # None,
         NEW ph \in {"saving", "saved", "failed"}, NEW w \in Entries,
         Goes(i, ph, w)
  PROVE  /\ ChainType' /\ QueueInv'
         /\ op'[i] # None /\ Same(i) /\ op'[i].ph = ph /\ op'[i].want = w /\ Others(i)
         /\ \A j \in Ops : Running(j)' <=> j = i
         /\ \A j \in Ops : \A k : Is(j, k)' <=> Is(j, k)
<1> DEFINE r == [op[i] EXCEPT !.ph = ph, !.want = w]
<1>1. r \in OpRecords /\ r.k = op[i].k /\ r.s = op[i].s /\ r.g = op[i].g /\ r.due = op[i].due
      /\ r.ph = ph /\ r.want = w
  BY DEF ChainType, OpRecords
<1>2. r # None
  BY <1>1, FieldTypes
<1> HIDE DEF r
<1>3. op'[i] = r /\ Others(i) /\ op' \in [Ops -> OpRecords \cup {None}]
  BY <1>1 DEF ChainType, Others, Goes, r
<1>4. \A j \in Ops : Running(j)' <=> j = i
  BY <1>1, <1>2, <1>3 DEF Running, QueueInv, Turn, Others
<1>5. \A j \in Ops : \A k : Is(j, k)' <=> Is(j, k)
  BY <1>1, <1>2, <1>3 DEF Is, Others
<1>6. \A l \in 1..Len(queue') : op'[queue'[l]] # None
  BY <1>2, <1>3 DEF ChainType, QueueInv, Others, Goes
<1>7. \A j \in Ops : Running(j)' \/ Is(j, "clean")' => Turn(j)'
  BY <1>4, <1>5 DEF QueueInv, Turn, Goes
<1> QED
  BY <1>1, <1>2, <1>3, <1>4, <1>5, <1>6, <1>7 DEF ChainType, QueueInv, Same, Goes

-----------------------------------------------------------------------------
(* The steps.                                                              *)

DataType ==
  /\ clock \in 0..MaxTime /\ up \in {"down", "loading", "up"} /\ broken \in BOOLEAN
  /\ mem \in Entries /\ timer \in Entries /\ file \in Entries \cup {Broken}
  /\ made \in 0..MaxGrants /\ said \in [1..MaxGrants -> 0..2] /\ slip \subseteq 1..MaxGrants
  /\ off \in [Sessions -> BOOLEAN]

LEMMA TypeParts == TypeOK <=> ChainType /\ DataType
BY DEF TypeOK, ChainType, DataType

Facts == /\ ShapeInv /\ UpInv /\ SaveInv /\ RemovedInv /\ OffInv /\ NumberInv /\ UniqueInv /\ ToldInv
AutoInv == ChainType /\ DataType /\ QueueInv /\ Facts

LEMMA GrantFacts ==
  /\ None \notin Grants
  /\ \A g \in Grants : g.n \in 1..MaxGrants /\ g.n \in Nat /\ g.until \in 0..MaxTime
  /\ NoEntry \in Entries /\ \A s \in Sessions : NoEntry[s] = None
  /\ \A e \in Entries, s \in Sessions : e[s] \in Grants \cup {None}
  /\ \A e \in Entries, s \in Sessions, g \in Grants \cup {None} : [e EXCEPT ![s] = g] \in Entries
  /\ Broken \notin Entries
BY AutoApproveAssumption DEF AutoApproveAssumption, Grants, Entries, NoEntry

\* A request or a timer only adds an operation that waits.
LEMMA WaitsKeeps ==
  ASSUME AutoInv, NEW i \in Ops, NEW k \in {"on", "off", "end", "expire"}, NEW s \in Sessions,
         NEW g \in Grants \cup {None}, Enqueue(i, k, s, g, {}), up # "down",
         k \in {"on", "expire"} => g \in Grants /\ g.n <= made',
         k = "on" => up = "up" /\ g.n = made + 1,
         made' \in 0..MaxGrants, made' >= made,
         UNCHANGED <<clock, up, broken, mem, file, said, slip, off>>,
         timer' \in Entries, \A r \in Sessions : timer'[r] \in {None, timer[r]}
  PROVE  AutoInv'
<1>1. /\ ChainType' /\ QueueInv'
      /\ op[i] = None /\ op'[i] # None
      /\ op'[i].k = k /\ op'[i].s = s /\ op'[i].g = g /\ op'[i].ph = "queued"
      /\ Others(i)
  BY Entered DEF AutoInv
<1>2. DataType'
  BY DEF AutoInv, DataType
<1>3. \A j \in Ops : /\ Running(j)' <=> Running(j) /\ j # i
                     /\ Is(j, "clean")' <=> Is(j, "clean") /\ j # i
                     /\ j # i => op'[j] = op[j]
  BY <1>1 DEF Running, Is, Others
<1>5. made \in Nat /\ made' \in Nat
  BY DEF AutoInv, DataType
<1>6. ShapeInv'
  <2>1. ASSUME NEW j \in Ops, j # i
        PROVE  /\ op'[j] # None /\ op'[j].k # "clean" => op'[j].s \in Sessions
               /\ Is(j, "on")' \/ Is(j, "expire")' => op'[j].g \in Grants /\ op'[j].g.n <= made'
               /\ Is(j, "clean")' => \A n \in op'[j].due : n <= made'
    <3>1. op'[j] = op[j]
      BY <1>3, <2>1
    <3>2. \A g1 \in Grants : g1.n <= made => g1.n <= made'
      BY <1>5, GrantFacts
    <3>3. op[j] # None => op[j] \in OpRecords
      BY DEF AutoInv, ChainType
    <3>4. Is(j, "clean") => \A n \in op[j].due : n \in Nat
      BY <3>3, FieldTypes DEF Is
    <3> QED
      BY <1>5, <3>1, <3>2, <3>4 DEF AutoInv, Facts, ShapeInv, Is
  <2> QED
    BY <1>1, <2>1 DEF ShapeInv, Is
<1>7. UpInv'
  BY <1>1, <1>3 DEF AutoInv, Facts, UpInv, Is
<1>8. SaveInv'
  BY <1>1, <1>3 DEF AutoInv, Facts, SaveInv, SavedBeforeUsed, Running
<1>9. OffInv' /\ RemovedInv'
  BY <1>1, <1>3 DEF AutoInv, Facts, OffInv, RemovedInv, Running
<1>10. NumberInv'
  <2>1. \A x \in Sessions : mem[x] # None => mem[x].n <= made'
    BY <1>5, GrantFacts DEF AutoInv, Facts, NumberInv, DataType
  <2>2. \A x \in Sessions : timer'[x] # None => timer'[x].n <= made'
    BY <1>5, GrantFacts DEF AutoInv, Facts, NumberInv, DataType
  <2>3. file # Broken => \A x \in Sessions : file[x] # None => file[x].n <= made'
    BY <1>5, GrantFacts DEF AutoInv, Facts, NumberInv, DataType
  <2>4. \A n \in 1..MaxGrants : said[n] > 0 => n <= made'
    BY <1>5 DEF AutoInv, Facts, NumberInv
  <2> QED
    BY <2>1, <2>2, <2>3, <2>4 DEF NumberInv
<1>11. k = "on" => /\ NotIn(mem, g.n)
                   /\ \A j \in Ops : Is(j, "on") \/ Is(j, "expire") => op[j].g.n # g.n
                   /\ \A n \in 1..MaxGrants : said[n] > 0 => g.n # n
  BY <1>5, GrantFacts DEF AutoInv, Facts, NumberInv, ShapeInv, NotIn, DataType
<1>12. UniqueInv'
  BY <1>1, <1>3, <1>11 DEF AutoInv, Facts, UniqueInv, Is, NotIn
<1>13. ToldInv'
  BY <1>1, <1>3, <1>11 DEF AutoInv, Facts, ToldInv, Is, NotIn
<1> QED
  BY <1>1, <1>2, <1>6, <1>7, <1>8, <1>9, <1>10, <1>12, <1>13 DEF AutoInv, Facts

\* An operation is over: what is in memory is in the file.
LEMMA LeavesKeeps ==
  ASSUME AutoInv, NEW i \in Ops, Turn(i), Done(i), up # "down", up' \in {"loading", "up"},
         UNCHANGED <<clock, broken, file, made>>,
         mem' \in Entries, timer' \in Entries, said' \in [1..MaxGrants -> 0..2],
         slip' \subseteq 1..MaxGrants, off' \in [Sessions -> BOOLEAN],
         \A s \in Sessions : mem'[s] # None => file # Broken /\ file[s] = mem'[s],
         broken => mem' = NoEntry,
         \A s \in Sessions : off'[s] => mem'[s] = None /\ (file # Broken => file[s] = None),
         \A s \in Sessions : timer'[s] # None => timer'[s].n <= made,
         \A j \in Ops \ {i} : Is(j, "on") => NotIn(mem', op[j].g.n),
         \A n \in 1..MaxGrants : said'[n] > 0 => n <= made,
         \A n \in 1..MaxGrants : said'[n] > 0 /\ n \notin slip' =>
           /\ said'[n] = 1 /\ (file # Broken => NotIn(file, n))
           /\ \A j \in Ops \ {i} : Is(j, "on") => op[j].g.n # n
  PROVE  AutoInv'
<1>1. /\ ChainType' /\ QueueInv' /\ op'[i] = None /\ Others(i)
      /\ \A j \in Ops : ~Running(j)' /\ ~Is(j, "clean")'
  BY Left DEF AutoInv
<1>2. DataType'
  BY DEF AutoInv, DataType
<1>3. \A j \in Ops : \A k : Is(j, k)' => j # i /\ Is(j, k) /\ op'[j] = op[j]
  BY <1>1 DEF Is, Others
<1>4. ShapeInv'
  BY <1>1, <1>3 DEF AutoInv, Facts, ShapeInv, Others, Is
<1>5. UpInv'
  BY <1>1 DEF AutoInv, Facts, UpInv
<1>6. SaveInv'
  BY <1>1 DEF SaveInv, SavedBeforeUsed
<1>7. OffInv' /\ RemovedInv'
  BY <1>1 DEF OffInv, RemovedInv
<1>8. NumberInv'
  BY DEF AutoInv, Facts, NumberInv
<1>9. UniqueInv'
  <2>1. \A s, t \in Sessions : mem'[s] # None /\ mem'[t] # None /\ mem'[s].n = mem'[t].n => s = t
    BY DEF AutoInv, Facts, UniqueInv
  <2>2. \A j \in Ops : Is(j, "on")' => NotIn(mem', op'[j].g.n)
    BY <1>3
  <2>3. \A j, l \in Ops : Is(j, "on")' /\ Is(l, "on")' /\ op'[j].g.n = op'[l].g.n => j = l
    BY <1>3 DEF AutoInv, Facts, UniqueInv
  <2> QED
    BY <1>1, <2>1, <2>2, <2>3 DEF AutoInv, Facts, UniqueInv, NotIn
<1>10. ToldInv'
  <2>1. ASSUME NEW n \in 1..MaxGrants, said'[n] > 0, n \notin slip' PROVE NotIn(mem', n)
    BY <2>1 DEF NotIn
  <2> QED
    BY <1>1, <1>3, <2>1 DEF ToldInv, NotIn
<1> QED
  BY <1>1, <1>2, <1>4, <1>5, <1>6, <1>7, <1>8, <1>9, <1>10 DEF AutoInv, Facts

\* Nothing but the first operation runs.
LEMMA OneRuns ==
  ASSUME AutoInv, NEW i \in Ops, Turn(i)
  PROVE  /\ \A j \in Ops : Running(j) \/ Is(j, "clean") => j = i
         /\ op[i] # None => op[i] \in OpRecords /\ up # "down"
         /\ ~Running(i) \/ op[i].ph # "saved" \/ op[i].k # "on" =>
              \A s \in Sessions : mem[s] # None => file # Broken /\ file[s] = mem[s]
         /\ Running(i) /\ op[i].ph = "saved" =>
              /\ ~broken /\ file # Broken
              /\ file = IF op[i].k = "on" THEN [mem EXCEPT ![op[i].s] = op[i].g] ELSE mem
<1>1. \A j \in Ops : Running(j) \/ Is(j, "clean") => j = i
  BY DEF AutoInv, QueueInv, Turn
<1>2. op[i] # None => op[i] \in OpRecords /\ up # "down"
  BY DEF AutoInv, ChainType, Facts, UpInv
<1>3. ~Running(i) \/ op[i].ph # "saved" \/ op[i].k # "on" =>
        \A s \in Sessions : mem[s] # None => file # Broken /\ file[s] = mem[s]
  BY <1>1 DEF AutoInv, Facts, SaveInv, SavedBeforeUsed, Running
<1>4. Running(i) /\ op[i].ph = "saved" =>
        /\ ~broken /\ file # Broken
        /\ file = IF op[i].k = "on" THEN [mem EXCEPT ![op[i].s] = op[i].g] ELSE mem
  BY <1>2 DEF AutoInv, Facts, SaveInv, UpInv, Running
<1> QED
  BY <1>1, <1>2, <1>3, <1>4

\* What the invariant says of what an operation that ends may leave as it is.
LEMMA StillSo ==
  ASSUME AutoInv
  PROVE  /\ broken => mem = NoEntry
         /\ \A s \in Sessions : off[s] => mem[s] = None /\ (file # Broken => file[s] = None)
         /\ \A s \in Sessions : timer[s] # None => timer[s].n <= made
         /\ \A j \in Ops : Is(j, "on") => NotIn(mem, op[j].g.n)
         /\ \A n \in 1..MaxGrants : said[n] > 0 => n <= made
         /\ \A n \in 1..MaxGrants : said[n] > 0 /\ n \notin slip =>
              /\ said[n] = 1 /\ (file # Broken => NotIn(file, n))
              /\ \A j \in Ops : Is(j, "on") => op[j].g.n # n
         /\ mem \in Entries /\ timer \in Entries /\ said \in [1..MaxGrants -> 0..2]
         /\ slip \subseteq 1..MaxGrants /\ off \in [Sessions -> BOOLEAN]
BY DEF AutoInv, Facts, UpInv, OffInv, NumberInv, UniqueInv, ToldInv, DataType

LEMMA NothingKeeps ==
  ASSUME AutoInv, NEW i \in Ops, BeginNothing(i)
  PROVE  AutoInv'
<1>1. /\ Turn(i) /\ op[i] # None /\ op[i].ph = "queued" /\ Done(i)
      /\ UNCHANGED <<clock, up, broken, mem, timer, file, made, said, slip, off>>
  BY DEF BeginNothing
<1>2. ~Running(i) /\ up # "down" /\ up' \in {"loading", "up"}
  BY <1>1, OneRuns DEF Running, AutoInv, DataType
<1>3. \A s \in Sessions : mem[s] # None => file # Broken /\ file[s] = mem[s]
  BY <1>1, <1>2, OneRuns
<1> QED
  BY <1>1, <1>2, <1>3, StillSo, LeavesKeeps

LEMMA FinishOnKeeps ==
  ASSUME AutoInv, NEW i \in Ops, FinishOn(i)
  PROVE  AutoInv'
<1>1. /\ op[i] # None /\ op[i].k = "on" /\ op[i].ph \in {"saved", "failed"} /\ Done(i)
      /\ UNCHANGED <<clock, up, broken, file, made, said, slip, off>>
  BY DEF FinishOn, Ended
<1>2. Running(i) /\ Turn(i) /\ Is(i, "on")
  BY <1>1 DEF Running, Is, AutoInv, QueueInv
<1>3. up # "down" /\ up' \in {"loading", "up"}
  BY <1>1, <1>2, OneRuns DEF AutoInv, DataType
<1>4. op[i].s \in Sessions /\ op[i].g \in Grants /\ op[i].g.n <= made
  BY <1>2, <1>1 DEF AutoInv, Facts, ShapeInv
<1>5. CASE op[i].ph = "saved"
  <2>1. mem' = [mem EXCEPT ![op[i].s] = op[i].g] /\ timer' = [timer EXCEPT ![op[i].s] = op[i].g]
    BY <1>5 DEF FinishOn
  <2>2. file = mem' /\ file # Broken /\ ~broken
    BY <1>1, <1>2, <1>5, <2>1, OneRuns
  <2>3. mem' \in Entries /\ timer' \in Entries
    BY <1>4, <2>1, StillSo, GrantFacts
  <2>4. \A s \in Sessions : off[s] => mem'[s] = None /\ file[s] = None
    BY <1>1, <1>2, <2>1, <2>2, StillSo DEF AutoInv, Facts, OffInv, Entries
  <2>5. \A s \in Sessions : timer'[s] # None => timer'[s].n <= made
    BY <1>4, <2>1, StillSo DEF Entries
  <2>6. \A j \in Ops \ {i} : Is(j, "on") => NotIn(mem', op[j].g.n)
    <3>1. \A j \in Ops \ {i} : Is(j, "on") => op[j].g.n # op[i].g.n
      BY <1>2 DEF AutoInv, Facts, UniqueInv
    <3> QED
      BY <1>4, <2>1, <3>1, StillSo DEF NotIn, Entries
  <2>7. \A s \in Sessions : mem'[s] # None => file # Broken /\ file[s] = mem'[s]
    BY <2>2
  <2> QED
    BY <1>1, <1>2, <1>3, <2>2, <2>3, <2>4, <2>5, <2>6, <2>7, StillSo, LeavesKeeps
<1>6. CASE op[i].ph = "failed"
  <2>1. UNCHANGED <<mem, timer>>
    BY <1>6 DEF FinishOn
  <2>2. \A s \in Sessions : mem[s] # None => file # Broken /\ file[s] = mem[s]
    BY <1>2, <1>6, OneRuns
  <2> QED
    BY <1>1, <1>2, <1>3, <2>1, <2>2, StillSo, LeavesKeeps
<1> QED
  BY <1>1, <1>5, <1>6

LEMMA FinishOffKeeps ==
  ASSUME AutoInv, NEW i \in Ops, FinishOff(i)
  PROVE  AutoInv'
<1>1. /\ op[i] # None /\ op[i].k \in {"off", "end"} /\ op[i].ph \in {"saved", "failed"} /\ Done(i)
      /\ off' = IF op[i].ph = "saved" THEN [off EXCEPT ![op[i].s] = TRUE] ELSE off
      /\ UNCHANGED <<clock, up, broken, mem, timer, file, made, said, slip>>
  BY DEF FinishOff, Ended
<1>2. Running(i) /\ Turn(i)
  BY <1>1 DEF Running, AutoInv, QueueInv
<1>3. up # "down" /\ up' \in {"loading", "up"}
  BY <1>1, <1>2, OneRuns DEF AutoInv, DataType
<1>4. op[i].s \in Sessions /\ (op[i].ph = "saved" => mem[op[i].s] = None)
  BY <1>1, <1>2 DEF AutoInv, Facts, ShapeInv, RemovedInv
<1>5. \A s \in Sessions : mem[s] # None => file # Broken /\ file[s] = mem[s]
  BY <1>1, <1>2, OneRuns
<1>6. op[i].ph = "saved" => file = mem /\ file # Broken
  BY <1>1, <1>2, OneRuns
<1>7. \A s \in Sessions : off'[s] => mem[s] = None /\ (file # Broken => file[s] = None)
  BY <1>1, <1>4, <1>6, StillSo
<1>8. off' \in [Sessions -> BOOLEAN]
  BY <1>1, StillSo
<1> QED
  BY <1>1, <1>2, <1>3, <1>5, <1>7, <1>8, StillSo, LeavesKeeps

LEMMA FinishExpireKeeps ==
  ASSUME AutoInv, NEW i \in Ops, FinishExpire(i)
  PROVE  AutoInv'
<1>1. /\ op[i] # None /\ op[i].k = "expire" /\ op[i].ph \in {"saved", "failed"} /\ Done(i)
      /\ said' = Announced({op[i].g.n})
      /\ slip' = IF op[i].ph = "failed" THEN slip \cup {op[i].g.n} ELSE slip
      /\ UNCHANGED <<clock, up, broken, mem, timer, file, made, off>>
  BY DEF FinishExpire, Ended
<1>2. Running(i) /\ Turn(i) /\ Is(i, "expire")
  BY <1>1 DEF Running, Is, AutoInv, QueueInv
<1>3. up # "down" /\ up' \in {"loading", "up"}
  BY <1>1, <1>2, OneRuns DEF AutoInv, DataType
<1>4. op[i].g \in Grants /\ op[i].g.n \in 1..MaxGrants /\ op[i].g.n <= made
  BY <1>2, GrantFacts DEF AutoInv, Facts, ShapeInv
<1>5. \A s \in Sessions : mem[s] # None => file # Broken /\ file[s] = mem[s]
  BY <1>1, <1>2, OneRuns
<1>6. op[i].ph = "saved" => file = mem
  BY <1>1, <1>2, OneRuns
<1>7. /\ said' \in [1..MaxGrants -> 0..2] /\ slip' \subseteq 1..MaxGrants
      /\ \A n \in 1..MaxGrants : n # op[i].g.n => said'[n] = said[n]
  BY <1>1, <1>4, StillSo DEF Announced
<1>8. op[i].g.n \notin slip => said[op[i].g.n] = 0
  <2>1. op[i].g.n \notin slip => ~(said[op[i].g.n] > 0)
    BY <1>2, <1>4 DEF AutoInv, Facts, ToldInv
  <2>2. said[op[i].g.n] \in 0..2
    BY <1>4, StillSo
  <2> QED
    BY <2>1, <2>2
<1>9. op[i].g.n \notin slip => said'[op[i].g.n] = 1
  BY <1>1, <1>4, <1>8, StillSo DEF Announced
<1>10. NotIn(mem, op[i].g.n) /\ \A j \in Ops : Is(j, "on") => op[j].g.n # op[i].g.n
  BY <1>2 DEF AutoInv, Facts, UniqueInv
<1>11. ASSUME NEW n \in 1..MaxGrants, said'[n] > 0, n \notin slip'
       PROVE  /\ said'[n] = 1 /\ (file # Broken => NotIn(file, n))
              /\ \A j \in Ops : Is(j, "on") => op[j].g.n # n
  <2>1. CASE n = op[i].g.n
    BY <1>1, <1>6, <1>9, <1>10, <1>11, <2>1
  <2>2. CASE n # op[i].g.n
    BY <1>1, <1>7, <1>11, <2>2, StillSo
  <2> QED
    BY <2>1, <2>2
<1>12. \A n \in 1..MaxGrants : said'[n] > 0 => n <= made
  BY <1>4, <1>7, StillSo
<1> QED
  BY <1>1, <1>2, <1>3, <1>5, <1>7, <1>11, <1>12, StillSo, LeavesKeeps

LEMMA FinishCleanKeeps ==
  ASSUME AutoInv, NEW i \in Ops, FinishClean(i)
  PROVE  AutoInv'
<1>1. /\ op[i] # None /\ op[i].k = "clean" /\ op[i].ph \in {"saved", "failed"} /\ Done(i)
      /\ said' = IF op[i].ph = "saved" THEN Announced(op[i].due) ELSE said
      /\ up' = "up" /\ UNCHANGED <<clock, broken, mem, timer, file, made, slip, off>>
  BY DEF FinishClean, Ended
<1>2. Running(i) /\ Turn(i) /\ Is(i, "clean")
  BY <1>1 DEF Running, Is, AutoInv, QueueInv
<1>3. up # "down" /\ \A j \in Ops : ~Is(j, "on")
  BY <1>1, <1>2, OneRuns DEF AutoInv, Facts, UpInv
<1>4. \A n \in op[i].due : n <= made
  BY <1>2 DEF AutoInv, Facts, ShapeInv
<1>5. \A s \in Sessions : mem[s] # None => file # Broken /\ file[s] = mem[s]
  BY <1>1, <1>2, OneRuns
<1>6. op[i].ph = "saved" => file = mem
  BY <1>1, <1>2, OneRuns
<1>7. said' \in [1..MaxGrants -> 0..2]
  BY <1>1, StillSo DEF Announced
<1>8. \A n \in 1..MaxGrants : n \in op[i].due /\ n \notin slip => said[n] = 0
  <2>1. \A n \in 1..MaxGrants : n \in op[i].due /\ n \notin slip => ~(said[n] > 0)
    BY <1>2 DEF AutoInv, Facts, ToldInv
  <2>2. \A n \in 1..MaxGrants : said[n] \in 0..2
    BY StillSo
  <2> QED
    BY <2>1, <2>2
<1>9. \A n \in op[i].due : NotIn(mem, n)
  BY <1>2 DEF AutoInv, Facts, UniqueInv
<1>10. ASSUME NEW n \in 1..MaxGrants, said'[n] > 0, n \notin slip
       PROVE  said'[n] = 1 /\ (file # Broken => NotIn(file, n))
  <2>1. CASE op[i].ph = "saved" /\ n \in op[i].due
    BY <1>1, <1>6, <1>8, <1>9, <1>10, <2>1, StillSo DEF Announced
  <2>2. CASE ~(op[i].ph = "saved" /\ n \in op[i].due)
    <3>1. said'[n] = said[n]
      BY <1>1, <2>2, StillSo DEF Announced
    <3> QED
      BY <1>10, <3>1, StillSo
  <2> QED
    BY <2>1, <2>2
<1>11. \A n \in 1..MaxGrants : said'[n] > 0 => n <= made
  BY <1>1, <1>4, StillSo DEF Announced
<1> QED
  BY <1>1, <1>2, <1>3, <1>5, <1>7, <1>10, <1>11, StillSo, LeavesKeeps

\* The operation whose turn has come takes what it removes out of the memory
\* and starts to save.
LEMMA SavesKeeps ==
  ASSUME AutoInv, NEW i \in Ops, Turn(i), op[i] # None, op[i].ph = "queued", ~broken,
         NEW w \in Entries, Saves(i, w),
         UNCHANGED <<clock, up, broken, file, made, said, slip>>,
         mem' \in Entries, timer' \in Entries, off' \in [Sessions -> BOOLEAN],
         \A s \in Sessions : mem'[s] \in {None, mem[s]} /\ timer'[s] \in {None, timer[s]},
         w = IF op[i].k = "on" THEN [mem' EXCEPT ![op[i].s] = op[i].g] ELSE mem',
         op[i].k \in {"off", "end", "expire"} => mem'[op[i].s] = None,
         \A s \in Sessions : off'[s] => off[s] /\ (op[i].k = "on" => s # op[i].s),
         op[i].k = "expire" =>
           /\ NotIn(mem', op[i].g.n) /\ \A j \in Ops : Is(j, "on") => op[j].g.n # op[i].g.n
           /\ said[op[i].g.n] > 0 => op[i].g.n \in slip
  PROVE  AutoInv'
<1>1. /\ ChainType' /\ QueueInv'
      /\ op'[i] # None /\ Same(i) /\ op'[i].ph = "saving" /\ op'[i].want = w /\ Others(i)
      /\ \A j \in Ops : Running(j)' <=> j = i
      /\ \A j \in Ops : \A k : Is(j, k)' <=> Is(j, k)
  <2>1. Goes(i, "saving", w)
    BY DEF Saves, Goes
  <2> QED
    <3>1. ChainType /\ QueueInv
      BY DEF AutoInv
    <3> QED
      BY <2>1, <3>1, Going
<1>2. DataType'
  BY DEF AutoInv, DataType
<1>3. \A j \in Ops : /\ op'[j].k = op[j].k /\ op'[j].s = op[j].s /\ op'[j].g = op[j].g
                     /\ op'[j].due = op[j].due /\ (op'[j] = None <=> op[j] = None)
  BY <1>1 DEF Same, Others
<1>4. ShapeInv'
  BY <1>1, <1>3 DEF AutoInv, Facts, ShapeInv
<1>5. up # "down"
  BY OneRuns
<1>6. UpInv'
  <2>1. broken' = broken /\ up' = up /\ file' = file
    OBVIOUS
  <2> QED
    BY <1>1, <1>5, <2>1 DEF AutoInv, Facts, UpInv
<1>7. \A s \in Sessions : mem'[s] # None => file # Broken /\ file[s] = mem'[s]
  BY OneRuns DEF Running
<1>8. SaveInv'
  BY <1>1, <1>3, <1>7 DEF SaveInv, SavedBeforeUsed
<1>9. RemovedInv'
  BY <1>1, <1>3 DEF RemovedInv
<1>10. OffInv'
  BY <1>1, <1>3 DEF AutoInv, Facts, OffInv
<1>11. NumberInv'
  BY DEF AutoInv, Facts, NumberInv
<1>12. \A n : NotIn(mem, n) => NotIn(mem', n)
  BY DEF NotIn
<1>13. UniqueInv'
  <2>1. \A s, t \in Sessions : mem'[s] # None /\ mem'[t] # None /\ mem'[s].n = mem'[t].n => s = t
    BY DEF AutoInv, Facts, UniqueInv
  <2>2. \A j \in Ops : Is(j, "on")' => NotIn(mem', op'[j].g.n)
    BY <1>1, <1>3, <1>12 DEF AutoInv, Facts, UniqueInv
  <2>3. \A j \in Ops : Is(j, "clean")' => \A n \in op'[j].due : NotIn(mem', n)
    BY <1>1, <1>3, <1>12 DEF AutoInv, Facts, UniqueInv
  <2>4. \A j \in Ops : Is(j, "expire")' /\ Running(j)' =>
          NotIn(mem', op'[j].g.n) /\ \A l \in Ops : Is(l, "on")' => op'[l].g.n # op'[j].g.n
    BY <1>1, <1>3 DEF Is
  <2>5. \A j, l \in Ops : Is(j, "on")' /\ Is(l, "on")' /\ op'[j].g.n = op'[l].g.n => j = l
    BY <1>1, <1>3 DEF AutoInv, Facts, UniqueInv
  <2> QED
    BY <2>1, <2>2, <2>3, <2>4, <2>5 DEF AutoInv, Facts, UniqueInv, NotIn
<1>14. ToldInv'
  <2> SUFFICES ASSUME NEW n \in 1..MaxGrants, said[n] > 0, n \notin slip
               PROVE  /\ said[n] = 1 /\ NotIn(mem', n) /\ (file # Broken => NotIn(file, n))
                      /\ \A j \in Ops : Is(j, "on")' => op'[j].g.n # n
                      /\ \A j \in Ops : Is(j, "expire")' /\ Running(j)' => op'[j].g.n # n
                      /\ \A j \in Ops : Is(j, "clean")' => n \notin op'[j].due
    BY DEF ToldInv, NotIn
  <2>1. \A j \in Ops : Is(j, "expire")' /\ Running(j)' => op'[j].g.n # n
    BY <1>1, <1>3 DEF Is
  <2> QED
    BY <1>1, <1>3, <1>12, <2>1 DEF AutoInv, Facts, ToldInv
<1> QED
  BY <1>1, <1>2, <1>4, <1>6, <1>8, <1>9, <1>10, <1>11, <1>13, <1>14 DEF AutoInv, Facts

LEMMA BeginsKeeps ==
  ASSUME AutoInv, NEW i \in Ops, BeginOn(i) \/ BeginOff(i) \/ BeginExpire(i) \/ BeginClean(i)
  PROVE  AutoInv'
<1> USE DEF Begins
<1>1. op[i] # None /\ op[i].ph = "queued" /\ Turn(i)
  BY DEF BeginOn, BeginOff, BeginExpire, BeginClean
<1>2. op[i].k # "clean" => op[i].s \in Sessions
  BY <1>1 DEF AutoInv, Facts, ShapeInv
<1>3. op[i].k \in {"on", "expire"} => op[i].g \in Grants
  BY <1>1 DEF AutoInv, Facts, ShapeInv, Is
<1>4. CASE BeginOn(i)
  <2>1. /\ op[i].k = "on" /\ ~broken /\ Saves(i, [mem EXCEPT ![op[i].s] = op[i].g])
        /\ off' = [off EXCEPT ![op[i].s] = FALSE]
        /\ UNCHANGED <<clock, up, broken, mem, timer, file, made, said, slip>>
    BY <1>4 DEF BeginOn
  <2>2. [mem EXCEPT ![op[i].s] = op[i].g] \in Entries
    BY <1>2, <1>3, <2>1, StillSo, GrantFacts
  <2>3. /\ off' \in [Sessions -> BOOLEAN]
        /\ \A s \in Sessions : off'[s] => off[s] /\ s # op[i].s
    BY <1>2, <2>1, StillSo
  <2> QED
    BY <1>1, <2>1, <2>2, <2>3, StillSo, SavesKeeps
<1>5. CASE BeginOff(i)
  <2>1. /\ op[i].k \in {"off", "end"} /\ ~broken /\ Saves(i, mem')
        /\ mem' = [mem EXCEPT ![op[i].s] = None] /\ timer' = [timer EXCEPT ![op[i].s] = None]
        /\ UNCHANGED <<clock, up, broken, file, made, said, slip, off>>
    BY <1>5 DEF BeginOff
  <2>2. mem' \in Entries /\ timer' \in Entries
    BY <1>2, <2>1, StillSo, GrantFacts
  <2>3. \A s \in Sessions : mem'[s] \in {None, mem[s]} /\ timer'[s] \in {None, timer[s]}
    BY <1>2, <2>1, StillSo DEF Entries
  <2>4. mem'[op[i].s] = None
    BY <1>2, <2>1, StillSo DEF Entries
  <2> QED
    BY <1>1, <2>1, <2>2, <2>3, <2>4, StillSo, SavesKeeps
<1>6. CASE BeginExpire(i)
  <2>1. /\ op[i].k = "expire" /\ ~broken /\ Saves(i, mem') /\ mem[op[i].s] = op[i].g
        /\ mem' = [mem EXCEPT ![op[i].s] = None]
        /\ UNCHANGED <<clock, up, broken, timer, file, made, said, slip, off>>
    BY <1>6 DEF BeginExpire
  <2>2. mem' \in Entries
    BY <1>2, <2>1, StillSo, GrantFacts
  <2>3. \A s \in Sessions : mem'[s] \in {None, mem[s]}
    BY <1>2, <2>1, StillSo DEF Entries
  <2>4. mem'[op[i].s] = None
    BY <1>2, <2>1, StillSo DEF Entries
  <2>5. op[i].g # None
    BY <1>3, <2>1, GrantFacts
  <2>6. NotIn(mem', op[i].g.n)
    BY <1>2, <2>1, <2>3, <2>4, <2>5 DEF NotIn, AutoInv, Facts, UniqueInv
  <2>7. \A j \in Ops : Is(j, "on") => op[j].g.n # op[i].g.n
    BY <1>2, <2>1, <2>5 DEF NotIn, AutoInv, Facts, UniqueInv
  <2>8. said[op[i].g.n] > 0 => op[i].g.n \in slip
    BY <1>2, <1>3, <2>1, <2>5, GrantFacts DEF NotIn, AutoInv, Facts, ToldInv
  <2> QED
    BY <1>1, <2>1, <2>2, <2>3, <2>4, <2>6, <2>7, <2>8, StillSo, SavesKeeps
<1>7. CASE BeginClean(i)
  <2>1. /\ op[i].k = "clean" /\ Saves(i, mem)
        /\ UNCHANGED <<clock, up, broken, mem, timer, file, made, said, slip, off>>
    BY <1>7 DEF BeginClean
  <2>2. ~broken
    BY <1>1, <2>1 DEF AutoInv, Facts, UpInv, Is
  <2> QED
    BY <1>1, <2>1, <2>2, StillSo, SavesKeeps
<1> QED
  BY <1>4, <1>5, <1>6, <1>7

\* The file is written, or stays as it was.
LEMMA WriteKeeps ==
  ASSUME AutoInv, NEW i \in Ops, NEW ok \in BOOLEAN, Write(i, ok)
  PROVE  AutoInv'
<1> DEFINE ph == IF ok THEN "saved" ELSE "failed"
<1>1. /\ op[i] # None /\ op[i].ph = "saving" /\ file' = IF ok THEN op[i].want ELSE file
      /\ op' = [op EXCEPT ![i].ph = ph]
      /\ UNCHANGED <<clock, up, broken, mem, timer, queue, made, said, slip, off>>
  BY DEF Write
<1>2. Running(i) /\ Turn(i) /\ op[i] \in OpRecords /\ op[i].want \in Entries
  BY <1>1, FieldTypes DEF Running, AutoInv, QueueInv, ChainType
<1>3. Goes(i, ph, op[i].want)
  <2>1. [op[i] EXCEPT !.ph = ph] = [op[i] EXCEPT !.ph = ph, !.want = op[i].want]
    BY <1>2 DEF OpRecords
  <2> QED
    BY <1>1, <2>1 DEF Goes
<1>4. /\ ChainType' /\ QueueInv'
      /\ op'[i] # None /\ Same(i) /\ op'[i].ph = ph /\ op'[i].want = op[i].want /\ Others(i)
      /\ \A j \in Ops : Running(j)' <=> j = i
      /\ \A j \in Ops : \A k : Is(j, k)' <=> Is(j, k)
  <2>1. ChainType /\ QueueInv /\ ph \in {"saving", "saved", "failed"}
    BY DEF AutoInv
  <2> HIDE DEF ph
  <2> QED
    BY <1>1, <1>2, <1>3, <2>1, Going
<1>5. \A j \in Ops : /\ op'[j].k = op[j].k /\ op'[j].s = op[j].s /\ op'[j].g = op[j].g
                     /\ op'[j].due = op[j].due /\ (op'[j] = None <=> op[j] = None)
                     /\ Running(j) <=> j = i
  BY <1>1, <1>2, <1>4, OneRuns DEF Same, Others
<1>6. op[i].want = IF op[i].k = "on" THEN [mem EXCEPT ![op[i].s] = op[i].g] ELSE mem
  BY <1>1, <1>2 DEF AutoInv, Facts, SaveInv
<1>7. /\ op[i].k = "on" => op[i].s \in Sessions /\ op[i].g \in Grants /\ op[i].g.n <= made
      /\ ~broken /\ up # "down" /\ file # Broken
  BY <1>1, <1>2, OneRuns DEF AutoInv, Facts, ShapeInv, UpInv, Is
<1>8. file' \in Entries /\ file' # Broken
  BY <1>1, <1>2, <1>7, GrantFacts DEF AutoInv, DataType
<1>9. \A s \in Sessions : \/ file'[s] = file[s]
                          \/ file'[s] = mem[s]
                          \/ ok /\ op[i].k = "on" /\ op[i].s = s /\ file'[s] = op[i].g
  BY <1>1, <1>6, <1>7, StillSo DEF Entries
<1>10. DataType'
  BY <1>1, <1>8 DEF AutoInv, DataType
<1>11. ShapeInv'
  BY <1>1, <1>4, <1>5 DEF AutoInv, Facts, ShapeInv
<1>12. UpInv'
  <2>1. broken' = broken /\ up' = up /\ file' # Broken /\ ~broken
    BY <1>1, <1>7, <1>8
  <2> QED
    BY <1>4, <1>7, <2>1 DEF AutoInv, Facts, UpInv
<1>13. SaveInv'
  <2>1. \A j \in Ops : Running(j)' /\ op'[j].ph # "failed" =>
          op'[j].want = IF op'[j].k = "on" THEN [mem' EXCEPT ![op'[j].s] = op'[j].g] ELSE mem'
    <3>1. op'[i].k = op[i].k /\ op'[i].s = op[i].s /\ op'[i].g = op[i].g
      BY <1>5
    <3>2. mem' = mem /\ op'[i].want = op[i].want
      BY <1>1, <1>4
    <3>3. op'[i].want = IF op'[i].k = "on" THEN [mem' EXCEPT ![op'[i].s] = op'[i].g] ELSE mem'
      BY <1>6, <3>1, <3>2
    <3> QED
      BY <1>4, <3>3
  <2>2. \A j \in Ops : Running(j)' /\ op'[j].ph = "saved" => file' = op'[j].want
    BY <1>1, <1>4
  <2>3. ASSUME NEW s \in Sessions, mem[s] # None
        PROVE  \/ file'[s] = mem[s]
               \/ op'[i].k = "on" /\ op'[i].s = s /\ op'[i].ph = "saved"
    <3>1. file[s] = mem[s]
      BY <1>1, <1>2, <2>3, OneRuns
    <3> QED
      BY <1>4, <1>5, <1>9, <3>1
  <2> QED
    BY <1>1, <1>4, <1>8, <2>1, <2>2, <2>3 DEF SaveInv, SavedBeforeUsed
<1>14. RemovedInv'
  BY <1>1, <1>4, <1>5 DEF AutoInv, Facts, RemovedInv
<1>15. OffInv'
  <2>1. \A s \in Sessions : off[s] => file'[s] = None
    BY <1>2, <1>7, <1>9, StillSo DEF AutoInv, Facts, OffInv
  <2> QED
    BY <1>1, <1>4, <1>5, <2>1 DEF AutoInv, Facts, OffInv
<1>16. NumberInv'
  <2>1. \A s \in Sessions : file'[s] # None => file'[s].n <= made
    BY <1>7, <1>9 DEF AutoInv, Facts, NumberInv
  <2> QED
    BY <1>1, <2>1 DEF AutoInv, Facts, NumberInv
<1>17. UniqueInv'
  <2>1. \A s, t \in Sessions : file'[s] # None /\ file'[t] # None /\ file'[s].n = file'[t].n => s = t
    <3>1. CASE ok
      <4>1. file' = IF op[i].k = "on" THEN [mem EXCEPT ![op[i].s] = op[i].g] ELSE mem
        BY <1>1, <1>6, <3>1
      <4>2. op[i].k = "on" => NotIn(mem, op[i].g.n)
        BY <1>1 DEF AutoInv, Facts, UniqueInv, Is
      <4>3. \A s, t \in Sessions : mem[s] # None /\ mem[t] # None /\ mem[s].n = mem[t].n => s = t
        BY DEF AutoInv, Facts, UniqueInv
      <4> QED
        BY <1>7, <4>1, <4>2, <4>3, StillSo DEF NotIn, Entries
    <3>2. CASE ~ok
      BY <1>1, <1>7, <3>2 DEF AutoInv, Facts, UniqueInv
    <3> QED
      BY <3>1, <3>2
  <2> QED
    BY <1>1, <1>4, <1>5, <2>1 DEF AutoInv, Facts, UniqueInv, NotIn
<1>18. ToldInv'
  <2>1. \A n \in 1..MaxGrants : said[n] > 0 /\ n \notin slip => NotIn(file', n)
    BY <1>1, <1>7, <1>9 DEF AutoInv, Facts, ToldInv, NotIn, Is
  <2> QED
    BY <1>1, <1>4, <1>5, <2>1 DEF AutoInv, Facts, ToldInv, NotIn
<1> QED
  BY <1>4, <1>10, <1>11, <1>12, <1>13, <1>14, <1>15, <1>16, <1>17, <1>18 DEF AutoInv, Facts

LEMMA StartKeeps ==
  ASSUME AutoInv, NEW i \in Ops, Start(i)
  PROVE  AutoInv'
<1> DEFINE live == [s \in Sessions |-> IF file[s] # None /\ file[s].until > clock
                                      THEN file[s] ELSE None]
           due == {file[s].n : s \in {t \in Sessions : file[t] # None /\ live[t] = None}}
<1>1. /\ up = "down" /\ ~broken /\ queue = <<>> /\ mem = NoEntry /\ timer = NoEntry
      /\ \A j \in Ops : op[j] = None
  BY DEF Start, AutoInv, Facts, UpInv
<1>2. UNCHANGED <<clock, file, made, said, slip, off>> /\ broken' = (file = Broken)
  BY DEF Start
<1>3. CASE file = Broken
  <2>1. up' = "up" /\ broken' /\ UNCHANGED <<mem, timer, queue, op>>
    BY <1>2, <1>3 DEF Start
  <2>2. ChainType' /\ QueueInv'
    BY <2>1 DEF AutoInv, ChainType, QueueInv, Turn, Running, Is
  <2>3. DataType'
    BY <1>2, <2>1 DEF AutoInv, DataType
  <2>4. ShapeInv' /\ UpInv' /\ SaveInv' /\ RemovedInv' /\ OffInv'
    BY <1>1, <1>2, <1>3, <2>1, GrantFacts
       DEF ShapeInv, UpInv, SaveInv, SavedBeforeUsed, RemovedInv, AutoInv, Facts, OffInv, Running, Is
  <2>5. NumberInv' /\ UniqueInv' /\ ToldInv'
    BY <1>1, <1>2, <1>3, <2>1 DEF AutoInv, Facts, NumberInv, UniqueInv, ToldInv, NotIn, Running, Is
  <2> QED
    BY <2>2, <2>3, <2>4, <2>5 DEF AutoInv, Facts
<1>4. CASE file # Broken
  <2>1. file \in Entries
    BY <1>4 DEF AutoInv, DataType
  <2>2. live \in Entries /\ \A s \in Sessions : live[s] \in {None, file[s]}
    BY <2>1, GrantFacts DEF Entries
  <2>3. due \in SUBSET (1..MaxGrants) /\ \A n \in due : n <= made /\ NotIn(live, n)
    <3>1. ASSUME NEW s \in Sessions, file[s] # None, live[s] = None
          PROVE  file[s].n \in 1..MaxGrants /\ file[s].n <= made /\ NotIn(live, file[s].n)
      <4>1. file[s].n \in 1..MaxGrants /\ file[s].n <= made
        BY <1>4, <2>1, <3>1, GrantFacts DEF AutoInv, Facts, NumberInv
      <4>2. \A t \in Sessions : file[t] # None /\ file[t].n = file[s].n => t = s
        BY <1>4, <3>1 DEF AutoInv, Facts, UniqueInv
      <4> HIDE DEF live
      <4> QED
        BY <2>2, <3>1, <4>1, <4>2 DEF NotIn
    <3> QED
      BY <3>1
  <2>4. /\ mem' = live /\ timer' = live
        /\ IF due = {} THEN up' = "up" /\ UNCHANGED <<queue, op>>
           ELSE up' = "loading" /\ Enqueue(i, "clean", None, None, due)
    BY <1>4 DEF Start
  <2> HIDE DEF live, due
  <2>5. /\ ChainType' /\ QueueInv' /\ up' \in {"loading", "up"}
        /\ \A j \in Ops : op'[j] # None =>
              op'[j].k = "clean" /\ op'[j].due = due /\ op'[j].ph = "queued" /\ up' = "loading"
    <3>1. CASE due = {}
      BY <1>1, <2>4, <3>1 DEF AutoInv, ChainType, QueueInv, Turn, Running, Is
    <3>2. CASE due # {}
      <4>1. Enqueue(i, "clean", None, None, due) /\ up' = "loading"
        BY <2>4, <3>2
      <4>2. ChainType /\ QueueInv
        BY DEF AutoInv
      <4>3. /\ ChainType' /\ QueueInv' /\ op'[i].k = "clean" /\ op'[i].due = due
            /\ op'[i].ph = "queued" /\ Others(i)
        BY <1>1, <2>3, <4>1, <4>2, Entered
      <4> QED
        BY <1>1, <4>1, <4>3 DEF Others
    <3> QED
      BY <3>1, <3>2
  <2>6. \A j \in Ops : ~Running(j)' /\ ~Is(j, "on")' /\ ~Is(j, "expire")'
                      /\ (Is(j, "clean")' => op'[j].due = due /\ up' = "loading")
    BY <2>5 DEF Running, Is
  <2>7. DataType'
    BY <1>2, <2>2, <2>4, <2>5 DEF AutoInv, DataType
  <2>8. ShapeInv'
    BY <1>2, <2>3, <2>5, <2>6 DEF ShapeInv
  <2>9. UpInv'
    BY <1>2, <1>4, <2>5, <2>6 DEF UpInv
  <2>10. SaveInv' /\ RemovedInv'
    BY <1>2, <1>4, <2>2, <2>4, <2>6 DEF SaveInv, SavedBeforeUsed, RemovedInv
  <2>11. OffInv'
    BY <1>2, <1>4, <2>2, <2>4, <2>6 DEF AutoInv, Facts, OffInv
  <2>12. NumberInv'
    BY <1>2, <1>4, <2>2, <2>4 DEF AutoInv, Facts, NumberInv
  <2>13. UniqueInv'
    <3>1. \A s, t \in Sessions : file[s] # None /\ file[t] # None /\ file[s].n = file[t].n => s = t
      BY <1>4 DEF AutoInv, Facts, UniqueInv
    <3>2. \A s, t \in Sessions : live[s] # None /\ live[t] # None /\ live[s].n = live[t].n => s = t
      BY <2>2, <3>1
    <3>3. \A j \in Ops : Is(j, "clean")' => \A n \in op'[j].due : NotIn(mem, n)'
      BY <2>3, <2>4, <2>6 DEF NotIn
    <3> QED
      BY <1>2, <2>4, <2>6, <3>1, <3>2, <3>3 DEF UniqueInv
  <2>14. ToldInv'
    <3>1. \A n \in 1..MaxGrants : said[n] > 0 /\ n \notin slip =>
            said[n] = 1 /\ NotIn(file, n) /\ NotIn(live, n)
      BY <1>4, <2>2 DEF AutoInv, Facts, ToldInv, NotIn
    <3>2. \A n \in 1..MaxGrants : said[n] > 0 /\ n \notin slip => n \notin due
      BY <2>1, <3>1 DEF NotIn, due
    <3> QED
      BY <1>2, <2>4, <2>6, <3>1, <3>2 DEF ToldInv, NotIn
  <2> QED
    BY <2>5, <2>7, <2>8, <2>9, <2>10, <2>11, <2>12, <2>13, <2>14 DEF AutoInv, Facts
<1> QED
  BY <1>3, <1>4

\* A timer fires only while the agent is up.
LEMMA FireKeeps ==
  ASSUME AutoInv, NEW i \in Ops, NEW s \in Sessions, Fire(i, s)
  PROVE  AutoInv'
<1>1. /\ timer[s] # None /\ timer' = [timer EXCEPT ![s] = None]
      /\ Enqueue(i, "expire", s, timer[s], {})
      /\ UNCHANGED <<clock, up, broken, mem, file, made, said, slip, off>>
  BY DEF Fire
<1>2. timer[s] \in Grants /\ timer[s].n <= made
  BY <1>1, StillSo, GrantFacts
<1>3. up # "down"
  BY <1>1, GrantFacts DEF AutoInv, Facts, UpInv
<1>4. timer' \in Entries /\ \A r \in Sessions : timer'[r] \in {None, timer[r]}
  BY <1>1, StillSo, GrantFacts DEF Entries
<1>5. made' \in 0..MaxGrants /\ made' >= made /\ timer[s].n <= made'
  BY <1>1, <1>2 DEF AutoInv, DataType
<1> QED
  BY <1>1, <1>2, <1>3, <1>4, <1>5, WaitsKeeps

LEMMA RequestKeeps ==
  ASSUME AutoInv, NEW i \in Ops, NEW s \in Sessions,
         RequestOff(i, s) \/ SessionEnds(i, s) \/ \E len \in Lengths : RequestOn(i, s, len)
  PROVE  AutoInv'
<1>1. made \in 0..MaxGrants /\ MaxGrants \in Nat /\ clock \in 0..MaxTime /\ MaxTime \in Nat
  BY AutoApproveAssumption DEF AutoApproveAssumption, AutoInv, DataType
<1>2. ASSUME NEW k \in {"off", "end"}, Enqueue(i, k, s, None, {}), up = "up",
             UNCHANGED <<clock, up, broken, mem, timer, file, made, said, slip, off>>
      PROVE  AutoInv'
  <2>1. made' \in 0..MaxGrants /\ made' >= made
    BY <1>1, <1>2
  <2> QED
    BY <1>2, <2>1, StillSo, WaitsKeeps
<1>3. CASE RequestOff(i, s) \/ SessionEnds(i, s)
  BY <1>2, <1>3 DEF RequestOff, SessionEnds
<1>4. ASSUME NEW len \in Lengths, RequestOn(i, s, len) PROVE AutoInv'
  <2> DEFINE g == [until |-> clock + len, n |-> made + 1]
  <2>1. /\ up = "up" /\ made < MaxGrants /\ clock + len <= MaxTime /\ made' = made + 1
        /\ Enqueue(i, "on", s, g, {})
        /\ UNCHANGED <<clock, up, broken, mem, timer, file, said, slip, off>>
    BY <1>4 DEF RequestOn
  <2>2. g \in Grants /\ g.n = made + 1
    BY <1>1, <2>1, AutoApproveAssumption DEF AutoApproveAssumption, Grants
  <2>3. made' \in 0..MaxGrants /\ made' >= made /\ g.n <= made'
    BY <1>1, <2>1, <2>2
  <2> HIDE DEF g
  <2> QED
    BY <2>1, <2>2, <2>3, StillSo, WaitsKeeps
<1> QED
  BY <1>3, <1>4

\* The agent stops with what it had in memory; time goes by.
LEMMA StopKeeps ==
  ASSUME AutoInv, Stop
  PROVE  AutoInv'
<1>1. /\ up' = "down" /\ ~broken' /\ mem' = NoEntry /\ timer' = NoEntry /\ queue' = <<>>
      /\ op' = [i \in Ops |-> None] /\ UNCHANGED <<clock, file, made, said, slip, off>>
  BY DEF Stop
<1>2. \A i \in Ops : op'[i] = None
  BY <1>1
<1>3. ChainType' /\ QueueInv'
  BY <1>1, <1>2 DEF ChainType, QueueInv, Running, Is
<1>4. DataType'
  BY <1>1, GrantFacts DEF AutoInv, DataType, Stop
<1>5. ShapeInv' /\ UpInv' /\ SaveInv' /\ RemovedInv'
  BY <1>1, <1>2, GrantFacts DEF ShapeInv, UpInv, SaveInv, SavedBeforeUsed, RemovedInv, Running, Is
<1>6. OffInv' /\ NumberInv'
  BY <1>1, <1>2, GrantFacts DEF AutoInv, Facts, OffInv, NumberInv, Running
<1>7. UniqueInv' /\ ToldInv'
  BY <1>1, <1>2, GrantFacts DEF AutoInv, Facts, UniqueInv, ToldInv, NotIn, Running, Is
<1> QED
  BY <1>3, <1>4, <1>5, <1>6, <1>7 DEF AutoInv, Facts

LEMMA TimeKeeps ==
  ASSUME AutoInv, clock' \in 0..MaxTime,
         UNCHANGED <<up, broken, mem, timer, file, queue, op, made, said, slip, off>>
  PROVE  AutoInv'
<1>1. ChainType' /\ QueueInv' /\ DataType'
  BY DEF AutoInv, ChainType, DataType, QueueInv, Running, Is, Turn
<1>2. ShapeInv' /\ UpInv' /\ SaveInv' /\ RemovedInv'
  BY DEF AutoInv, Facts, ShapeInv, UpInv, SaveInv, SavedBeforeUsed, RemovedInv, Running, Is
<1>3. OffInv' /\ NumberInv' /\ UniqueInv' /\ ToldInv'
  BY DEF AutoInv, Facts, OffInv, NumberInv, UniqueInv, ToldInv, NotIn, Running, Is
<1> QED
  BY <1>1, <1>2, <1>3 DEF AutoInv, Facts

-----------------------------------------------------------------------------
(* The invariant, and what follows from it.                                *)

THEOREM InitAuto == Init => AutoInv
<1> SUFFICES ASSUME Init PROVE AutoInv
  OBVIOUS
<1>1. ChainType /\ QueueInv
  BY DEF Init, ChainType, QueueInv, Running, Is
<1>2. DataType
  <2>1. MaxGrants \in Nat /\ MaxTime \in Nat /\ NoEntry \in Entries
    BY AutoApproveAssumption, GrantFacts DEF AutoApproveAssumption
  <2>2. said \in [1..MaxGrants -> 0..2] /\ off \in [Sessions -> BOOLEAN]
    BY DEF Init
  <2>3. clock \in 0..MaxTime /\ made \in 0..MaxGrants
    BY <2>1 DEF Init
  <2> QED
    BY <2>1, <2>2, <2>3 DEF Init, DataType
<1>3. ShapeInv /\ UpInv /\ SaveInv /\ RemovedInv
  BY GrantFacts DEF Init, ShapeInv, UpInv, SaveInv, SavedBeforeUsed, RemovedInv, Running, Is
<1>4. OffInv /\ NumberInv
  BY GrantFacts DEF Init, OffInv, NumberInv, Running
<1>5. UniqueInv /\ ToldInv
  BY GrantFacts DEF Init, UniqueInv, ToldInv, NotIn, Running, Is
<1> QED
  BY <1>1, <1>2, <1>3, <1>4, <1>5 DEF AutoInv, Facts

THEOREM AutoStep ==
  ASSUME AutoInv, [Next]_vars
  PROVE  AutoInv'
<1>1. ASSUME NEW i \in Ops, Runs(i) PROVE AutoInv'
  BY <1>1, NothingKeeps, BeginsKeeps, WriteKeeps, FinishOnKeeps, FinishOffKeeps,
     FinishExpireKeeps, FinishCleanKeeps DEF Runs
<1>2. CASE Tick
  <2>1. clock' \in 0..MaxTime
    BY <1>2, AutoApproveAssumption DEF AutoApproveAssumption, Tick, AutoInv, DataType
  <2> QED
    BY <1>2, <2>1, TimeKeeps DEF Tick
<1>3. CASE UNCHANGED vars
  <2>1. clock' \in 0..MaxTime
    BY <1>3 DEF vars, AutoInv, DataType
  <2> QED
    BY <1>3, <2>1, TimeKeeps DEF vars
<1>4. CASE \E i \in Ops, s \in Sessions :
             \/ Fire(i, s) \/ RequestOff(i, s) \/ SessionEnds(i, s)
             \/ \E len \in Lengths : RequestOn(i, s, len)
  BY <1>4, FireKeeps, RequestKeeps
<1>5. CASE Stop
  BY <1>5, StopKeeps
<1>6. ASSUME NEW i \in Ops, Start(i) PROVE AutoInv'
  BY <1>6, StartKeeps
<1> QED
  BY <1>1, <1>2, <1>3, <1>4, <1>5, <1>6 DEF Next

THEOREM AutoInvariant == Spec => []AutoInv
<1>1. AutoInv /\ [Next]_vars => AutoInv'
  BY AutoStep
<1> QED
  BY InitAuto, <1>1, PTL DEF Spec

(* Every state has its types.                                              *)
THEOREM TypeCorrect == Spec => []TypeOK
<1>1. AutoInv => TypeOK
  BY TypeParts DEF AutoInv
<1> QED
  BY AutoInvariant, <1>1, PTL

(* What was turned off passes nothing and does not come back with a        *)
(* restart; what passes approvals was saved with the same end; and an end  *)
(* that could be saved is told once - over every interleaving of requests, *)
(* timers, failed saves and restarts (autoApprove.ts).                     *)
THEOREM AutoAsToldHolds == Spec => []AutoAsTold
<1>1. AutoInv => OffIsOff
  BY DEF AutoInv, Facts, OffInv, OffIsOff, Passes
<1>2. AutoInv => SavedBeforeUsed
  BY DEF AutoInv, Facts, SaveInv
<1>3. AutoInv => AnnouncedOnceIfSaved
  <2> SUFFICES ASSUME AutoInv, NEW n \in (1..MaxGrants) \ slip PROVE said[n] <= 1
    BY DEF AnnouncedOnceIfSaved
  <2>1. said[n] \in 0..2 /\ (said[n] > 0 => said[n] = 1)
    BY DEF AutoInv, DataType, Facts, ToldInv
  <2> QED
    BY <2>1
<1>4. AutoInv => AutoAsTold
  BY <1>1, <1>2, <1>3 DEF AutoAsTold
<1> QED
  BY AutoInvariant, <1>4, PTL

-----------------------------------------------------------------------------
(* The account on the agent: for any sign-ins and any number of fetches    *)
(* and looks at account.json that are under way at a time.                 *)

\* A fetch that may still bring or drop a ticket.
Fetching == {"asked", "body", "refused", "unlink", "write"}

TaskRecords == [pc : {"idle", "boot", "booting", "copy", "copying", "fetch", "stat", "read", "reading"}
                     \cup Fetching,
                cred : Creds \cup {None}, gen : Nat, got : Account!Tickets \cup Creds \cup {None}, now : BOOLEAN]

AccountTypes ==
  /\ v2 \in Creds \cup {None} /\ v4 \in Account!Tickets \cup {None}
  /\ v5 \in Creds \cup {None} /\ v8 \in Nat /\ v9 \in [Tasks -> TaskRecords]

\* A task has got the sign-in it has read, or the ticket it brings.
GotFits(r) == /\ r.pc = "asked" => r.cred \in Creds
              /\ r.pc \in {"booting", "reading"} => r.got \in Creds \cup {None}
              /\ r.pc \in {"body", "write"} => r.got \in Account!Tickets

\* A fetch of this generation is for the present sign-in, and what it has got
\* is a ticket of the sign-in it asked for.
FetchInv ==
  \A t \in Tasks :
    /\ v9[t].gen <= v8
    /\ v9[t].pc \in Fetching /\ v9[t].gen = v8 => v9[t].cred = v5
    /\ v9[t].pc = "body" => v9[t].got.cred = v9[t].cred
    /\ GotFits(v9[t])

AccountInv == AccountTypes /\ FetchInv /\ Account!OwnTicket

\* A task begins or is over.
LEMMA IdleTask ==
  /\ Account!Idle \in TaskRecords
  /\ [Account!Idle EXCEPT !.pc = "boot"] \in TaskRecords
  /\ Account!Idle.gen = 0 /\ Account!Idle.pc = "idle"
  /\ [Account!Idle EXCEPT !.pc = "boot"].gen = 0 /\ [Account!Idle EXCEPT !.pc = "boot"].pc = "boot"
BY DEF Account!Idle, TaskRecords, Fetching

LEMMA InitAccount == Account!Init => AccountInv
<1> SUFFICES ASSUME Account!Init PROVE AccountInv
  OBVIOUS
<1>1. PICK t \in Tasks : v9 = [u \in Tasks |-> IF u = t THEN [Account!Idle EXCEPT !.pc = "boot"] ELSE Account!Idle]
  BY DEF Account!Init
<1>2. AccountTypes
  BY <1>1, IdleTask DEF Account!Init, AccountTypes
<1>3. FetchInv
  BY <1>1, IdleTask DEF Account!Init, FetchInv, Fetching, GotFits
<1> QED
  BY <1>2, <1>3 DEF Account!Init, Account!OwnTicket, AccountInv

\* What a task may become.
Becomes(t, r) == v9' = [v9 EXCEPT ![t] = r]

\* A step of task t: the sign-in and the generation of the process change
\* together, and the task is still about what it was about.
LEMMA TaskStep ==
  ASSUME AccountInv, NEW t \in Tasks, NEW r \in TaskRecords, Becomes(t, r),
         v2' = v2, v4' \in Account!Tickets \cup {None}, v5' \in Creds \cup {None},
         \/ v5' = v5 /\ v8' = v8
         \/ v8' = v8 + 1,
         r.gen <= v8', r.pc \in Fetching /\ r.gen = v8' => r.cred = v5',
         r.pc = "body" => r.got.cred = r.cred, GotFits(r),
         Account!OwnTicket'
  PROVE  AccountInv'
<1>1. AccountTypes'
  BY DEF AccountInv, AccountTypes, Becomes
<1>2. FetchInv'
  BY DEF AccountInv, AccountTypes, FetchInv, Becomes, TaskRecords
<1> QED
  BY <1>1, <1>2 DEF AccountInv

\* What account.json says is taken over (startAccount, refreshAccountNow).
LEMMA AppliedStep ==
  ASSUME AccountInv, NEW c \in Creds \cup {None}, Account!Applied(c)
  PROVE  /\ v5' \in Creds \cup {None}
         /\ \/ v5' = v5 /\ v8' = v8
            \/ v8' = v8 + 1
         /\ Account!OwnTicket' /\ v8' \in Nat
BY DEF AccountInv, AccountTypes, Account!Applied, Account!OwnTicket

\* A task that ends, or goes on with nothing to bring, while the process keeps
\* the generation it has.
LEMMA EndStep ==
  ASSUME AccountInv, NEW t \in Tasks, Account!End(t),
         v2' = v2, v4' \in Account!Tickets \cup {None}, v5' = v5, v8' = v8, v6' \in {v6, None}
  PROVE  AccountInv'
<1>1. Account!Idle.gen <= v8' /\ Account!Idle.pc = "idle" /\ Becomes(t, Account!Idle)
  BY IdleTask DEF AccountInv, AccountTypes, Account!End, Becomes
<1>2. Account!OwnTicket'
  BY DEF AccountInv, Account!OwnTicket
<1>3. v5' \in Creds \cup {None}
  BY DEF AccountInv, AccountTypes
<1> QED
  BY <1>1, <1>2, <1>3, IdleTask, TaskStep DEF Fetching, GotFits

LEMMA GoStep ==
  ASSUME AccountInv, NEW t \in Tasks, NEW pc, Account!Go(t, pc),
         pc \in {"copy", "copying", "fetch", "read", "refused", "unlink"},
         pc \in Fetching => v9[t].pc \in Fetching,
         v2' = v2, v4' = v4, v5' = v5, v8' = v8, Account!OwnTicket'
  PROVE  AccountInv'
<1> DEFINE r == [v9[t] EXCEPT !.pc = pc]
<1>1. v9[t] \in TaskRecords
  BY DEF AccountInv, AccountTypes
<1>2. r \in TaskRecords /\ r.pc = pc /\ r.gen = v9[t].gen /\ r.cred = v9[t].cred
  BY <1>1 DEF TaskRecords, Fetching
<1>3. Becomes(t, r)
  BY DEF Account!Go, Becomes
<1>4. /\ r.gen <= v8' /\ (r.pc \in Fetching /\ r.gen = v8' => r.cred = v5') /\ r.pc # "body"
      /\ v5' \in Creds \cup {None} /\ v4' \in Account!Tickets \cup {None}
  BY <1>2 DEF AccountInv, AccountTypes, FetchInv
<1> QED
  BY <1>2, <1>3, <1>4, TaskStep DEF GotFits

LEMMA BootStep ==
  ASSUME AccountInv, NEW t \in Tasks, Account!Boot(t)
  PROVE  AccountInv'
<1> USE DEF Account!diskVars
<1>0. v9[t] \in TaskRecords /\ v9[t].gen <= v8
  BY DEF AccountInv, AccountTypes, FetchInv
<1>1. CASE v9[t].pc = "boot"
  <2> DEFINE r == [v9[t] EXCEPT !.pc = "booting", !.got = v2]
  <2>1. r \in TaskRecords /\ r.pc = "booting" /\ r.gen = v9[t].gen /\ r.got = v2
    BY <1>0 DEF TaskRecords, AccountInv, AccountTypes
  <2>2. Becomes(t, r) /\ v5' = v5 /\ v8' = v8 /\ v6' = v6 /\ v2' = v2 /\ v4' = v4
    BY <1>1 DEF Account!Boot, Becomes, Account!memVars
  <2> QED
    BY <1>0, <2>1, <2>2, TaskStep DEF AccountInv, AccountTypes, Account!OwnTicket, Fetching, GotFits
<1>2. CASE v9[t].pc = "booting"
  <2> DEFINE r == [v9[t] EXCEPT !.pc = "copy"]
  <2>1. r \in TaskRecords /\ r.pc = "copy" /\ r.gen = v9[t].gen
    BY <1>0 DEF TaskRecords
  <2>2. /\ Becomes(t, r) /\ v2' = v2 /\ v4' = v4 /\ Account!Applied(v9[t].got)
        /\ v4 \in Account!Tickets \cup {None}
    BY <1>2 DEF Account!Boot, Becomes, Account!Go, AccountInv, AccountTypes
  <2>3. v9[t].got \in Creds \cup {None}
    BY <1>2 DEF AccountInv, FetchInv, GotFits
  <2>4. /\ v5' \in Creds \cup {None} /\ ((v5' = v5 /\ v8' = v8) \/ v8' = v8 + 1)
        /\ Account!OwnTicket' /\ v8' \in Nat
    BY <2>2, <2>3, AppliedStep
  <2>5. v9[t].gen <= v8' /\ v4' \in Account!Tickets \cup {None}
    BY <1>0, <2>2, <2>4 DEF AccountInv, AccountTypes, TaskRecords
  <2> QED
    BY <2>1, <2>2, <2>4, <2>5, TaskStep DEF Fetching, GotFits
<1>3. CASE v9[t].pc = "copy"
  BY <1>3, GoStep DEF Account!Boot, Account!OwnLicense, Account!OwnTicket, AccountInv, Fetching
<1>4. CASE v9[t].pc = "copying"
  BY <1>4, GoStep DEF Account!Boot, Account!OwnTicket, AccountInv, Fetching
<1> QED
  BY <1>1, <1>2, <1>3, <1>4 DEF Account!Boot

\* A fetch is for the sign-in and the generation it begins under.
LEMMA FetchStep ==
  ASSUME AccountInv, NEW t \in Tasks, Account!Fetch(t)
  PROVE  AccountInv'
<1> USE DEF Account!diskVars, Account!memVars
<1>1. Account!OwnTicket' /\ v2' = v2 /\ v4' = v4 /\ v5' = v5 /\ v8' = v8
  BY DEF Account!Fetch, AccountInv, Account!OwnTicket
<1>2. CASE v5 = None
  BY <1>1, <1>2, EndStep DEF Account!Fetch, AccountInv, AccountTypes
<1>3. CASE v5 # None
  <2> DEFINE r == [Account!Idle EXCEPT !.pc = "asked", !.cred = v5, !.gen = v8]
  <2>1. v5 \in Creds \cup {None} /\ v8 \in Nat
    BY DEF AccountInv, AccountTypes
  <2>2. r \in TaskRecords /\ r.pc = "asked" /\ r.gen = v8 /\ r.cred = v5
    BY <2>1 DEF TaskRecords, Account!Idle, Fetching
  <2>3. Becomes(t, r)
    BY <1>3 DEF Account!Fetch, Becomes
  <2>4. v4' \in Account!Tickets \cup {None}
    BY <1>1 DEF AccountInv, AccountTypes
  <2>5. /\ r.gen <= v8' /\ (r.pc \in Fetching /\ r.gen = v8' => r.cred = v5')
        /\ (r.pc = "body" => r.got.cred = r.cred) /\ GotFits(r) /\ v5' \in Creds \cup {None}
    BY <1>1, <1>3, <2>1, <2>2 DEF GotFits
  <2> HIDE DEF r
  <2> QED
    BY <1>1, <2>2, <2>3, <2>4, <2>5, TaskStep
<1> QED
  BY <1>2, <1>3

LEMMA AnswerStep ==
  ASSUME AccountInv, NEW t \in Tasks, Account!Answer(t) \/ Account!NoAnswer(t)
  PROVE  AccountInv'
<1> USE DEF Account!diskVars, Account!memVars
<1>0. /\ Account!OwnTicket' /\ v2' = v2 /\ v4' = v4 /\ v5' = v5 /\ v6' = v6 /\ v8' = v8
      /\ v9[t].pc = "asked" /\ v9[t] \in TaskRecords /\ v4' \in Account!Tickets \cup {None}
      /\ v5' \in Creds \cup {None}
  BY DEF Account!Answer, Account!NoAnswer, AccountInv, AccountTypes, Account!OwnTicket
<1>1. CASE Account!NoAnswer(t)
  BY <1>0, <1>1, EndStep DEF Account!NoAnswer
<1>2. CASE Account!Answer(t) /\ ~v10[v9[t].cred]
  BY <1>0, <1>2, GoStep DEF Account!Answer, Fetching
<1>3. CASE Account!Answer(t) /\ v10[v9[t].cred]
  <2> DEFINE g == [cred |-> v9[t].cred, plan |-> IF v11[v9[t].cred] THEN "plus" ELSE "free"]
             r == [v9[t] EXCEPT !.pc = "body", !.got = g]
  <2>0. v9[t].cred \in Creds
    BY <1>0 DEF AccountInv, FetchInv, GotFits
  <2>1. g \in Account!Tickets
    BY <2>0 DEF Account!Tickets
  <2>2. r \in TaskRecords /\ r.pc = "body" /\ r.gen = v9[t].gen /\ r.cred = v9[t].cred /\ r.got = g
    BY <1>0, <2>0, <2>1 DEF TaskRecords, Fetching
  <2>3. Becomes(t, r)
    BY <1>3 DEF Account!Answer, Becomes
  <2>4. r.gen <= v8' /\ (r.gen = v8' => r.cred = v5')
    BY <1>0, <2>2 DEF AccountInv, FetchInv, Fetching
  <2>5. (r.pc = "body" => r.got.cred = r.cred) /\ GotFits(r)
    BY <2>1, <2>2 DEF GotFits
  <2> HIDE DEF r
  <2> QED
    BY <1>0, <2>2, <2>3, <2>4, <2>5, TaskStep
<1> QED
  BY <1>1, <1>2, <1>3

\* What was asked for comes, or is refused: only the last generation takes it.
LEMMA OutcomeStep ==
  ASSUME AccountInv, NEW t \in Tasks,
         Account!Refused(t) \/ Account!Unlink(t) \/ Account!Body(t) \/ Account!Write(t)
  PROVE  AccountInv'
<1> USE DEF Account!diskVars, Account!memVars
<1>0. /\ v2' = v2 /\ v5' = v5 /\ v8' = v8 /\ v5 \in Creds \cup {None} /\ v4 \in Account!Tickets \cup {None}
      /\ v9[t] \in TaskRecords
  BY DEF Account!Refused, Account!Unlink, Account!Body, Account!Write, AccountInv, AccountTypes
<1>1. CASE Account!Refused(t) /\ Account!Stale(t)
  BY <1>0, <1>1, EndStep DEF Account!Refused
<1>2. CASE Account!Refused(t) /\ ~Account!Stale(t)
  BY <1>0, <1>2, GoStep DEF Account!Refused, Account!OwnTicket, Fetching
<1>3. CASE Account!Unlink(t)
  BY <1>0, <1>3, EndStep DEF Account!Unlink
<1>4. CASE Account!Body(t) /\ Account!Stale(t)
  BY <1>0, <1>4, EndStep DEF Account!Body
<1>5. CASE Account!Body(t) /\ ~Account!Stale(t)
  <2> DEFINE r == [v9[t] EXCEPT !.pc = "write", !.now = (v6 # v9[t].got)]
  <2>1. /\ v9[t].gen = v8 /\ v9[t].cred = v5 /\ v9[t].got \in Account!Tickets
        /\ v9[t].got.cred = v9[t].cred /\ v8 \in Nat
    BY <1>5 DEF Account!Body, Account!Stale, AccountInv, AccountTypes, FetchInv, Fetching, GotFits
  <2>2. /\ r \in TaskRecords /\ r.pc = "write" /\ r.gen = v9[t].gen /\ r.cred = v9[t].cred
        /\ r.got = v9[t].got
    BY <1>0 DEF TaskRecords, Fetching
  <2>3. Becomes(t, r) /\ v6' = v9[t].got /\ v4' = v4
    BY <1>5 DEF Account!Body, Becomes
  <2>4. r.gen <= v8' /\ (r.pc = "body" => r.got.cred = r.cred) /\ GotFits(r) /\ Account!OwnTicket'
    BY <1>0, <2>1, <2>2, <2>3 DEF GotFits, Account!OwnTicket
  <2> HIDE DEF r
  <2> QED
    BY <1>0, <2>1, <2>2, <2>3, <2>4, TaskStep
<1>6. CASE Account!Write(t)
  <2>1. v9[t].got \in Account!Tickets
    BY <1>6 DEF Account!Write, AccountInv, FetchInv, GotFits
  <2> QED
    BY <1>0, <1>6, <2>1, EndStep DEF Account!Write
<1> QED
  BY <1>1, <1>2, <1>3, <1>4, <1>5, <1>6

\* watchAccount and refreshAccountNow, until account.json is read.
LEMMA WatchStep ==
  ASSUME AccountInv, NEW t \in Tasks, Account!Watch(t) \/ Account!StatNow(t) \/ Account!Read(t)
  PROVE  AccountInv'
<1> USE DEF Account!diskVars, Account!memVars
<1>0. /\ v2' = v2 /\ v4' = v4 /\ v5' = v5 /\ v6' = v6 /\ v8' = v8 /\ v2 \in Creds \cup {None}
      /\ v5 \in Creds \cup {None} /\ v4 \in Account!Tickets \cup {None} /\ v8 \in Nat
      /\ v9[t] \in TaskRecords /\ v9[t].gen <= v8
  BY DEF Account!Watch, Account!StatNow, Account!Read, AccountInv, AccountTypes, FetchInv
<1>1. Account!OwnTicket'
  BY <1>0 DEF AccountInv, Account!OwnTicket
<1>2. CASE Account!Watch(t)
  <2> DEFINE read == [Account!Idle EXCEPT !.pc = "read"]
             stat == [Account!Idle EXCEPT !.pc = "stat", !.now = TRUE]
  <2>1. /\ read \in TaskRecords /\ read.gen = 0 /\ read.pc = "read"
        /\ stat \in TaskRecords /\ stat.gen = 0 /\ stat.pc = "stat"
    BY DEF Account!Idle, TaskRecords, Fetching
  <2>2. PICK r \in TaskRecords : Becomes(t, r) /\ r.gen = 0 /\ r.pc \in {"read", "stat"}
    BY <1>2, <2>1 DEF Account!Watch, Becomes
  <2>3. /\ r.gen <= v8' /\ r.pc \notin Fetching /\ r.pc # "body" /\ GotFits(r)
    BY <1>0, <2>2 DEF GotFits, Fetching
  <2> QED
    BY <1>0, <1>1, <2>2, <2>3, TaskStep
<1>3. CASE Account!StatNow(t)
  BY <1>0, <1>1, <1>3, GoStep DEF Account!StatNow, Fetching
<1>4. CASE Account!Read(t)
  <2> DEFINE r == [v9[t] EXCEPT !.pc = "reading", !.got = v2, !.cred = v5]
  <2>1. /\ r \in TaskRecords /\ r.gen = v9[t].gen /\ r.pc = "reading" /\ r.got = v2
    BY <1>0 DEF TaskRecords, Fetching
  <2>2. Becomes(t, r)
    BY <1>4 DEF Account!Read, Becomes
  <2>3. r.gen <= v8' /\ r.pc \notin Fetching /\ r.pc # "body" /\ GotFits(r)
    BY <1>0, <2>1 DEF GotFits, Fetching
  <2> HIDE DEF r
  <2> QED
    BY <1>0, <1>1, <2>1, <2>2, <2>3, TaskStep
<1> QED
  BY <1>2, <1>3, <1>4

LEMMA LoadStep ==
  ASSUME AccountInv, NEW t \in Tasks, Account!Load(t)
  PROVE  AccountInv'
<1>0. /\ v2' = v2 /\ v4' = v4 /\ v9[t].pc = "reading" /\ v9[t] \in TaskRecords /\ v9[t].gen <= v8
      /\ v4 \in Account!Tickets \cup {None} /\ Account!Applied(v9[t].got)
      /\ v9[t].got \in Creds \cup {None}
  BY DEF Account!Load, Account!diskVars, AccountInv, AccountTypes, FetchInv, GotFits
<1>1. /\ v5' \in Creds \cup {None} /\ ((v5' = v5 /\ v8' = v8) \/ v8' = v8 + 1)
      /\ Account!OwnTicket' /\ v8' \in Nat /\ v9[t].gen <= v8'
  BY <1>0, AppliedStep DEF AccountInv, AccountTypes, TaskRecords
<1>2. CASE Account!End(t)
  <2>1. /\ Becomes(t, Account!Idle) /\ Account!Idle.gen <= v8' /\ Account!Idle.pc \notin Fetching
        /\ Account!Idle.pc # "body" /\ GotFits(Account!Idle)
    BY <1>1, <1>2, IdleTask DEF Account!End, Becomes, Fetching, GotFits
  <2> QED
    BY <1>0, <1>1, <2>1, IdleTask, TaskStep
<1>3. CASE Account!Go(t, "fetch")
  <2> DEFINE r == [v9[t] EXCEPT !.pc = "fetch"]
  <2>1. r \in TaskRecords /\ r.gen = v9[t].gen /\ r.pc = "fetch"
    BY <1>0 DEF TaskRecords, Fetching
  <2>2. Becomes(t, r) /\ r.pc \notin Fetching /\ r.pc # "body" /\ GotFits(r)
    BY <1>3, <2>1 DEF Account!Go, Becomes, Fetching, GotFits
  <2> HIDE DEF r
  <2> QED
    BY <1>0, <1>1, <2>1, <2>2, TaskStep
<1> QED
  BY <1>2, <1>3 DEF Account!Load

\* nyan login, the account service and the relay do not touch the process.
LEMMA AroundStep ==
  ASSUME AccountInv,
         \/ \E c \in Creds : Account!SignIn(c) \/ Account!Removed(c) \/ Account!Pays(c)
         \/ Account!SignIn(None) \/ Account!LineUp \/ Account!LineWants \/ Account!LineDown
  PROVE  AccountInv'
<1>1. v2' \in Creds \cup {None} /\ v4' = v4 /\ v5' = v5 /\ v6' = v6 /\ v8' = v8 /\ v9' = v9
  BY DEF Account!SignIn, Account!Removed, Account!Pays, Account!LineUp, Account!LineWants,
         Account!LineDown, Account!diskVars, Account!memVars, AccountInv, AccountTypes
<1> QED
  BY <1>1 DEF AccountInv, AccountTypes, FetchInv, Account!OwnTicket

LEMMA RestartStep ==
  ASSUME AccountInv, Account!Restart
  PROVE  AccountInv'
<1>1. PICK t \in Tasks : v9' = [u \in Tasks |-> IF u = t THEN [Account!Idle EXCEPT !.pc = "boot"] ELSE Account!Idle]
  BY DEF Account!Restart
<1>2. AccountTypes'
  BY <1>1, IdleTask DEF Account!Restart, Account!diskVars, AccountInv, AccountTypes
<1>3. FetchInv'
  BY <1>1, IdleTask DEF Account!Restart, FetchInv, Fetching, GotFits
<1> QED
  BY <1>2, <1>3 DEF Account!Restart, Account!OwnTicket, AccountInv

LEMMA AccountStep ==
  ASSUME AccountInv, Account!Next
  PROVE  AccountInv'
<1>1. CASE \E t \in Tasks : Account!Step(t) \/ Account!Fetch(t) \/ Account!NoAnswer(t) \/ Account!Watch(t)
  BY <1>1, BootStep, FetchStep, AnswerStep, OutcomeStep, WatchStep, LoadStep DEF Account!Step
<1> QED
  BY <1>1, AroundStep, RestartStep DEF Account!Next

\* The ticket in use is that of the present sign-in, for any sign-ins, any
\* number of fetches and looks at account.json that overtake each other, any
\* number of writes of the file and with a restart at any step (account.ts,
\* "generation", ownLicense).
THEOREM OwnTicketHolds == MCSpec => []OwnTicket
<1> DEFINE I == part = "account" => AccountInv
<1>1. MCInit => I
  BY InitAccount DEF MCInit
<1>2. I /\ [MCNext]_<<part, v, vars>> => I'
  <2> SUFFICES ASSUME I, [MCNext]_<<part, v, vars>>, part' = "account"
               PROVE  AccountInv'
    OBVIOUS
  <2>1. CASE MCNext
    <3>1. part = "account" /\ Account!Next
      BY <2>1 DEF MCNext
    <3> QED
      BY <3>1, AccountStep
  <2>2. CASE UNCHANGED <<part, v, vars>>
    BY <2>2 DEF v, AccountInv, AccountTypes, FetchInv, Account!OwnTicket
  <2> QED
    BY <2>1, <2>2
<1>3. I => OwnTicket
  BY DEF AccountInv, OwnTicket
<1> HIDE DEF I
<1>4. MCSpec => []I
  BY <1>1, <1>2, PTL DEF MCSpec
<1> QED
  BY <1>3, <1>4, PTL

-----------------------------------------------------------------------------
(* Pairing, for any devices and codes.  As MCPhones names them: v1 is      *)
(* disk, v2 up, v3 broken, v4 devices, v5 oneTimes, v7 settled, v8 chain,  *)
(* v9 phase, v12 pc, v13 said, v14 phone, v15 used.                        *)

\* What waits in the queue.
Operations ==
  {o \in [op : {"register", "revoke", "cancel"}, code : Codes \cup {None},
          key : Devices \cup {None}, early : BOOLEAN, awaited : BOOLEAN] :
     /\ IF o.op = "revoke" THEN o.code = None ELSE o.code \in Codes
     /\ IF o.op = "cancel" THEN o.key = None ELSE o.key \in Devices}

\* How far nyan pair is.
Stages == {"idle", "issuing", "stopping", "shows", "cancels", "gone"}

PairTypes ==
  /\ v1 \in (SUBSET Devices) \cup {None} /\ v2 \in BOOLEAN /\ v3 \in BOOLEAN
  /\ v4 \in SUBSET Devices /\ v5 \in SUBSET Codes
  /\ v7 \in [Codes -> Pair!Outcomes] /\ v8 \in Seq(Operations) /\ v9 \in {"waits", "saves", "saved"}
  /\ v12 \in [Codes -> Stages]
  /\ v13 \in [Codes -> Pair!Outcomes \cup {"over", "expired", "unknown"}]
  /\ v14 \in [Devices -> [doing : {"idle", "register", "revoke"},
                          told : {"none", "in", "out", "refused", "unsaved", "lost"}]]
  /\ v15 \in [Codes -> SUBSET Devices]

\* The registrations in memory are on disk; the one being saved is not yet in
\* memory, the one being taken out no more.
FileInv ==
  /\ v3 <=> v1 = None
  /\ v1 # None => v4 \subseteq v1
  /\ v3 => v4 = {}
  /\ ~v2 => v8 = <<>>
  /\ v9 # "waits" => /\ v8 # <<>> /\ ~v3 /\ v8[1].op # "cancel" /\ v8[1].key \notin v4
  /\ v9 = "saved" => v1 = Pair!Written

\* A phone that has been told is in, or out; and nothing that it asked for waits.
PhoneInv ==
  \A k \in Devices :
    /\ v14[k].doing = "idle" /\ v14[k].told \in {"in", "out"} =>
         ~v3 /\ \A i \in 1..Len(v8) : v8[i].key # k
    /\ v14[k].doing = "idle" /\ v14[k].told = "in" => k \in v4
    /\ v14[k].doing = "idle" /\ v14[k].told = "out" => k \notin v4 /\ k \notin v1
    /\ \A i \in 1..Len(v8) : v8[i].key = k /\ v8[i].awaited =>
         v14[k].doing # "idle" /\ \A j \in 1..Len(v8) : i < j => v8[j].key # k

\* A device is being registered with code c.
Saving(c) == v8 # <<>> /\ v9 # "waits" /\ v8[1].code = c
\* No device was registered with it, and none will be.
Void(c) == v15[c] = {} /\ c \notin v5 /\ ~Saving(c)

CodeInv ==
  \A c \in Codes :
    /\ v12[c] = "idle" => /\ c \notin v5 /\ v15[c] = {} /\ v7[c] = "none" /\ v13[c] = "none"
                          /\ \A i \in 1..Len(v8) : v8[i].code # c
    /\ v15[c] = {} \/ \E k \in Devices : v15[c] = {k}
    /\ c \in v5 => v15[c] = {}
    /\ Saving(c) => v15[c] = {} /\ c \notin v5 /\ v7[c] = "registering"
    /\ v7[c] \in {"cancelled", "failed"} \/ v13[c] \in {"cancelled", "failed"} => Void(c)
    /\ v7[c] \in {"registered", "already"} \/ v13[c] \in {"registered", "already"} => v15[c] # {}

PairInv == PairTypes /\ FileInv /\ PhoneInv /\ CodeInv

LEMMA Joined ==
  ASSUME NEW S, NEW s \in Seq(S), NEW o \in S, NEW t, t = Append(s, o)
  PROVE  /\ t \in Seq(S) /\ Len(t) = Len(s) + 1 /\ Len(s) \in Nat /\ t # <<>>
         /\ t[Len(s) + 1] = o /\ \A i \in 1..Len(s) : t[i] = s[i]
         /\ s # <<>> => t[1] = s[1]
OBVIOUS

LEMMA Gone ==
  ASSUME NEW S, NEW s \in Seq(S), s # <<>>, NEW t, t = Tail(s)
  PROVE  /\ t \in Seq(S) /\ Len(t) = Len(s) - 1 /\ Len(s) \in Nat /\ Len(s) >= 1
         /\ Head(s) = s[1] /\ s[1] \in S /\ \A i \in 1..Len(t) : t[i] = s[i + 1]
OBVIOUS

LEMMA InitPair == Pair!Init => PairInv
<1> SUFFICES ASSUME Pair!Init PROVE PairInv
  OBVIOUS
<1> USE DEF Pair!Init, Pair!NoCode
<1>1. PairTypes
  BY DEF PairTypes, Pair!Outcomes, Stages
<1>2. FileInv
  BY PairingAssumption DEF FileInv, Pair!PairingAssumption
<1>3. PhoneInv
  BY DEF PhoneInv
<1>4. CodeInv
  BY DEF CodeInv, Saving, Void
<1> QED
  BY <1>1, <1>2, <1>3, <1>4 DEF PairInv

\* A phone, or nyan pair, asks for something.
LEMMA AskStep ==
  ASSUME PairInv, NEW o \in Operations, Pair!Enqueue(o), v1' = v1, v2' = v2, v3' = v3, v4' = v4, v5' = v5,
         v7' = v7, v9' = v9, v13' = v13, v15' = v15, v12' \in [Codes -> Stages],
         \A c \in Codes : v12'[c] = "idle" => v12[c] = "idle" /\ o.code # c,
         \/ o.op = "cancel" /\ v14' = v14
         \/ /\ o.op # "cancel" /\ v14[o.key].doing = "idle"
            /\ \E d \in {"register", "revoke"} : v14' = [v14 EXCEPT ![o.key].doing = d]
  PROVE  PairInv'
<1>1. /\ v2 /\ v8' \in Seq(Operations) /\ Len(v8') = Len(v8) + 1 /\ Len(v8) \in Nat /\ v8' # <<>>
      /\ v8'[Len(v8) + 1] = o /\ \A i \in 1..Len(v8) : v8'[i] = v8[i]
      /\ v8 # <<>> => v8'[1] = v8[1] /\ Head(v8') = v8'[1] /\ Head(v8) = v8[1]
  BY Joined DEF Pair!Enqueue, PairInv, PairTypes
<1>2. PairTypes'
  <2>1. v14' \in [Devices -> [doing : {"idle", "register", "revoke"},
                             told : {"none", "in", "out", "refused", "unsaved", "lost"}]]
    <3>1. CASE o.op = "cancel"
      BY <3>1 DEF PairInv, PairTypes
    <3>2. CASE o.op # "cancel"
      <4>1. PICK d \in {"register", "revoke"} : v14' = [v14 EXCEPT ![o.key].doing = d]
        BY <3>2
      <4>2. o.key \in Devices
        BY <3>2 DEF Operations
      <4>3. v14 \in [Devices -> [doing : {"idle", "register", "revoke"},
                                 told : {"none", "in", "out", "refused", "unsaved", "lost"}]]
        BY DEF PairInv, PairTypes
      <4> DEFINE r == [v14[o.key] EXCEPT !.doing = d]
      <4>4. r \in [doing : {"idle", "register", "revoke"},
                   told : {"none", "in", "out", "refused", "unsaved", "lost"}]
        BY <4>2, <4>3
      <4>5. v14' = [v14 EXCEPT ![o.key] = r]
        BY <4>1
      <4> QED
        BY <4>2, <4>3, <4>4, <4>5
    <3> QED
      BY <3>1, <3>2
  <2> QED
    BY <1>1, <2>1 DEF PairInv, PairTypes
<1>3. FileInv'
  BY <1>1 DEF PairInv, FileInv, Pair!Written
<1>4. PhoneInv'
  <2> SUFFICES ASSUME NEW k \in Devices PROVE PhoneInv!(k)'
    BY DEF PhoneInv
  <2>0. PhoneInv!(k) /\ k # None /\ o.key \in Devices \cup {None}
    BY PairingAssumption DEF PairInv, PhoneInv, Operations, Pair!PairingAssumption
  <2>1. CASE o.key # k
    <3>1. v14'[k] = v14[k]
      BY <2>1 DEF PairInv, PairTypes, Operations
    <3> QED
      BY <1>1, <2>0, <2>1, <3>1
  <2>2. CASE o.key = k
    <3>1. v14[k].doing = "idle" /\ v14'[k].doing # "idle" /\ o.op # "cancel"
      BY <2>0, <2>2 DEF PairInv, PairTypes, Operations
    <3> QED
      BY <1>1, <2>0, <2>2, <3>1
  <2> QED
    BY <2>1, <2>2
<1>5. CodeInv'
  BY <1>1 DEF PairInv, CodeInv, Saving, Void, FileInv
<1> QED
  BY <1>2, <1>3, <1>4, <1>5 DEF PairInv


Phones == [doing : {"idle", "register", "revoke"}, told : {"none", "in", "out", "refused", "unsaved", "lost"}]

\* The first of the queue.
LEMMA First ==
  ASSUME PairInv, v8 # <<>>
  PROVE  /\ Head(v8) = v8[1] /\ v8[1] \in Operations /\ Len(v8) \in Nat /\ 1 \in 1..Len(v8)
         /\ Pair!Dequeue => /\ v8' \in Seq(Operations) /\ Len(v8') = Len(v8) - 1 /\ v9' = "waits"
                            /\ \A i \in 1..Len(v8') : i + 1 \in 1..Len(v8) /\ v8'[i] = v8[i + 1]
<1>1. v8 \in Seq(Operations)
  BY DEF PairInv, PairTypes
<1>2. Head(v8) = v8[1] /\ v8[1] \in Operations /\ Len(v8) \in Nat /\ Len(v8) >= 1
  BY <1>1
<1>3. ASSUME Pair!Dequeue
      PROVE  /\ v8' \in Seq(Operations) /\ Len(v8') = Len(v8) - 1 /\ v9' = "waits"
             /\ \A i \in 1..Len(v8') : i + 1 \in 1..Len(v8) /\ v8'[i] = v8[i + 1]
  BY <1>1, <1>3, Gone DEF Pair!Dequeue
<1> QED
  BY <1>2, <1>3

\* Who asked first is told, if it still waits: others hear what they heard.
LEMMA TellStep ==
  ASSUME PairInv, v8 # <<>>, v8[1].op # "cancel", Pair!Dequeue,
         NEW t \in {"in", "out", "refused", "unsaved"}, Pair!Tell(Head(v8).key, t), v3' = v3,
         \A k \in Devices \ {v8[1].key} : /\ k \in v4 => k \in v4'
                                          /\ ~v3 /\ k \notin v4 /\ k \notin v1 => k \notin v4' /\ k \notin v1',
         t = "in" => ~v3 /\ v8[1].key \in v4',
         t = "out" => ~v3 /\ v8[1].key \notin v4' /\ v8[1].key \notin v1'
  PROVE  PhoneInv' /\ v14' \in [Devices -> Phones]
<1> DEFINE h == v8[1].key
<1>1. /\ Head(v8) = v8[1] /\ h \in Devices /\ Len(v8) \in Nat /\ 1 \in 1..Len(v8)
      /\ Len(v8') = Len(v8) - 1 /\ \A i \in 1..Len(v8') : i + 1 \in 1..Len(v8) /\ v8'[i] = v8[i + 1]
  BY First DEF Operations
<1>2. v14 \in [Devices -> Phones]
  BY DEF PairInv, PairTypes, Phones
<1>3. v14' = IF v8[1].awaited THEN [v14 EXCEPT ![h] = [doing |-> "idle", told |-> t]] ELSE v14
  BY <1>1 DEF Pair!Tell
<1>4. v14' \in [Devices -> Phones]
  BY <1>1, <1>2, <1>3 DEF Phones
<1>5. ASSUME NEW k \in Devices PROVE PhoneInv!(k)'
  <2>0. PhoneInv!(k)
    BY DEF PairInv, PhoneInv
  <2>1. CASE k # h
    <3>1. v14'[k] = v14[k]
      BY <1>1, <1>2, <1>3, <2>1
    <3>2. \A i \in 1..Len(v8') : v8'[i].key = k => i + 1 \in 1..Len(v8) /\ v8[i + 1].key = k
      BY <1>1
    <3>3. \A i \in 1..Len(v8') : v8'[i].key = k /\ v8'[i].awaited =>
             v14[k].doing # "idle" /\ \A j \in 1..Len(v8') : i < j => v8'[j].key # k
      BY <1>1, <2>0
    <3> QED
      BY <1>1, <2>0, <2>1, <3>1, <3>2, <3>3
  <2>2. CASE k = h /\ v8[1].awaited
    <3>1. v14'[k] = [doing |-> "idle", told |-> t]
      BY <1>1, <1>2, <1>3, <2>2
    <3>2. \A i \in 1..Len(v8') : v8'[i].key # k
      BY <1>1, <2>0, <2>2
    <3> QED
      BY <2>2, <3>1, <3>2
  <2>3. CASE k = h /\ ~v8[1].awaited
    <3>1. v14'[k] = v14[k]
      BY <1>1, <1>2, <1>3, <2>3
    <3>2. ~(v14[k].doing = "idle" /\ v14[k].told \in {"in", "out"})
      BY <1>1, <2>0, <2>3
    <3>3. \A i \in 1..Len(v8') : v8'[i].key = k /\ v8'[i].awaited =>
             v14[k].doing # "idle" /\ \A j \in 1..Len(v8') : i < j => v8'[j].key # k
      BY <1>1, <2>0
    <3> QED
      BY <3>1, <3>2, <3>3
  <2> QED
    BY <2>1, <2>2, <2>3
<1> QED
  BY <1>4, <1>5 DEF PhoneInv

\* A code that a step does not concern.
LEMMA OtherCode ==
  ASSUME PairInv, NEW d \in Codes, v7'[d] = v7[d], d \in v5' <=> d \in v5, v15'[d] = v15[d],
         v12'[d] = v12[d], v13'[d] = v13[d], Saving(d)' => Saving(d),
         \A i \in 1..Len(v8') : v8'[i].code = d => \E j \in 1..Len(v8) : v8[j].code = d
  PROVE  CodeInv!(d)'
BY DEF PairInv, CodeInv, Void

\* The next of the queue: what waited for codes and phones was in it before.
LEMMA RegisterStep ==
  ASSUME PairInv, Pair!Register
  PROVE  PairInv'
<1> DEFINE k == v8[1].key
           c == v8[1].code
<1>0. /\ v2 /\ v8 # <<>> /\ Head(v8) = v8[1] /\ v8[1].op = "register" /\ v9 = "waits" /\ k \in Devices
      /\ c \in Codes /\ Len(v8) \in Nat /\ 1 \in 1..Len(v8)
      /\ v1' = v1 /\ v2' = v2 /\ v3' = v3 /\ v12' = v12 /\ v13' = v13
  BY First DEF Pair!Register, Pair!Under, Operations
<1> USE DEF Pair!Consumed, Pair!Taken, Pair!Registering
<1>1. CASE v3 \/ c \notin v5 \/ ~v8[1].early
  <2>1. Pair!Dequeue /\ Pair!Tell(k, "refused") /\ v4' = v4 /\ v5' = v5 /\ v7' = v7 /\ v15' = v15
    BY <1>0, <1>1 DEF Pair!Register
  <2>2. PhoneInv' /\ v14' \in [Devices -> Phones]
    BY <1>0, <2>1, TellStep
  <2>3. PairTypes'
    BY <1>0, <2>1, <2>2, First DEF PairInv, PairTypes, Phones
  <2>4. FileInv'
    BY <1>0, <2>1, First DEF PairInv, FileInv
  <2>5. CodeInv'
    BY <1>0, <2>1, First DEF PairInv, CodeInv, Saving, Void
  <2> QED
    BY <2>2, <2>3, <2>4, <2>5 DEF PairInv
<1>2. CASE ~(v3 \/ c \notin v5 \/ ~v8[1].early) /\ k \in v4
  <2>1. /\ Pair!Dequeue /\ Pair!Tell(k, "in") /\ v4' = v4 /\ v5' = v5 \ {c}
        /\ v7' = [v7 EXCEPT ![c] = "already"] /\ v15' = [v15 EXCEPT ![c] = @ \cup {k}]
    BY <1>0, <1>2 DEF Pair!Register
  <2>2. PhoneInv' /\ v14' \in [Devices -> Phones]
    BY <1>0, <1>2, <2>1, TellStep
  <2>3. PairTypes'
    BY <1>0, <2>1, <2>2, First DEF PairInv, PairTypes, Phones, Pair!Outcomes
  <2>4. FileInv'
    BY <1>0, <2>1, First DEF PairInv, FileInv
  <2>5. v15[c] = {} /\ v12[c] # "idle" /\ v7[c] \notin {"cancelled", "failed"} /\ v13[c] \notin {"cancelled", "failed"}
    BY <1>0, <1>2 DEF PairInv, CodeInv, Void
  <2>6. v15' = [v15 EXCEPT ![c] = {k}]
    BY <2>1, <2>5
  <2>7. ASSUME NEW d \in Codes PROVE CodeInv!(d)'
    <3>0. CodeInv!(c) /\ v7 \in [Codes -> Pair!Outcomes] /\ v15 \in [Codes -> SUBSET Devices] /\ ~Saving(d)'
      BY <2>1, First, <1>0 DEF PairInv, CodeInv, PairTypes, Saving
    <3>1. CASE d = c
      <4>1. v7'[d] = "already" /\ v15'[d] = {k} /\ v12'[d] # "idle" /\ d \notin v5'
        BY <1>0, <2>1, <2>5, <2>6, <3>0, <3>1
      <4> QED
        BY <1>0, <2>5, <3>0, <3>1, <4>1
    <3>2. CASE d # c
      <4>1. \A i \in 1..Len(v8') : v8'[i].code = d => \E j \in 1..Len(v8) : v8[j].code = d
        BY <1>0, <2>1, First
      <4> QED
        BY <1>0, <2>1, <2>6, <3>0, <3>2, <4>1, OtherCode
    <3> QED
      BY <3>1, <3>2
  <2> QED
    BY <2>2, <2>3, <2>4, <2>7 DEF PairInv, CodeInv
<1>3. CASE ~(v3 \/ c \notin v5 \/ ~v8[1].early) /\ k \notin v4
  <2>1. /\ v5' = v5 \ {c} /\ v7' = [v7 EXCEPT ![c] = "registering"] /\ v9' = "saves" /\ v4' = v4
        /\ v8' = v8 /\ v14' = v14 /\ v15' = v15
    BY <1>0, <1>3 DEF Pair!Register
  <2>2. PairTypes'
    BY <1>0, <2>1 DEF PairInv, PairTypes, Pair!Outcomes
  <2>3. FileInv' /\ PhoneInv'
    BY <1>0, <1>3, <2>1 DEF PairInv, FileInv, PhoneInv
  <2>4. v15[c] = {} /\ v12[c] # "idle" /\ v7[c] \notin {"cancelled", "failed"} /\ v13[c] \notin {"cancelled", "failed"}
    BY <1>0, <1>3 DEF PairInv, CodeInv, Void
  <2>5. ASSUME NEW d \in Codes PROVE CodeInv!(d)'
    <3>0. CodeInv!(d) /\ v7 \in [Codes -> Pair!Outcomes]
      BY DEF PairInv, CodeInv, PairTypes
    <3>1. CASE d = c
      <4>1. v7'[d] = "registering" /\ d \notin v5' /\ v15'[d] = {} /\ v12'[d] # "idle" /\ Saving(d)'
        BY <1>0, <2>1, <2>4, <3>0, <3>1 DEF Saving
      <4> QED
        BY <1>0, <2>1, <2>4, <3>0, <3>1, <4>1 DEF Void
    <3>2. CASE d # c
      <4>1. v7'[d] = v7[d] /\ (d \in v5' <=> d \in v5) /\ ~Saving(d)' /\ ~Saving(d)
        BY <1>0, <2>1, <3>0, <3>2 DEF Saving
      <4> QED
        BY <1>0, <2>1, <3>0, <4>1 DEF Void
    <3> QED
      BY <3>1, <3>2
  <2> QED
    BY <2>2, <2>3, <2>5 DEF PairInv, CodeInv
<1> QED
  BY <1>1, <1>2, <1>3

\* What a queue that has lost its first has of a code, it had before.
LEMMA FewerOfCode ==
  ASSUME PairInv, v8 # <<>>, Pair!Dequeue, NEW d \in Codes
  PROVE  /\ ~Saving(d)'
         /\ \A i \in 1..Len(v8') : v8'[i].code = d => \E j \in 1..Len(v8) : v8[j].code = d
BY First DEF Saving

\* The codes are as they were, and so is what they stand for.
LEMMA SameCodes ==
  ASSUME PairInv, v5' = v5, v7' = v7, v12' = v12, v13' = v13, v15' = v15,
         \A d \in Codes : Saving(d)' => Saving(d),
         \A d \in Codes : \A i \in 1..Len(v8') : v8'[i].code = d => \E j \in 1..Len(v8) : v8[j].code = d
  PROVE  CodeInv'
BY OtherCode DEF CodeInv

LEMMA RevokeStep ==
  ASSUME PairInv, Pair!Revoke
  PROVE  PairInv'
<1> DEFINE k == v8[1].key
<1>0. /\ v2 /\ v8 # <<>> /\ Head(v8) = v8[1] /\ v8[1].op = "revoke" /\ v9 = "waits" /\ k \in Devices
      /\ v8[1].code = None /\ Len(v8) \in Nat /\ 1 \in 1..Len(v8)
      /\ v1' = v1 /\ v2' = v2 /\ v3' = v3 /\ v5' = v5 /\ v7' = v7 /\ v12' = v12 /\ v13' = v13 /\ v15' = v15
  BY First DEF Pair!Revoke, Pair!Under, Operations, Pair!histVars
<1>1. CASE v3 \/ k \notin v4
  <2>1. Pair!Dequeue /\ Pair!Tell(k, "refused") /\ v4' = v4
    BY <1>0, <1>1 DEF Pair!Revoke
  <2>2. PhoneInv' /\ v14' \in [Devices -> Phones]
    BY <1>0, <2>1, TellStep
  <2>3. PairTypes'
    BY <1>0, <2>1, <2>2, First DEF PairInv, PairTypes, Phones
  <2>4. FileInv'
    BY <1>0, <2>1, First DEF PairInv, FileInv
  <2>5. CodeInv'
    BY <1>0, <2>1, FewerOfCode, SameCodes
  <2> QED
    BY <2>2, <2>3, <2>4, <2>5 DEF PairInv
<1>2. CASE ~v3 /\ k \in v4
  <2>1. v4' = v4 \ {k} /\ v9' = "saves" /\ v8' = v8 /\ v14' = v14
    BY <1>0, <1>2 DEF Pair!Revoke
  <2>2. PairTypes'
    BY <1>0, <2>1 DEF PairInv, PairTypes
  <2>3. FileInv'
    BY <1>0, <1>2, <2>1 DEF PairInv, FileInv
  <2>4. PhoneInv'
    BY <1>0, <2>1 DEF PairInv, PhoneInv
  <2>5. \A d \in Codes : ~Saving(d)'
    BY <1>0, <2>1, PairingAssumption DEF Saving, Pair!PairingAssumption
  <2>6. CodeInv'
    BY <1>0, <2>1, <2>5, SameCodes
  <2> QED
    BY <2>2, <2>3, <2>4, <2>6 DEF PairInv
<1> QED
  BY <1>1, <1>2

LEMMA WriteStep ==
  ASSUME PairInv, Pair!Write
  PROVE  PairInv'
<1>0. /\ v2 /\ v8 # <<>> /\ Head(v8) = v8[1] /\ v8[1] \in Operations /\ v9 = "saves" /\ v9' = "saved"
      /\ v8[1].op # "cancel" /\ v8[1].key \in Devices /\ v8[1].key \notin v4 /\ ~v3
      /\ v1' = Pair!Written /\ Pair!Written' = Pair!Written /\ Len(v8) \in Nat /\ 1 \in 1..Len(v8)
      /\ v2' = v2 /\ v3' = v3 /\ v4' = v4 /\ v5' = v5 /\ v7' = v7 /\ v8' = v8 /\ v12' = v12 /\ v13' = v13
      /\ v14' = v14 /\ v15' = v15
  BY First DEF Pair!Write, Pair!Written, Operations, Pair!histVars, PairInv, FileInv
<1>1. /\ v4 \subseteq v1' /\ v1' \in SUBSET Devices /\ v1' # None
      /\ \A k \in v1' : k \in v4 \/ k = v8[1].key
  BY <1>0, PairingAssumption DEF Pair!Written, PairInv, PairTypes, Pair!PairingAssumption
<1>2. PairTypes'
  BY <1>0, <1>1 DEF PairInv, PairTypes
<1>3. FileInv'
  BY <1>0, <1>1 DEF PairInv, FileInv
<1>4. PhoneInv'
  BY <1>0, <1>1 DEF PairInv, PhoneInv
<1>5. CodeInv'
  BY <1>0, SameCodes DEF Saving
<1> QED
  BY <1>2, <1>3, <1>4, <1>5 DEF PairInv

LEMMA SavedStep ==
  ASSUME PairInv, Pair!Saved
  PROVE  PairInv'
<1> DEFINE k == v8[1].key
           c == v8[1].code
<1>0. /\ v2 /\ v8 # <<>> /\ Head(v8) = v8[1] /\ v8[1] \in Operations /\ v9 = "saved"
      /\ v8[1].op # "cancel" /\ k \in Devices /\ k \notin v4 /\ ~v3 /\ v1 = Pair!Written /\ v1 # None
      /\ Len(v8) \in Nat /\ 1 \in 1..Len(v8) /\ Pair!Dequeue
      /\ v1' = v1 /\ v2' = v2 /\ v3' = v3 /\ v5' = v5 /\ v12' = v12 /\ v13' = v13
  BY First DEF Pair!Saved, Operations, PairInv, FileInv
<1>1. CASE v8[1].op = "register"
  <2>1. /\ v4' = v4 \cup {k} /\ v1 = v4 \cup {k} /\ v7' = [v7 EXCEPT ![c] = "registered"]
        /\ v15' = [v15 EXCEPT ![c] = @ \cup {k}] /\ Pair!Tell(k, "in") /\ c \in Codes
    BY <1>0, <1>1 DEF Pair!Saved, Pair!Written, Operations
  <2>2. PhoneInv' /\ v14' \in [Devices -> Phones]
    BY <1>0, <2>1, TellStep
  <2>3. PairTypes'
    BY <1>0, <2>1, <2>2, First DEF PairInv, PairTypes, Phones, Pair!Outcomes
  <2>4. FileInv'
    BY <1>0, <2>1, First DEF PairInv, FileInv
  <2>5. v15[c] = {} /\ c \notin v5 /\ v12[c] # "idle" /\ v13[c] \notin {"cancelled", "failed"}
    BY <1>0, <2>1 DEF PairInv, CodeInv, Void, Saving
  <2>6. v15' = [v15 EXCEPT ![c] = {k}]
    BY <2>1, <2>5
  <2>7. ASSUME NEW d \in Codes PROVE CodeInv!(d)'
    <3>0. CodeInv!(c) /\ v7 \in [Codes -> Pair!Outcomes] /\ v15 \in [Codes -> SUBSET Devices] /\ ~Saving(d)'
      BY <2>1, First, <1>0 DEF PairInv, CodeInv, PairTypes, Saving
    <3>1. CASE d = c
      <4>1. v7'[d] = "registered" /\ v15'[d] = {k} /\ v12'[d] # "idle" /\ d \notin v5'
        BY <1>0, <2>1, <2>5, <2>6, <3>0, <3>1
      <4> QED
        BY <1>0, <2>5, <3>0, <3>1, <4>1
    <3>2. CASE d # c
      <4>1. \A i \in 1..Len(v8') : v8'[i].code = d => \E j \in 1..Len(v8) : v8[j].code = d
        BY <1>0, FewerOfCode
      <4> QED
        BY <1>0, <2>1, <2>6, <3>0, <3>2, <4>1, OtherCode
    <3> QED
      BY <3>1, <3>2
  <2> QED
    BY <2>2, <2>3, <2>4, <2>7 DEF PairInv, CodeInv
<1>2. CASE v8[1].op # "register"
  <2>1. v4' = v4 /\ v1 = v4 /\ v7' = v7 /\ v15' = v15 /\ Pair!Tell(k, "out")
    BY <1>0, <1>2 DEF Pair!Saved, Pair!Written
  <2>2. PhoneInv' /\ v14' \in [Devices -> Phones]
    BY <1>0, <2>1, TellStep
  <2>3. PairTypes'
    BY <1>0, <2>1, <2>2, First DEF PairInv, PairTypes, Phones
  <2>4. FileInv'
    BY <1>0, <2>1, First DEF PairInv, FileInv
  <2>5. CodeInv'
    BY <1>0, <2>1, FewerOfCode, SameCodes
  <2> QED
    BY <2>2, <2>3, <2>4, <2>5 DEF PairInv
<1> QED
  BY <1>1, <1>2

LEMMA SaveFailsStep ==
  ASSUME PairInv, Pair!SaveFails
  PROVE  PairInv'
<1> DEFINE k == v8[1].key
           c == v8[1].code
<1>0. /\ v2 /\ v8 # <<>> /\ Head(v8) = v8[1] /\ v8[1] \in Operations /\ v9 = "saves"
      /\ v8[1].op # "cancel" /\ k \in Devices /\ k \notin v4 /\ ~v3 /\ Pair!Tell(k, "unsaved")
      /\ Len(v8) \in Nat /\ 1 \in 1..Len(v8) /\ Pair!Dequeue
      /\ v1' = v1 /\ v2' = v2 /\ v3' = v3 /\ v4' = v4 /\ v5' = v5 /\ v12' = v12 /\ v13' = v13 /\ v15' = v15
  BY First DEF Pair!SaveFails, Operations, PairInv, FileInv, Pair!histVars
<1>2. PhoneInv' /\ v14' \in [Devices -> Phones]
  BY <1>0, TellStep
<1>3. PairTypes'
  BY <1>0, <1>2, First DEF Pair!SaveFails, PairInv, PairTypes, Phones, Pair!Outcomes
<1>4. FileInv'
  BY <1>0, First DEF PairInv, FileInv
<1>5. CASE v8[1].op = "register"
  <2>1. v7' = [v7 EXCEPT ![c] = "failed"] /\ c \in Codes /\ Saving(c)
    BY <1>0, <1>5 DEF Pair!SaveFails, Operations, Saving
  <2>2. v15[c] = {} /\ c \notin v5 /\ v12[c] # "idle" /\ v13[c] \notin {"registered", "already"}
    BY <1>0, <2>1 DEF PairInv, CodeInv, Saving
  <2>3. ASSUME NEW d \in Codes PROVE CodeInv!(d)'
    <3>0. CodeInv!(c) /\ v7 \in [Codes -> Pair!Outcomes] /\ ~Saving(d)'
      BY <2>1, <1>0, FewerOfCode DEF PairInv, CodeInv, PairTypes
    <3>1. CASE d = c
      BY <1>0, <2>1, <2>2, <3>0, <3>1 DEF Void
    <3>2. CASE d # c
      BY <1>0, <2>1, <3>0, <3>2, FewerOfCode, OtherCode
    <3> QED
      BY <3>1, <3>2
  <2> QED
    BY <1>2, <1>3, <1>4, <2>3 DEF PairInv, CodeInv
<1>6. CASE v8[1].op # "register"
  <2>1. CodeInv'
    BY <1>0, <1>6, FewerOfCode, SameCodes DEF Pair!SaveFails
  <2> QED
    BY <1>2, <1>3, <1>4, <2>1 DEF PairInv
<1> QED
  BY <1>5, <1>6

\* No phone waits for what leaves the queue.
LEMMA FewerOfPhones ==
  ASSUME PairInv, v8 # <<>>, Pair!Dequeue, v1' = v1, v3' = v3, v4' = v4, v14' = v14
  PROVE  PhoneInv'
<1> SUFFICES ASSUME NEW k \in Devices PROVE PhoneInv!(k)'
  BY DEF PhoneInv
<1>1. /\ PhoneInv!(k) /\ Len(v8) \in Nat /\ Len(v8') = Len(v8) - 1
      /\ \A i \in 1..Len(v8') : i + 1 \in 1..Len(v8) /\ v8'[i] = v8[i + 1]
  BY First DEF PairInv, PhoneInv
<1>2. ASSUME NEW i \in 1..Len(v8'), v8'[i].key = k, v8'[i].awaited
      PROVE  v14[k].doing # "idle" /\ \A j \in 1..Len(v8') : i < j => v8'[j].key # k
  <2>1. i + 1 \in 1..Len(v8) /\ v8[i + 1].key = k /\ v8[i + 1].awaited
    BY <1>1, <1>2
  <2>2. v14[k].doing # "idle" /\ \A j \in 1..Len(v8) : i + 1 < j => v8[j].key # k
    BY <1>1, <2>1
  <2>3. ASSUME NEW j \in 1..Len(v8'), i < j PROVE v8'[j].key # k
    BY <1>1, <2>2, <2>3
  <2> QED
    BY <2>2, <2>3
<1> QED
  BY <1>1, <1>2

LEMMA CancelStep ==
  ASSUME PairInv, Pair!Cancel
  PROVE  PairInv'
<1> DEFINE c == v8[1].code
           hit == c \in v5 /\ v8[1].early
<1>0. /\ v2 /\ v8 # <<>> /\ Head(v8) = v8[1] /\ v8[1] \in Operations /\ c \in Codes
      /\ Len(v8) \in Nat /\ 1 \in 1..Len(v8) /\ Pair!Dequeue
      /\ v1' = v1 /\ v2' = v2 /\ v3' = v3 /\ v4' = v4 /\ v14' = v14 /\ v15' = v15
      /\ v5' = v5 \ (IF hit THEN {c} ELSE {})
      /\ v7' = IF hit THEN [v7 EXCEPT ![c] = "cancelled"] ELSE v7
      /\ \/ v12' = v12 /\ v13' = v13
         \/ /\ v12' = [v12 EXCEPT ![c] = "gone"]
            /\ v13' = [v13 EXCEPT ![c] = IF hit THEN "cancelled" ELSE "over"]
  BY First DEF Pair!Cancel, Pair!Under, Operations, Pair!histVars
<1>1. PhoneInv'
  BY <1>0, FewerOfPhones
<1>2. PairTypes'
  <2>1. v8' \in Seq(Operations) /\ v9' = "waits"
    BY <1>0, First
  <2>2. v7' \in [Codes -> Pair!Outcomes] /\ v12' \in [Codes -> Stages] /\ v5' \in SUBSET Codes
    BY <1>0 DEF PairInv, PairTypes, Pair!Outcomes, Stages
  <2>3. v13' \in [Codes -> Pair!Outcomes \cup {"over", "expired", "unknown"}]
    BY <1>0 DEF PairInv, PairTypes, Pair!Outcomes
  <2> QED
    BY <1>0, <2>1, <2>2, <2>3 DEF PairInv, PairTypes
<1>3. FileInv'
  BY <1>0, First DEF PairInv, FileInv
<1>4. ASSUME NEW d \in Codes PROVE CodeInv!(d)'
  <2>0. /\ CodeInv!(c) /\ v7 \in [Codes -> Pair!Outcomes] /\ ~Saving(d)'
        /\ v12 \in [Codes -> Stages] /\ v13 \in [Codes -> Pair!Outcomes \cup {"over", "expired", "unknown"}]
    BY <1>0, FewerOfCode DEF PairInv, CodeInv, PairTypes
  <2>1. CASE d # c
    <3>1. v7'[d] = v7[d] /\ (d \in v5' <=> d \in v5) /\ v12'[d] = v12[d] /\ v13'[d] = v13[d]
      BY <1>0, <2>0, <2>1
    <3> QED
      BY <1>0, <2>0, <3>1, FewerOfCode, OtherCode
  <2>2. CASE d = c
    <3>1. v12[c] # "idle" /\ v12'[c] # "idle"
      BY <1>0, <2>0
    <3>2. CASE hit
      <4>1. v15[c] = {} /\ v7'[c] = "cancelled" /\ c \notin v5' /\ v13'[c] \in {v13[c], "cancelled"}
        BY <1>0, <2>0, <3>2
      <4> QED
        BY <1>0, <2>0, <2>2, <3>1, <4>1 DEF Void
    <3>3. CASE ~hit
      <4>1. v7'[c] = v7[c] /\ v5' = v5 /\ v13'[c] \in {v13[c], "over"}
        BY <1>0, <2>0, <3>3
      <4> QED
        BY <1>0, <2>0, <2>2, <3>1, <4>1 DEF Void
    <3> QED
      BY <3>2, <3>3
  <2> QED
    BY <2>1, <2>2
<1> QED
  BY <1>1, <1>2, <1>3, <1>4 DEF PairInv, CodeInv

LEMMA StopStep ==
  ASSUME PairInv, Pair!Stop \/ Pair!Start
  PROVE  PairInv'
<1>1. CASE Pair!Stop
  <2>1. /\ v8' = <<>> /\ v9' = "waits" /\ v2' = FALSE /\ v1' = v1 /\ v3' = v3 /\ v4' = v4 /\ v5' = v5
        /\ v7' = v7 /\ v13' = v13 /\ v15' = v15
        /\ v12' = [c \in Codes |-> IF v12[c] \in {"issuing", "stopping", "cancels"} THEN "gone" ELSE v12[c]]
        /\ v14' = [k \in Devices |-> IF v14[k].doing = "idle" THEN v14[k] ELSE [doing |-> "idle", told |-> "lost"]]
    BY <1>1 DEF Pair!Stop
  <2>2. PairTypes'
    <3>1. v14' \in [Devices -> Phones]
      BY <2>1 DEF PairInv, PairTypes, Phones
    <3>2. v12' \in [Codes -> Stages]
      BY <2>1 DEF PairInv, PairTypes, Stages
    <3>3. /\ v1 \in (SUBSET Devices) \cup {None} /\ v3 \in BOOLEAN /\ v4 \in SUBSET Devices
          /\ v5 \in SUBSET Codes /\ v7 \in [Codes -> Pair!Outcomes] /\ v15 \in [Codes -> SUBSET Devices]
          /\ v13 \in [Codes -> Pair!Outcomes \cup {"over", "expired", "unknown"}]
      BY DEF PairInv, PairTypes
    <3>4. v8' \in Seq(Operations)
      BY <2>1
    <3>5. v2' \in BOOLEAN
      BY <2>1
    <3> QED
      BY <2>1, <3>1, <3>2, <3>3, <3>4, <3>5 DEF PairTypes, Phones
  <2>3. FileInv'
    BY <2>1 DEF PairInv, FileInv
  <2>4. PhoneInv'
    BY <2>1 DEF PairInv, PhoneInv
  <2>5. CodeInv'
    BY <2>1 DEF PairInv, CodeInv, Saving, Void
  <2> QED
    BY <2>2, <2>3, <2>4, <2>5 DEF PairInv
<1>2. CASE Pair!Start
  <2>1. /\ v2' = TRUE /\ v1' = v1 /\ v3' = (v1 = None) /\ v4' = (IF v1 = None THEN {} ELSE v1) /\ v5' = {}
        /\ v7' = [c \in Codes |-> "none"] /\ v8' = <<>> /\ v9' = "waits"
        /\ v12' = v12 /\ v13' = v13 /\ v14' = v14 /\ v15' = v15
    BY <1>2 DEF Pair!Start, Pair!Loaded, Pair!NoCode, Pair!histVars
  <2>0. v3' <=> v1 = None
    BY <2>1
  <2>2. PairTypes'
    BY <2>0, <2>1 DEF PairInv, PairTypes, Pair!Outcomes
  <2>3. FileInv'
    BY <2>0, <2>1 DEF FileInv
  <2>4. PhoneInv'
    BY <2>0, <2>1 DEF PairInv, PhoneInv, FileInv
  <2>5. CodeInv'
    BY <2>1 DEF PairInv, CodeInv, Saving, Void
  <2> QED
    BY <2>2, <2>3, <2>4, <2>5 DEF PairInv
<1> QED
  BY <1>1, <1>2

\* The codes run out, are asked for and looked at; the queue is left alone.
LEMMA LookStep ==
  ASSUME PairInv, v1' = v1, v2' = v2, v3' = v3, v4' = v4, v8' = v8, v9' = v9, v14' = v14, v15' = v15,
         v7' = v7, PairTypes',
         \A d \in Codes :
           \/ v12'[d] = v12[d] /\ v13'[d] = v13[d] /\ (d \in v5' => d \in v5)
           \/ /\ v12'[d] # "idle" /\ v12[d] = "idle" /\ v13'[d] = v13[d]
           \/ /\ v12'[d] # "idle" /\ v12[d] # "idle" /\ v5' = v5
              /\ v13'[d] \in {v13[d], v7[d], "expired", "unknown"}
  PROVE  PairInv'
<1>1. FileInv' /\ PhoneInv'
  BY DEF PairInv, FileInv, PhoneInv, Pair!Written
<1>2. ASSUME NEW d \in Codes PROVE CodeInv!(d)'
  <2>0. CodeInv!(d) /\ (Saving(d)' <=> Saving(d)) /\ (Saving(d) => \E i \in 1..Len(v8) : v8[i].code = d)
    BY First DEF PairInv, CodeInv, Saving
  <2>1. CASE v12'[d] = v12[d] /\ v13'[d] = v13[d] /\ (d \in v5' => d \in v5)
    BY <2>0, <2>1 DEF Void
  <2>2. CASE v12'[d] # "idle" /\ v12[d] = "idle" /\ v13'[d] = v13[d]
    BY <2>0, <2>2 DEF Void
  <2>3. CASE v12'[d] # "idle" /\ v12[d] # "idle" /\ v5' = v5 /\ v13'[d] \in {v13[d], v7[d], "expired", "unknown"}
    BY <2>0, <2>3 DEF Void
  <2> QED
    BY <2>1, <2>2, <2>3
<1> QED
  BY <1>1, <1>2 DEF PairInv, CodeInv

LEMMA CodeStep ==
  ASSUME PairInv, NEW c \in Codes,
         \/ Pair!Expire(c) \/ Pair!Issue(c) \/ Pair!Issued(c) \/ Pair!CtrlC(c) \/ Pair!Poll(c) \/ Pair!LostContact(c)
  PROVE  PairInv'
<1> USE DEF Pair!agentVars, Pair!histVars
<1> DEFINE o == [op |-> "cancel", code |-> c, key |-> None, early |-> c \notin v6, awaited |-> TRUE]
<1>0. /\ o \in Operations /\ o.op = "cancel" /\ o.code = c
      /\ v12 \in [Codes -> Stages] /\ v13 \in [Codes -> Pair!Outcomes \cup {"over", "expired", "unknown"}]
      /\ v5 \in SUBSET Codes /\ v7 \in [Codes -> Pair!Outcomes]
  BY DEF Operations, PairInv, PairTypes
<1>1. CASE Pair!Expire(c)
  <2>1. PairTypes' /\ v12' = v12 /\ v13' = v13 /\ v5' = v5
    BY <1>1 DEF Pair!Expire, PairInv, PairTypes
  <2> QED
    BY <1>1, <2>1, LookStep DEF Pair!Expire
<1>2. CASE Pair!Issue(c)
  <2>1. v12' = [v12 EXCEPT ![c] = "issuing"] /\ v5' = (v5 \ v6) \cup {c} /\ v13' = v13 /\ v12[c] = "idle"
    BY <1>2 DEF Pair!Issue
  <2>2. PairTypes'
    BY <1>0, <1>2, <2>1 DEF Pair!Issue, PairInv, PairTypes, Stages
  <2>3. \A d \in Codes : IF d = c THEN v12'[d] = "issuing" ELSE v12'[d] = v12[d] /\ (d \in v5' => d \in v5)
    BY <1>0, <2>1
  <2> QED
    BY <1>2, <2>1, <2>2, <2>3, LookStep DEF Pair!Issue
<1>3. CASE (Pair!Issued(c) \/ Pair!CtrlC(c)) /\ v8' = v8
  <2>1. PICK s \in Stages \ {"idle"} : v12' = [v12 EXCEPT ![c] = s]
    BY <1>3 DEF Pair!Issued, Pair!CtrlC, Stages
  <2>2. v12[c] # "idle" /\ v13' = v13 /\ v5' = v5 /\ v7' = v7
    BY <1>3 DEF Pair!Issued, Pair!CtrlC
  <2>3. PairTypes'
    BY <1>0, <1>3, <2>1 DEF Pair!Issued, Pair!CtrlC, PairInv, PairTypes
  <2>4. \A d \in Codes : IF d = c THEN v12'[d] # "idle" ELSE v12'[d] = v12[d]
    BY <1>0, <2>1
  <2> QED
    BY <1>3, <2>2, <2>3, <2>4, LookStep DEF Pair!Issued, Pair!CtrlC
<1>4. CASE (Pair!Issued(c) \/ Pair!CtrlC(c)) /\ Pair!Enqueue(o)
  <2>1. PICK s \in Stages \ {"idle"} : v12' = [v12 EXCEPT ![c] = s]
    BY <1>4 DEF Pair!Issued, Pair!CtrlC, Stages
  <2>2. v12' \in [Codes -> Stages] /\ \A d \in Codes : v12'[d] = "idle" => v12[d] = "idle" /\ d # c
    BY <1>0, <2>1
  <2> QED
    BY <1>0, <1>4, <2>2, AskStep DEF Pair!Issued, Pair!CtrlC
<1>5. CASE Pair!Poll(c) \/ Pair!LostContact(c)
  <2>1. PICK t \in {v7[c], "expired", "unknown"} : v13' = [v13 EXCEPT ![c] = t]
    BY <1>5 DEF Pair!Poll, Pair!LostContact, Pair!Status
  <2>2. /\ v12[c] # "idle" /\ v12' = [v12 EXCEPT ![c] = "gone"] /\ v5' = v5 /\ v7' = v7
    BY <1>5 DEF Pair!Poll, Pair!LostContact
  <2>3. PairTypes'
    BY <1>0, <1>5, <2>1, <2>2 DEF Pair!Poll, Pair!LostContact, PairInv, PairTypes, Stages, Pair!Outcomes
  <2>4. \A d \in Codes : IF d = c THEN v12'[d] # "idle" /\ v13'[d] = t
                                  ELSE v12'[d] = v12[d] /\ v13'[d] = v13[d]
    BY <1>0, <2>1, <2>2
  <2> QED
    BY <1>5, <2>1, <2>2, <2>3, <2>4, LookStep DEF Pair!Poll, Pair!LostContact
<1> QED
  BY <1>1, <1>2, <1>3, <1>4, <1>5 DEF Pair!Issued, Pair!CtrlC

LEMMA PhoneStep ==
  ASSUME PairInv, NEW k \in Devices,
         \/ Pair!Unpair(k) \/ Pair!LoseAnswer(k) \/ \E c \in Codes : Pair!Scan(k, c)
  PROVE  PairInv'
<1> USE DEF Pair!histVars
<1>0. v12 \in [Codes -> Stages] /\ v14 \in [Devices -> Phones] /\ v8 \in Seq(Operations)
  BY DEF PairInv, PairTypes, Phones
<1>1. CASE Pair!Unpair(k)
  <2> DEFINE o == [op |-> "revoke", code |-> None, key |-> k, early |-> TRUE, awaited |-> TRUE]
  <2>1. o \in Operations /\ o.op = "revoke" /\ o.code = None /\ o.key = k
    BY DEF Operations
  <2>2. \A c \in Codes : c # None
    BY PairingAssumption DEF Pair!PairingAssumption
  <2> QED
    BY <1>0, <1>1, <2>1, <2>2, AskStep DEF Pair!Unpair
<1>2. ASSUME NEW c \in Codes, Pair!Scan(k, c) PROVE PairInv'
  <2> DEFINE o == [op |-> "register", code |-> c, key |-> k, early |-> c \notin v6, awaited |-> TRUE]
  <2>1. o \in Operations /\ o.op = "register" /\ o.code = c /\ o.key = k
    BY DEF Operations
  <2>2. v12[c] # "idle"
    BY <1>2 DEF Pair!Scan, Pair!Shown
  <2> QED
    BY <1>0, <1>2, <2>1, <2>2, AskStep DEF Pair!Scan
<1>3. CASE Pair!LoseAnswer(k)
  <2>1. /\ v14' = [v14 EXCEPT ![k] = [doing |-> "idle", told |-> "lost"]]
        /\ v8' = [i \in DOMAIN v8 |-> [v8[i] EXCEPT !.awaited = @ /\ v8[i].key # k]]
        /\ v1' = v1 /\ v2' = v2 /\ v3' = v3 /\ v4' = v4 /\ v5' = v5 /\ v7' = v7 /\ v9' = v9 /\ v12' = v12
        /\ v13' = v13 /\ v15' = v15
    BY <1>3 DEF Pair!LoseAnswer
  <2>2. Len(v8) \in Nat /\ DOMAIN v8 = 1..Len(v8) /\ \A i \in 1..Len(v8) : v8[i] \in Operations
    BY <1>0
  <2>3. ASSUME NEW i \in 1..Len(v8)
        PROVE  /\ v8'[i] \in Operations /\ v8'[i].op = v8[i].op /\ v8'[i].code = v8[i].code /\ v8'[i].key = v8[i].key
               /\ v8'[i].awaited => v8[i].awaited /\ v8[i].key # k
    <3> DEFINE b == v8[i].awaited /\ v8[i].key # k
    <3>1. v8'[i] = [v8[i] EXCEPT !.awaited = b]
      BY <2>1, <2>2
    <3>2. b \in BOOLEAN
      OBVIOUS
    <3>3. v8[i] \in Operations
      BY <2>2
    <3>4. v8'[i].awaited <=> b
      BY <3>1, <3>3 DEF Operations
    <3> HIDE DEF b
    <3>5. v8'[i] \in Operations /\ v8'[i].op = v8[i].op /\ v8'[i].code = v8[i].code /\ v8'[i].key = v8[i].key
      BY <3>1, <3>2, <3>3 DEF Operations
    <3> QED
      BY <3>4, <3>5 DEF b
  <2>4. v8' \in Seq(Operations) /\ Len(v8') = Len(v8)
    <3>1. v8' \in [1..Len(v8) -> Operations]
      BY <2>1, <2>2, <2>3
    <3> QED
      BY <2>2, <3>1
  <2>5. v14' \in [Devices -> Phones] /\ \A d \in Devices \ {k} : v14'[d] = v14[d]
    BY <1>0, <2>1 DEF Phones
  <2>6. PairTypes'
    BY <2>1, <2>4, <2>5 DEF PairInv, PairTypes, Phones
  <2>7. v8' # <<>> <=> v8 # <<>>
    BY <1>0, <2>4
  <2>8. FileInv'
    <3>1. v8 # <<>> => /\ Head(v8) = v8[1] /\ Head(v8') = v8'[1] /\ v8'[1].op = v8[1].op /\ v8'[1].key = v8[1].key
      <4>1. ASSUME v8 # <<>> PROVE 1 \in 1..Len(v8)
        BY <2>2, <1>0, <4>1
      <4> QED
        BY <1>0, <2>3, <2>4, <2>7, <4>1
    <3>2. v8 # <<>> => Pair!Written' = Pair!Written
      BY <2>1, <3>1 DEF Pair!Written
    <3> QED
      BY <2>1, <2>7, <3>1, <3>2 DEF PairInv, FileInv
  <2>9. PhoneInv'
    <3> SUFFICES ASSUME NEW d \in Devices PROVE PhoneInv!(d)'
      BY DEF PhoneInv
    <3>1. PhoneInv!(d)
      BY DEF PairInv, PhoneInv
    <3>2. \A i \in 1..Len(v8') : v8'[i].key = v8[i].key /\ (v8'[i].awaited => v8[i].awaited /\ v8[i].key # k)
      BY <2>3, <2>4
    <3>3. CASE d = k
      <4>1. v14'[d].told = "lost" /\ \A i \in 1..Len(v8') : v8'[i].key = d => ~v8'[i].awaited
        BY <1>0, <2>1, <3>2, <3>3
      <4> QED
        BY <4>1
    <3>4. CASE d # k
      <4>1. v14'[d] = v14[d]
        BY <2>5, <3>4
      <4> QED
        BY <2>1, <2>4, <3>1, <3>2, <4>1
    <3> QED
      BY <3>3, <3>4
  <2>10. CodeInv'
    <3>1. v8 # <<>> => 1 \in 1..Len(v8)
      BY <2>2, <1>0
    <3>2. \A d \in Codes : Saving(d)' => Saving(d)
      BY <2>1, <2>3, <2>7, <3>1 DEF Saving
    <3>3. \A d \in Codes : \A i \in 1..Len(v8') : v8'[i].code = d => v8[i].code = d /\ i \in 1..Len(v8)
      BY <2>3, <2>4
    <3> QED
      BY <2>1, <3>2, <3>3, SameCodes
  <2> QED
    BY <2>6, <2>8, <2>9, <2>10 DEF PairInv
<1> QED
  BY <1>1, <1>2, <1>3

LEMMA PairStep ==
  ASSUME PairInv, Pair!Next
  PROVE  PairInv'
BY RegisterStep, RevokeStep, WriteStep, SavedStep, SaveFailsStep, CancelStep, StopStep, CodeStep, PhoneStep
DEF Pair!Next

LEMMA PairCount ==
  ASSUME NEW S
  PROVE  Pair!Cardinality(S) = Cardinality(S)
BY DEF Pair!Cardinality, Cardinality

\* What nyan pair ends with, step by step: a registration that is being saved
\* has its code on record as one, so nobody is told that it has expired.
LEMMA TellsStep ==
  ASSUME PairInv, PairInv', Pair!Next \/ UNCHANGED v
  PROVE  Pair!TellsCodes
<1> SUFFICES ASSUME NEW c \in Codes PROVE Pair!TellsCodes!(c)
  BY DEF Pair!TellsCodes
<1>1. CodeInv!(c) /\ CodeInv!(c)'
  BY DEF PairInv, CodeInv
<1>2. Pair!Cardinality(v15'[c]) <= 1
  <2>1. CASE v15'[c] = {}
    BY <2>1, PairCount, FS_EmptySet
  <2>2. ASSUME NEW k \in Devices, v15'[c] = {k} PROVE Pair!Cardinality(v15'[c]) = 1
    BY <2>2, PairCount, FS_Singleton
  <2> QED
    BY <1>1, <2>1, <2>2
<1>3. /\ v13'[c] \in {"cancelled", "failed"} => v15'[c] = {}
      /\ v13'[c] \in {"registered", "already"} => v15'[c] # {}
  BY <1>1 DEF Void
<1>4. ASSUME v13'[c] = "expired", v13[c] # "expired"
      PROVE  ~(v8 # <<>> /\ v8[1].code = c /\ v9 # "waits")
  <2>1. v13 \in [Codes -> Pair!Outcomes \cup {"over", "expired", "unknown"}]
    BY DEF PairInv, PairTypes
  <2>2. Pair!Poll(c)
    BY <1>4, <2>1 DEF Pair!Next, Pair!Register, Pair!Revoke, Pair!Write, Pair!Saved, Pair!SaveFails, Pair!Cancel,
       Pair!Stop, Pair!Start, Pair!Expire, Pair!Issue, Pair!Issued, Pair!CtrlC, Pair!Poll, Pair!LostContact,
       Pair!Unpair, Pair!LoseAnswer, Pair!Scan, v
  <2>3. v7[c] # "registering"
    BY <2>2 DEF Pair!Poll, Pair!Status
  <2> QED
    BY <1>1, <2>3 DEF Saving
<1> QED
  BY <1>2, <1>3, <1>4

\* What is told of a registration is true: for any devices and codes, any
\* number of operations in the queue, of scans and of stops of the agent, with
\* answers that are lost and saves that fail (devices.ts, pair.mjs).
THEOREM PairedAsToldHolds == MCSpec => PairedAsTold
<1> DEFINE I == part = "pair" => PairInv
<1>1. MCInit => I
  BY InitPair DEF MCInit
<1>2. I /\ [MCNext]_<<part, v, vars>> => I' /\ (part = "pair" => Pair!TellsCodes)
  <2> SUFFICES ASSUME I, [MCNext]_<<part, v, vars>>, part = "pair"
               PROVE  PairInv' /\ Pair!TellsCodes
    BY DEF MCNext
  <2>1. CASE MCNext
    <3>1. Pair!Next
      BY <2>1 DEF MCNext
    <3> QED
      BY <3>1, PairStep, TellsStep
  <2>2. CASE UNCHANGED <<part, v, vars>>
    <3>1. PairInv'
      BY <2>2 DEF v, PairInv, PairTypes, FileInv, PhoneInv, CodeInv, Saving, Void, Pair!Written
    <3> QED
      BY <2>2, <3>1, TellsStep
  <2> QED
    BY <2>1, <2>2
<1>3. I => (part = "pair" => Pair!PhonesTold)
  BY DEF PairInv, PhoneInv, FileInv, Pair!PhonesTold
<1> HIDE DEF I
<1> QED
  BY <1>1, <1>2, <1>3, PTL DEF MCSpec, PairedAsTold

-----------------------------------------------------------------------------
(* Notifications, for any number of tabs.  As MCPhones names them: v1 is   *)
(* vapidFile, v2 vapidCache, v3 making, v4 keys, v5 subs, v6               *)
(* subsWriteChain, v7 read, v8 sending, v9 up, v10 browser, v11 off,       *)
(* v12 eps, v13 lock, v14 task, v15 synced.                                *)

Registered == [dev : {Me, Other}, ep : Nat, key : Nat]
Browsers == [ep : Nat, key : Nat]

Jobs == [job : {"add"}, by : Tasks \cup {None}, sub : Registered]
        \cup [job : {"remove"}, by : Tasks \cup {None}, ep : Nat]
        \cup [job : {"prune"}, by : {None}, dead : SUBSET Nat]
        \cup [job : {"drop"}, by : {None}]

\* The steps of a synchronisation that has the lock, from when the browser may
\* have a new subscription; those before; and those of turning off.
Late == {"register", "adding", "added", "removing", "end"}
Early == {"status", "key", "subscribe"}
Leaving == {"leave", "leaving", "left"}

TabRecords ==
  [kind : {"none", "sync", "stop"}, pc : {"idle", "lock"} \cup Early \cup Late \cup Leaving,
   have : Browsers \cup {None}, registered : BOOLEAN, key : Nat, lost : BOOLEAN]

PushTypes ==
  /\ v1 \in Nat /\ v2 \in Nat /\ v3 \in {"no", "writes", "drops"} /\ v4 \in Nat
  /\ v5 \in SUBSET Registered /\ v6 \in Seq(Jobs) /\ v8 \in (SUBSET Registered) \cup {None}
  /\ v9 \in BOOLEAN /\ v10 \in Browsers \cup {None} /\ v11 \in BOOLEAN /\ v12 \in Nat
  /\ v13 \in Tasks \cup {None} /\ v14 \in [Tasks -> TabRecords] /\ v15 \in BOOLEAN

\* The tabs take turns, and one that turns notifications off leaves none behind.
TurnInv ==
  /\ \A t \in Tasks :
       /\ v14[t].kind = "none" => v14[t].pc = "idle"
       /\ v14[t].kind = "sync" => v14[t].pc \in {"lock"} \cup Early \cup Late
       /\ v14[t].kind = "stop" => v14[t].pc \in {"lock"} \cup Leaving
       /\ v14[t].pc \notin {"idle", "lock"} => v13 = t
  /\ v11 /\ (\A t \in Tasks : v14[t].kind # "stop") => v10 = None

\* The key in use is the one on disk; a key being made is newer than what any
\* subscription was made for.
KeyInv ==
  /\ ~v9 => v2 = 0 /\ v3 = "no" /\ v6 = <<>> /\ v7 = None /\ v8 = None
  /\ v2 # 0 => v2 = v1 /\ v3 = "no"
  /\ v3 = "writes" => v1 = 0
  /\ v3 = "drops" => v1 = v4
  /\ v1 <= v4
  /\ \A t \in Tasks : v14[t].key <= v4 /\ (v3 # "no" => v14[t].key < v4)
  /\ v10 # None => v10.key >= 1 /\ v10.key <= v4 /\ (v3 # "no" => v10.key < v4)
  /\ \A t \in Tasks : v14[t].pc = "subscribe" => v14[t].key >= 1

\* What the agent registers of this phone, now or later, it registers in the
\* order in which the browser made it.
Fits(s) == s.dev = Me => s.ep <= v12 /\ (v10 # None /\ s.ep = v10.ep => s.key = v10.key)
Adds(j) == j.job = "add" /\ j.sub.dev = Me

EntryInv ==
  /\ v10 # None => v10.ep = v12
  /\ \A s \in v5 : Fits(s)
  /\ v7 # None => v7 = v5 /\ v6 # <<>>
  /\ v8 # None => \A s \in v8 : s.dev = Me => s.ep <= v12

\* The subscription of the browser, as the agent keeps it.
Mine == [dev |-> Me, ep |-> v10.ep, key |-> v10.key]

\* What the tab that has the lock knows of the browser, the key and the agent.
Holder(r) ==
  /\ r.pc \in Early \cup Leaving => r.have = v10
  /\ r.pc \in Leaving => v10 # None
  /\ r.pc \in Late => v10 # None /\ (r.have \in {None, v10} \/ r.have.ep < v10.ep)
  /\ r.pc = "subscribe" /\ ~r.lost => r.key = v1
  /\ r.pc \in Late /\ ~r.lost => v10.key = v1
  /\ r.pc \in {"added", "removing", "end"} /\ ~r.lost => Mine \in v5
  /\ r.pc = "key" /\ r.registered => v10 # None /\ (Mine \in v5 \/ v10.key # v1)

HolderInv == \A t \in Tasks : Holder(v14[t])

\* A job that waits, and the one before another.
JobInv(j) ==
  /\ j.job = "add" => Fits(j.sub)
  /\ Adds(j) => \A s \in v5 : s.dev = Me => s.ep <= j.sub.ep
  /\ j.job = "remove" =>
       /\ j.ep <= v12
       /\ v10 # None /\ j.ep = v10.ep => \E t \in Tasks : v14[t].pc \in {"leaving", "left"}
  /\ j.job = "prune" => \A e \in j.dead : e <= v12 /\ (v10 # None => e # v10.ep)
  /\ j.job = "drop" => v3 = "drops"
  /\ j.by # None =>
       \/ j.job = "add" /\ v14[j.by].pc = "adding" /\ j.sub = Mine
       \/ j.job = "remove" /\ v14[j.by].pc \in {"removing", "leaving"}

Before(j, k) == /\ ~(j.job = "drop" /\ k.job = "drop")
                /\ Adds(j) /\ Adds(k) => j.sub.ep <= k.sub.ep
                /\ j.by = k.by => j.by = None

JobsInv == /\ \A i \in 1..Len(v6) : JobInv(v6[i])
           /\ \A i, j \in 1..Len(v6) : i < j => Before(v6[i], v6[j])

SyncInv == v15 => v13 = None /\ v10 # None /\ v10.key = v1 /\ Mine \in v5

PushInv == PushTypes /\ TurnInv /\ KeyInv /\ EntryInv /\ HolderInv /\ JobsInv /\ SyncInv

LEMMA InitPush == Push!Init => PushInv
<1> SUFFICES ASSUME Push!Init PROVE PushInv
  OBVIOUS
<1> USE DEF Push!Init, Push!NoTask
<1>1. PushTypes
  <2>1. Push!NoTask \in TabRecords
    BY DEF TabRecords
  <2>2. v9 \in BOOLEAN /\ v11 \in BOOLEAN /\ v15 \in BOOLEAN
    BY Zenon
  <2>3. v14 \in [Tasks -> TabRecords]
    BY <2>1
  <2>4. v6 \in Seq(Jobs)
    OBVIOUS
  <2> QED
    BY <2>2, <2>3, <2>4 DEF PushTypes
<1>2. TurnInv /\ KeyInv /\ EntryInv
  BY DEF TurnInv, KeyInv, EntryInv, Early, Late, Leaving
<1>3. HolderInv /\ JobsInv /\ SyncInv
  BY DEF HolderInv, Holder, JobsInv, SyncInv, Early, Late, Leaving
<1> QED
  BY <1>1, <1>2, <1>3 DEF PushInv

\* A job joins the queue, or the queue stays.
LEMMA QueueJoins ==
  ASSUME PushTypes, JobsInv, NEW j \in Jobs, v6' = Append(v6, j), JobInv(j)',
         \A k \in Jobs : JobInv(k) => JobInv(k)',
         \A i \in 1..Len(v6) : Before(v6[i], j)
  PROVE  JobsInv' /\ v6' \in Seq(Jobs)
<1>1. v6 \in Seq(Jobs)
  BY DEF PushTypes
<1>2. /\ v6' \in Seq(Jobs) /\ Len(v6') = Len(v6) + 1 /\ Len(v6) \in Nat
      /\ v6'[Len(v6) + 1] = j /\ \A i \in 1..Len(v6) : v6'[i] = v6[i] /\ v6[i] \in Jobs
  BY <1>1, Joined
<1>3. ASSUME NEW i \in 1..Len(v6') PROVE JobInv(v6[i])'
  BY <1>2 DEF JobsInv, JobInv
<1>4. \A a, b \in 1..Len(v6') : a < b => Before(v6'[a], v6'[b])
  BY <1>2 DEF JobsInv, JobInv
<1> QED
  BY <1>2, <1>3, <1>4 DEF JobsInv, Before, Adds

LEMMA QueueStays ==
  ASSUME PushTypes, JobsInv, v6' = v6, \A k \in Jobs : JobInv(k) => JobInv(k)'
  PROVE  JobsInv'
<1>1. \A i \in 1..Len(v6) : v6[i] \in Jobs
  BY DEF PushTypes
<1> QED
  BY <1>1 DEF JobsInv, Before, Adds


\* What the browser and its tabs have is left alone.
BrowserStays == v10' = v10 /\ v11' = v11 /\ v12' = v12 /\ v13' = v13 /\ v14' = v14 /\ v15' = v15

LEMMA BrowserTypes ==
  ASSUME PushInv, BrowserStays
  PROVE  /\ v10' \in Browsers \cup {None} /\ v11' \in BOOLEAN /\ v12' \in Nat
         /\ v13' \in Tasks \cup {None} /\ v14' \in [Tasks -> TabRecords] /\ v15' \in BOOLEAN
         /\ TurnInv' /\ Mine' = Mine
BY DEF PushInv, PushTypes, TurnInv, BrowserStays, Mine

LEMMA KeyStep ==
  ASSUME PushInv, Push!EnsureVapid \/ Push!KeySaved
  PROVE  PushInv'
<1> USE DEF Push!Published
<1>0. /\ v5' = v5 /\ v7' = v7 /\ v8' = v8 /\ v9' = v9 /\ v9 /\ BrowserStays
      /\ v1 \in Nat /\ v2 \in Nat /\ v4 \in Nat /\ v5 \in SUBSET Registered /\ v6 \in Seq(Jobs)
      /\ v8 \in (SUBSET Registered) \cup {None} /\ v9 \in BOOLEAN
      /\ v10 \in Browsers \cup {None} /\ v14 \in [Tasks -> TabRecords]
  BY DEF Push!EnsureVapid, Push!KeySaved, BrowserStays, PushInv, PushTypes
<1>1. CASE Push!EnsureVapid
  <2>1. /\ v2 = 0 /\ v3 = "no" /\ v6' = v6
        /\ \/ v2' = v1 /\ v1' = v1 /\ v4' = v4 /\ v3' = "no" /\ v1 # 0
           \/ v1 = 0 /\ v1' = v1 /\ v2' = 0 /\ v4' = v4 + 1 /\ v3' = "writes"
    BY <1>1 DEF Push!EnsureVapid
  <2>2. PushTypes'
    BY <1>0, <2>1, BrowserTypes DEF PushTypes
  <2>3. KeyInv'
    BY <1>0, <2>1 DEF PushInv, KeyInv, BrowserStays, Browsers, TabRecords
  <2>4. EntryInv' /\ HolderInv' /\ SyncInv'
    BY <1>0, <2>1 DEF PushInv, EntryInv, HolderInv, Holder, SyncInv, Fits, Mine, BrowserStays
  <2>5. \A k \in Jobs : JobInv(k) => JobInv(k)'
    BY <1>0, <2>1 DEF JobInv, Adds, Fits, Mine, BrowserStays
  <2>6. JobsInv'
    BY <2>1, <2>5, QueueStays DEF PushInv
  <2> QED
    BY <1>0, <2>2, <2>3, <2>4, <2>6, BrowserTypes DEF PushInv
<1>2. CASE Push!KeySaved
  <2> DEFINE j == [job |-> "drop", by |-> None]
  <2>1. /\ v3 = "writes" /\ v3' = "drops" /\ v1 = 0 /\ v2 = 0 /\ v1' = v4 /\ v2' = v2 /\ v4' = v4
        /\ v6' = Append(v6, j) /\ j \in Jobs /\ v6' # <<>>
    BY <1>0, <1>2 DEF Push!KeySaved, PushInv, KeyInv, Jobs
  <2>2. \A k \in Jobs : JobInv(k) => JobInv(k)'
    BY <1>0, <2>1 DEF JobInv, Adds, Fits, Mine, BrowserStays
  <2>3. JobInv(j)'
    BY <1>0, <2>1 DEF JobInv, Adds
  <2>4. \A i \in 1..Len(v6) : Before(v6[i], j)
    BY <1>0, <2>1 DEF Before, Adds, PushInv, JobsInv, JobInv
  <2>5. JobsInv' /\ v6' \in Seq(Jobs)
    BY <2>1, <2>2, <2>3, <2>4, QueueJoins DEF PushInv
  <2>6. PushTypes'
    BY <1>0, <2>1, <2>5, BrowserTypes DEF PushTypes
  <2>7. KeyInv'
    BY <1>0, <2>1 DEF PushInv, KeyInv, BrowserStays, Browsers, TabRecords
  <2>8. EntryInv'
    BY <1>0, <2>1 DEF PushInv, EntryInv, Fits, BrowserStays
  <2>9. v10 # None => v10.key >= 1 /\ v10.key < v4 /\ v10.key # v1 /\ v10.key # v1'
    BY <1>0, <2>1 DEF PushInv, KeyInv, Browsers
  <2>10. HolderInv' /\ SyncInv'
    BY <1>0, <2>1, <2>9 DEF PushInv, KeyInv, HolderInv, Holder, SyncInv, Mine, BrowserStays
  <2> QED
    BY <1>0, <2>5, <2>6, <2>7, <2>8, <2>10, BrowserTypes DEF PushInv
<1> QED
  BY <1>1, <1>2

LEMMA AgentStep ==
  ASSUME PushInv, Push!JobReads \/ Push!Send \/ Push!Sent \/ Push!OtherRegisters
  PROVE  PushInv'
<1>0. /\ v1' = v1 /\ v2' = v2 /\ v3' = v3 /\ v4' = v4 /\ v5' = v5 /\ v9' = v9 /\ v9 /\ BrowserStays
      /\ v1 \in Nat /\ v2 \in Nat /\ v4 \in Nat /\ v5 \in SUBSET Registered /\ v6 \in Seq(Jobs)
      /\ v3 \in {"no", "writes", "drops"} /\ v9 \in BOOLEAN /\ v12 \in Nat
      /\ v8 \in (SUBSET Registered) \cup {None}
  BY DEF Push!JobReads, Push!Send, Push!Sent, Push!OtherRegisters, Push!Enqueue, BrowserStays, PushInv, PushTypes
<1>1. HolderInv' /\ SyncInv' /\ KeyInv'
  BY <1>0 DEF PushInv, HolderInv, Holder, SyncInv, KeyInv, Mine, BrowserStays
<1>2. \A k \in Jobs : JobInv(k) => JobInv(k)'
  BY <1>0 DEF JobInv, Adds, Fits, Mine, BrowserStays
<1>3. v8' \in (SUBSET Registered) \cup {None}
  BY <1>0 DEF Push!JobReads, Push!Send, Push!Sent, Push!OtherRegisters
<1>4. ASSUME JobsInv', v6' \in Seq(Jobs), v6 # <<>> => v6' # <<>>
      PROVE  PushInv'
  <2>1. PushTypes'
    BY <1>0, <1>3, <1>4, BrowserTypes DEF PushTypes
  <2>2. EntryInv'
    BY <1>0, <1>4 DEF PushInv, EntryInv, Fits, BrowserStays, Push!JobReads, Push!Send, Push!Sent, Push!OtherRegisters
  <2> QED
    BY <1>0, <1>1, <1>4, <2>1, <2>2, BrowserTypes DEF PushInv
<1>5. CASE v6' = v6
  BY <1>0, <1>2, <1>4, <1>5, QueueStays DEF PushInv
<1>6. ASSUME NEW j \in Jobs, v6' = Append(v6, j), JobInv(j)', \A i \in 1..Len(v6) : Before(v6[i], j)
      PROVE  PushInv'
  <2>1. JobsInv' /\ v6' \in Seq(Jobs)
    BY <1>2, <1>6, QueueJoins DEF PushInv
  <2> QED
    BY <1>0, <1>4, <1>6, <2>1, Joined
<1>7. CASE Push!Sent /\ Push!Dead # {}
  <2>1. PICK j : j = [job |-> "prune", by |-> None, dead |-> Push!Dead]
    OBVIOUS
  <2>2. /\ \A e \in Push!Dead : e \in Nat /\ e <= v12 /\ (v10 # None => e # v10.ep)
        /\ v6' = Append(v6, j)
    BY <1>0, <1>7, <2>1 DEF Push!Sent, Push!Enqueue, Push!Dead, PushInv, EntryInv, Registered
  <2>3. j \in Jobs
    BY <2>1, <2>2 DEF Jobs
  <2>4. JobInv(j)'
    BY <1>0, <2>1, <2>2 DEF JobInv, Adds, BrowserStays
  <2>5. \A i \in 1..Len(v6) : Before(v6[i], j)
    BY <2>1 DEF Before, Adds
  <2> QED
    BY <1>6, <2>2, <2>3, <2>4, <2>5
<1>8. CASE Push!OtherRegisters
  <2>1. PICK j : j = [job |-> "add", by |-> None, sub |-> [dev |-> Other, ep |-> 0, key |-> v1]]
    OBVIOUS
  <2>2. j.sub.dev # Me /\ j \in Jobs /\ v6' = Append(v6, j)
    BY <1>0, <1>8, <2>1, PushAssumption DEF Push!OtherRegisters, Push!Enqueue, Registered, Jobs, Push!PushAssumption
  <2>3. JobInv(j)'
    BY <2>1, <2>2 DEF JobInv, Adds, Fits
  <2>4. \A i \in 1..Len(v6) : Before(v6[i], j)
    BY <2>1, <2>2 DEF Before, Adds
  <2> QED
    BY <1>6, <2>2, <2>3, <2>4
<1> QED
  BY <1>5, <1>7, <1>8 DEF Push!JobReads, Push!Send, Push!Sent

LEMMA DownStep ==
  ASSUME PushInv, Push!Stop \/ Push!Start
  PROVE  PushInv'
<1>0. /\ v4' = v4 /\ v5' = v5 /\ v10' = v10 /\ v11' = v11 /\ v12' = v12 /\ v13' = v13
      /\ v6' = <<>> /\ v7' = None /\ v8' = None /\ v2' = 0 /\ v3' = "no" /\ Mine' = Mine
      /\ v1 \in Nat /\ v4 \in Nat /\ v5 \in SUBSET Registered /\ v10 \in Browsers \cup {None}
      /\ v12 \in Nat /\ v13 \in Tasks \cup {None} /\ v14 \in [Tasks -> TabRecords]
  BY DEF Push!Stop, Push!Start, PushInv, PushTypes, KeyInv, Mine
<1>1. v11' \in BOOLEAN
  BY <1>0 DEF PushInv, PushTypes
<1>2. v9' \in BOOLEAN
  <2>1. v9' = TRUE \/ v9' = FALSE
    BY Zenon DEF Push!Stop, Push!Start
  <2> QED
    BY <2>1
<1>3. EntryInv'
  BY <1>0 DEF PushInv, EntryInv, Fits
<1>4. JobsInv' /\ v6' \in Seq(Jobs)
  BY <1>0 DEF JobsInv
<1>5. v4' \in Nat /\ v4' >= v1
  BY <1>0 DEF PushInv, KeyInv
<1>6. CASE v1' = v1 /\ v14' = v14 /\ v15' = v15
  <2>1. v15' \in BOOLEAN
    BY <1>6 DEF PushInv, PushTypes
  <2>2. PushTypes'
    BY <1>0, <1>1, <1>2, <1>4, <1>6, <2>1 DEF PushTypes
  <2>3. TurnInv' /\ HolderInv' /\ SyncInv'
    BY <1>0, <1>6 DEF PushInv, TurnInv, HolderInv, Holder, SyncInv
  <2>4. KeyInv'
    BY <1>0, <1>6 DEF PushInv, KeyInv
  <2> QED
    BY <1>3, <1>4, <2>2, <2>3, <2>4 DEF PushInv
<1>7. CASE /\ v1' = 0 /\ v15' = FALSE
           /\ v14' = [t \in Tasks |-> [v14[t] EXCEPT !.lost = v14[t].pc \notin {"idle", "lock"}]]
  <2>1. ASSUME NEW t \in Tasks
        PROVE  /\ v14'[t] \in TabRecords /\ v14'[t].kind = v14[t].kind /\ v14'[t].pc = v14[t].pc
               /\ v14'[t].have = v14[t].have /\ v14'[t].key = v14[t].key
               /\ v14'[t].registered = v14[t].registered
    <3>1. (v14[t].pc \notin {"idle", "lock"}) \in BOOLEAN
      OBVIOUS
    <3> HIDE <1>7
    <3> DEFINE b == v14[t].pc \notin {"idle", "lock"}
    <3>2. v14'[t] = [v14[t] EXCEPT !.lost = b]
      BY <1>7
    <3>3. b \in BOOLEAN
      OBVIOUS
    <3> HIDE DEF b
    <3> QED
      BY <1>0, <3>2, <3>3 DEF TabRecords
  <2>2. \A t \in Tasks : v14[t].pc \notin {"idle", "lock"} => v14'[t].lost
    <3> TAKE t \in Tasks
    <3>1. v14'[t] = [v14[t] EXCEPT !.lost = v14[t].pc \notin {"idle", "lock"}]
      BY <1>7
    <3>2. v14[t] \in TabRecords
      BY <1>0
    <3> DEFINE b == v14[t].pc \notin {"idle", "lock"}
    <3>3. v14'[t].lost = b
      <4>1. v14'[t] = [v14[t] EXCEPT !.lost = b]
        BY <3>1
      <4> HIDE DEF b
      <4> QED
        BY <3>2, <4>1 DEF TabRecords
    <3> QED
      BY <3>3
  <2>3. v14' \in [Tasks -> TabRecords]
    BY <1>7, <2>1
  <2>4. v15' \in BOOLEAN
    BY <1>7
  <2>5. PushTypes'
    BY <1>0, <1>1, <1>2, <1>4, <1>7, <2>3, <2>4 DEF PushTypes
  <2>6. TurnInv'
    BY <1>0, <2>1 DEF PushInv, TurnInv
  <2>7. KeyInv'
    <3>1. v1' = 0 /\ 0 <= v4 /\ v4' = v4
      BY <1>0, <1>7
    <3>2. \A t \in Tasks : v14'[t].key <= v4 /\ (v14'[t].pc = "subscribe" => v14'[t].key >= 1)
      BY <2>1 DEF PushInv, KeyInv
    <3>3. v10' # None => v10'.key >= 1 /\ v10'.key <= v4'
      BY <1>0 DEF PushInv, KeyInv
    <3> QED
      BY <1>0, <3>1, <3>2, <3>3 DEF KeyInv
  <2>8. ASSUME NEW t \in Tasks PROVE Holder(v14[t])'
    <3>1. Holder(v14[t])
      BY DEF PushInv, HolderInv
    <3>2. v10 # None => v10.key # 0
      BY DEF PushInv, KeyInv
    <3> QED
      BY <1>0, <1>7, <2>1, <2>2, <3>1, <3>2 DEF Holder, Early, Late, Leaving
  <2>9. HolderInv' /\ SyncInv'
    BY <1>7, <2>8 DEF HolderInv, SyncInv
  <2> QED
    BY <1>3, <1>4, <2>5, <2>6, <2>7, <2>9 DEF PushInv
<1> QED
  BY <1>6, <1>7 DEF Push!Stop, Push!Start

\* What the agent has of the browser stays when a job is done: only who turns
\* notifications off takes it out, and only a new key drops it.
LEMMA MineStays ==
  ASSUME PushInv, NEW j \in Jobs, JobInv(j), v10 # None, Mine \in v5, v10.key = v1,
         \A o \in Tasks : v14[o].pc \notin {"leaving", "left"}
  PROVE  Mine \in Push!After(v5, j)
<1>1. /\ v10 \in Browsers /\ v5 \in SUBSET Registered /\ v12 \in Nat /\ v10.ep = v12
  BY DEF PushInv, PushTypes, EntryInv
<1>2. CASE j.job = "add"
  <2>1. j.sub \in Registered /\ Fits(j.sub)
    BY <1>2 DEF Jobs, JobInv
  <2>2. CASE j.sub.dev = Me
    <3>1. Mine.dev = Me /\ Mine.ep = v10.ep
      BY DEF Mine
    <3>2. v10.ep <= j.sub.ep /\ j.sub.ep <= v12
      BY <1>2, <2>1, <2>2, <3>1 DEF JobInv, Adds, Fits
    <3>3. j.sub.ep = v10.ep /\ j.sub.key = v10.key
      BY <1>1, <2>1, <2>2, <3>2 DEF Fits, Registered, Browsers
    <3>4. j.sub = Mine
      BY <2>1, <2>2, <3>3 DEF Registered, Mine
    <3> QED
      BY <1>2, <3>4 DEF Push!After
  <2>3. CASE j.sub.dev # Me
    BY <1>2, <2>3 DEF Push!After, Push!Replaced, Mine
  <2> QED
    BY <2>2, <2>3
<1>3. CASE j.job = "remove"
  BY <1>3 DEF JobInv, Push!After, Mine
<1>4. CASE j.job = "prune"
  BY <1>4 DEF JobInv, Push!After, Mine
<1>5. CASE j.job = "drop"
  BY <1>1, <1>5 DEF JobInv, PushInv, PushTypes, KeyInv, Browsers
<1> QED
  BY <1>2, <1>3, <1>4, <1>5 DEF Jobs

LEMMA AfterTypes ==
  ASSUME PushInv, NEW j \in Jobs, JobInv(j)
  PROVE  /\ Push!After(v5, j) \in SUBSET Registered
         /\ \A s \in Push!After(v5, j) : Fits(s)
         /\ \A s \in Push!After(v5, j) : s \in v5 \/ (j.job = "add" /\ s = j.sub)
<1>1. v5 \in SUBSET Registered /\ \A s \in v5 : Fits(s)
  BY DEF PushInv, PushTypes, EntryInv
<1>2. \A s \in Push!After(v5, j) : s \in v5 \/ (j.job = "add" /\ s = j.sub)
  <2> TAKE s \in Push!After(v5, j)
  <2>1. CASE j.job = "add"
    BY <2>1 DEF Push!After
  <2>2. CASE j.job = "remove"
    <3>1. Push!After(v5, j) = {u \in v5 : u.ep # j.ep}
      BY <2>2 DEF Push!After
    <3> QED
      BY <3>1
  <2>3. CASE j.job = "prune"
    <3>1. Push!After(v5, j) = {u \in v5 : u.ep \notin j.dead}
      BY <2>3 DEF Push!After
    <3> QED
      BY <3>1
  <2>4. CASE j.job = "drop"
    <3>1. Push!After(v5, j) = {}
      BY <2>4 DEF Push!After
    <3> QED
      BY <3>1
  <2> QED
    BY <2>1, <2>2, <2>3, <2>4 DEF Jobs
<1>3. j.job = "add" => j.sub \in Registered /\ Fits(j.sub)
  BY DEF Jobs, JobInv
<1> QED
  BY <1>1, <1>2, <1>3

LEMMA JobWritesStep ==
  ASSUME PushInv, Push!JobWrites
  PROVE  PushInv'
<1>0. /\ v1' = v1 /\ v4' = v4 /\ v8' = v8 /\ v9' = v9 /\ v9 /\ v10' = v10 /\ v11' = v11
      /\ v12' = v12 /\ v13' = v13 /\ v15' = v15 /\ v7 # None /\ v7' = None /\ Mine' = Mine
      /\ v6 # <<>> /\ v7 = v5 /\ v6' = Tail(v6) /\ v6 \in Seq(Jobs)
      /\ v1 \in Nat /\ v2 \in Nat /\ v4 \in Nat /\ v5 \in SUBSET Registered
      /\ v14 \in [Tasks -> TabRecords] /\ v10 \in Browsers \cup {None} /\ v12 \in Nat
      /\ v13 \in Tasks \cup {None} /\ v8 \in (SUBSET Registered) \cup {None}
  BY DEF Push!JobWrites, PushInv, PushTypes, EntryInv, Mine
<1>1. PICK j : j = Head(v6)
  OBVIOUS
<1>2. /\ v6' \in Seq(Jobs) /\ Len(v6') = Len(v6) - 1 /\ Len(v6) \in Nat /\ Len(v6) >= 1
      /\ j = v6[1] /\ j \in Jobs /\ \A i \in 1..Len(v6') : v6'[i] = v6[i + 1] /\ v6[i + 1] \in Jobs
  BY <1>0, <1>1, Gone
<1>3. /\ JobInv(j)
      /\ \A i \in 1..Len(v6') : JobInv(v6[i + 1]) /\ Before(j, v6[i + 1])
  BY <1>2 DEF PushInv, JobsInv
<1>4. /\ v5' = Push!After(v5, j)
      /\ v14' = IF j.by = None THEN v14 ELSE Push!Answered(j.by)
      /\ IF j.job = "drop" THEN v3' = "no" /\ v2' = v1 ELSE v3' = v3 /\ v2' = v2
  BY <1>0, <1>1 DEF Push!JobWrites
<1>5. /\ v5' \in SUBSET Registered /\ \A s \in v5' : Fits(s)
      /\ \A s \in v5' : s \in v5 \/ (j.job = "add" /\ s = j.sub)
  BY <1>2, <1>3, <1>4, AfterTypes
<1>6. ASSUME v10 # None, Mine \in v5, v10.key = v1,
             \A o \in Tasks : v14[o].pc \notin {"leaving", "left"}
      PROVE  Mine \in v5'
  BY <1>2, <1>3, <1>4, <1>6, MineStays
<1>7. /\ j.by # None => j.by \in Tasks
      /\ \A t \in Tasks : t # j.by => v14'[t] = v14[t]
      /\ j.by # None => \E p \in {"added", "end", "left"} :
           /\ v14'[j.by] = [v14[j.by] EXCEPT !.pc = p]
           /\ p = "added" => v14[j.by].pc = "adding" /\ j.job = "add" /\ j.sub = Mine
           /\ p = "end" => v14[j.by].pc = "removing"
           /\ p = "left" => v14[j.by].pc = "leaving"
  <2>1. j.by # None => j.by \in Tasks
    BY <1>2 DEF Jobs
  <2>2. CASE j.by = None
    BY <1>4, <2>2
  <2>3. CASE j.by # None
    <3>1. \/ v14[j.by].pc = "adding" /\ j.job = "add" /\ j.sub = Mine
          \/ v14[j.by].pc \in {"removing", "leaving"}
      BY <1>3, <2>3 DEF JobInv
    <3>2. \E p \in {"added", "end", "left"} :
           /\ v14' = [v14 EXCEPT ![j.by].pc = p]
           /\ p = "added" => v14[j.by].pc = "adding" /\ j.job = "add" /\ j.sub = Mine
           /\ p = "end" => v14[j.by].pc = "removing"
           /\ p = "left" => v14[j.by].pc = "leaving"
      BY <1>4, <2>3, <3>1 DEF Push!Answered
    <3> QED
      BY <1>0, <2>1, <2>3, <3>2
  <2> QED
    BY <2>2, <2>3
<1>8. ASSUME NEW t \in Tasks
      PROVE  /\ v14'[t] \in TabRecords /\ v14'[t].kind = v14[t].kind /\ v14'[t].key = v14[t].key
             /\ v14'[t].have = v14[t].have /\ v14'[t].lost = v14[t].lost
             /\ v14'[t].registered = v14[t].registered
             /\ \/ v14'[t].pc = v14[t].pc
                \/ v14'[t].pc = "added" /\ v14[t].pc = "adding" /\ j.job = "add" /\ j.sub = Mine
                \/ v14'[t].pc = "end" /\ v14[t].pc = "removing"
                \/ v14'[t].pc = "left" /\ v14[t].pc = "leaving"
             /\ t # j.by => v14'[t].pc = v14[t].pc
  <2>1. CASE t # j.by
    BY <1>0, <1>7, <2>1
  <2>2. CASE t = j.by
    <3>1. t # None
      BY PushAssumption DEF Push!PushAssumption
    <3>2. PICK p \in {"added", "end", "left"} :
            /\ v14'[t] = [v14[t] EXCEPT !.pc = p]
            /\ p = "added" => v14[t].pc = "adding" /\ j.job = "add" /\ j.sub = Mine
            /\ p = "end" => v14[t].pc = "removing"
            /\ p = "left" => v14[t].pc = "leaving"
      BY <1>7, <2>2, <3>1
    <3>3. v14[t] \in TabRecords
      BY <1>0
    <3> QED
      BY <2>2, <3>2, <3>3 DEF TabRecords, Early, Late, Leaving
  <2> QED
    BY <2>1, <2>2
<1>9. v14' \in [Tasks -> TabRecords]
  BY <1>0, <1>4, <1>8 DEF Push!Answered
<1>10. PushTypes'
  <2>1. v3' \in {"no", "writes", "drops"} /\ v2' \in Nat /\ v9' \in BOOLEAN /\ v11' \in BOOLEAN /\ v15' \in BOOLEAN
    BY <1>0, <1>4 DEF PushInv, PushTypes
  <2> QED
    BY <1>0, <1>2, <1>5, <1>9, <2>1 DEF PushTypes
<1>11. TurnInv'
  BY <1>0, <1>8 DEF PushInv, TurnInv, Early, Late, Leaving
<1>12. KeyInv'
  BY <1>0, <1>4, <1>8 DEF PushInv, KeyInv
<1>13. EntryInv'
  BY <1>0, <1>5 DEF PushInv, EntryInv, Fits
<1>14. SyncInv'
  <2>1. ASSUME v15 PROVE \A o \in Tasks : v14[o].pc \notin {"leaving", "left"}
    <3>1. v13 = None
      BY <2>1 DEF PushInv, SyncInv
    <3>2. None \notin Tasks
      BY PushAssumption DEF Push!PushAssumption
    <3> QED
      BY <3>1, <3>2 DEF PushInv, TurnInv
  <2> QED
    BY <1>0, <1>6, <2>1 DEF PushInv, SyncInv
<1>15. ASSUME NEW t \in Tasks PROVE Holder(v14[t])'
  <2>1. Holder(v14[t])
    BY DEF PushInv, HolderInv
  <2>2. ASSUME v14[t].pc \notin {"idle", "lock"}, v14[t].pc \notin Leaving,
               v10 # None, Mine \in v5, v10.key = v1
        PROVE  Mine \in v5'
    <3>1. \A o \in Tasks : v14[o].pc \notin {"leaving", "left"}
      BY <2>2 DEF PushInv, TurnInv, Leaving
    <3> QED
      BY <1>6, <2>2, <3>1
  <2>3. ASSUME v14'[t].pc # v14[t].pc, v14'[t].pc = "added" PROVE Mine \in v5'
    BY <1>2, <1>4, <1>8, <2>3 DEF Push!After
  <2>4. CASE v14[t].pc \in Early
    BY <1>0, <1>8, <2>1, <2>2, <2>4 DEF Holder, Early, Late, Leaving
  <2>5. CASE v14[t].pc \in Late
    BY <1>0, <1>8, <2>1, <2>2, <2>3, <2>5 DEF Holder, Early, Late, Leaving
  <2>6. CASE v14[t].pc \in Leaving \cup {"idle", "lock"}
    BY <1>0, <1>8, <2>1, <2>6 DEF Holder, Early, Late, Leaving
  <2> QED
    BY <1>0, <2>4, <2>5, <2>6 DEF TabRecords
<1>16. ASSUME NEW i \in 1..Len(v6') PROVE JobInv(v6[i])'
  <2>1. PICK k : k = v6[i + 1]
    OBVIOUS
  <2>2. k \in Jobs /\ JobInv(k) /\ Before(j, k)
    BY <1>2, <1>3, <2>1
  <2>3. Adds(k) => \A s \in v5' : s.dev = Me => s.ep <= k.sub.ep
    BY <1>5, <2>2 DEF JobInv, Before, Adds
  <2>4. k.job = "drop" => v3' = "drops"
    BY <1>4, <2>2 DEF JobInv, Before
  <2>5. k.by # None => k.by \in Tasks /\ v14'[k.by].pc = v14[k.by].pc
    BY <1>8, <2>2 DEF Before, Jobs
  <2>6. (\E t \in Tasks : v14[t].pc \in {"leaving", "left"}) =>
          \E t \in Tasks : v14'[t].pc \in {"leaving", "left"}
    BY <1>8
  <2>7. JobInv(k)'
    BY <1>0, <2>2, <2>3, <2>4, <2>5, <2>6 DEF JobInv, Adds, Fits
  <2>8. v6'[i] = k
    BY <1>2, <2>1
  <2> QED
    BY <2>7, <2>8 DEF JobInv
<1>17. \A a, b \in 1..Len(v6') : a < b => Before(v6'[a], v6'[b])
  BY <1>2 DEF PushInv, JobsInv
<1>18. JobsInv'
  BY <1>16, <1>17 DEF JobsInv, Before, Adds
<1>19. HolderInv'
  BY <1>15 DEF HolderInv
<1> QED
  BY <1>10, <1>11, <1>12, <1>13, <1>14, <1>18, <1>19 DEF PushInv

\* The steps of the browser.  A tab that begins without the lock:
LEMMA OpenStep ==
  ASSUME PushInv, NEW t \in Tasks, Push!Open(t, TRUE) \/ Push!Open(t, FALSE) \/ Push!Disable(t)
  PROVE  PushInv'
<1>0. /\ v1' = v1 /\ v2' = v2 /\ v3' = v3 /\ v4' = v4 /\ v5' = v5 /\ v6' = v6 /\ v7' = v7
      /\ v8' = v8 /\ v9' = v9 /\ v10' = v10 /\ v12' = v12 /\ v13' = v13 /\ Mine' = Mine
      /\ v14 \in [Tasks -> TabRecords] /\ v14[t].kind = "none" /\ v14[t].pc = "idle"
  BY DEF Push!Open, Push!Disable, Push!agentVars, PushInv, PushTypes, TurnInv, Mine
<1>1. PICK r \in TabRecords :
        /\ v14' = [v14 EXCEPT ![t] = r] /\ r.pc = "lock" /\ r.key = 0
        /\ \/ r.kind = "sync" /\ (v11' => v11)
           \/ r.kind = "stop"
  <2> DEFINE r(k) == [Push!NoTask EXCEPT !.kind = k, !.pc = "lock"]
  <2>1. \A k \in {"sync", "stop"} : r(k) \in TabRecords /\ r(k).pc = "lock" /\ r(k).key = 0 /\ r(k).kind = k
    BY DEF TabRecords, Push!NoTask
  <2> HIDE DEF r
  <2>2. CASE Push!Open(t, TRUE) \/ Push!Open(t, FALSE)
    <3>1. v14' = [v14 EXCEPT ![t] = r("sync")]
      BY <2>2 DEF Push!Open, r
    <3>2. v11' => v11
      BY <2>2, Zenon DEF Push!Open
    <3> QED
      BY <2>1, <3>1, <3>2
  <2>3. CASE Push!Disable(t)
    BY <2>1, <2>3 DEF Push!Disable, r
  <2> QED
    BY <2>2, <2>3
<1>2. v11' \in BOOLEAN
  <2>1. v11' = (v11 /\ ~TRUE) \/ v11' = (v11 /\ ~FALSE) \/ v11' = TRUE
    BY Zenon DEF Push!Open, Push!Disable
  <2> QED
    BY <2>1
<1>3. v15' = v15 \/ v15' = FALSE
  BY Zenon DEF Push!Open, Push!Disable
<1>4. v15' \in BOOLEAN
  BY <1>3 DEF PushInv, PushTypes
<1>5. v14' \in [Tasks -> TabRecords] /\ v14'[t] = r /\ \A o \in Tasks : o # t => v14'[o] = v14[o]
  BY <1>0, <1>1
<1>6. PushTypes'
  BY <1>0, <1>2, <1>4, <1>5 DEF PushInv, PushTypes
<1>7. TurnInv'
  BY <1>0, <1>1, <1>5 DEF PushInv, TurnInv, Early, Late, Leaving
<1>8. KeyInv'
  <2>1. v3 # "no" => 0 < v4
    BY <1>0 DEF PushInv, PushTypes, KeyInv, TabRecords
  <2>2. v4 \in Nat
    BY DEF PushInv, PushTypes
  <2>3. ASSUME NEW o \in Tasks
        PROVE  /\ v14'[o].key <= v4' /\ (v3' # "no" => v14'[o].key < v4')
               /\ v14'[o].pc = "subscribe" => v14'[o].key >= 1
    BY <1>0, <1>1, <1>5, <2>1, <2>2 DEF PushInv, KeyInv
  <2> QED
    BY <1>0, <2>3 DEF PushInv, KeyInv
<1>9. EntryInv' /\ SyncInv'
  BY <1>0, <1>3 DEF PushInv, EntryInv, Fits, SyncInv
<1>10. ASSUME NEW o \in Tasks PROVE Holder(v14[o])'
  <2>1. Holder(v14[o])
    BY DEF PushInv, HolderInv
  <2> QED
    BY <1>0, <1>1, <1>5, <2>1 DEF Holder, Early, Late, Leaving
<1>11. \A k \in Jobs : JobInv(k) => JobInv(k)'
  <2> SUFFICES ASSUME NEW k \in Jobs, JobInv(k) PROVE JobInv(k)'
    OBVIOUS
  <2>1. k.by # None => k.by # t
    BY <1>0 DEF JobInv
  <2>2. k.by # None => k.by \in Tasks
    BY DEF Jobs
  <2>3. (\E o \in Tasks : v14[o].pc \in {"leaving", "left"}) =>
          \E o \in Tasks : v14'[o].pc \in {"leaving", "left"}
    BY <1>0, <1>5
  <2> QED
    BY <1>0, <1>5, <2>1, <2>2, <2>3 DEF JobInv, Adds, Fits
<1>12. JobsInv'
  BY <1>0, <1>11, QueueStays DEF PushInv
<1> QED
  BY <1>6, <1>7, <1>8, <1>9, <1>10, <1>12 DEF PushInv, HolderInv

\* A step of the tab t whose turn it is, that leaves it with the record r.
Turns(t, r) ==
  /\ r \in TabRecords /\ v14' = [v14 EXCEPT ![t] = r]
  /\ v13 \in {t, None} /\ v13' \in {t, None} /\ (r.pc \notin {"idle", "lock"} => v13' = t)
  /\ \/ r.kind = "none" /\ r.pc = "idle"
     \/ r.kind = v14[t].kind /\ r.kind = "sync" /\ r.pc \in Early \cup Late
     \/ r.kind = v14[t].kind /\ r.kind = "stop" /\ r.pc \in Leaving
  /\ v1' = v1 /\ v2' = v2 /\ v3' = v3 /\ v4' = v4 /\ v5' = v5
  /\ v7' = v7 /\ v8' = v8 /\ v9' = v9 /\ v11' = v11

LEMMA OthersWait ==
  ASSUME PushInv, NEW t \in Tasks, NEW r, Turns(t, r)
  PROVE  /\ v14' \in [Tasks -> TabRecords] /\ v14'[t] = r
         /\ \A o \in Tasks : o # t => v14'[o] = v14[o] /\ v14[o].pc \in {"idle", "lock"}
<1>1. v14 \in [Tasks -> TabRecords] /\ None \notin Tasks
  BY PushAssumption DEF PushInv, PushTypes, Push!PushAssumption
<1>2. ASSUME NEW o \in Tasks, o # t PROVE v14[o].pc \in {"idle", "lock"}
  BY <1>1, <1>2 DEF PushInv, TurnInv, Turns
<1> QED
  BY <1>1, <1>2 DEF Turns

LEMMA TurnStep ==
  ASSUME PushInv, NEW t \in Tasks, NEW r, Turns(t, r),
         v10' \in Browsers \cup {None}, v12' \in Nat, v15' \in BOOLEAN,
         v10' # v10 => v10' = None \/ v11 = FALSE,
         r.kind = "none" /\ v14[t].kind = "stop" => v10' = None,
         r.key <= v4, v3 # "no" => r.key < v4, r.pc = "subscribe" => r.key >= 1,
         v10' # v10 /\ v10' # None => v10'.key >= 1 /\ v10'.key <= v4 /\ (v3 # "no" => v10'.key < v4),
         ~v9 => v6' = <<>>, v7 # None => v6' # <<>>,
         Holder(r)', EntryInv', JobsInv', v6' \in Seq(Jobs), SyncInv'
  PROVE  PushInv'
<1>0. /\ v14' \in [Tasks -> TabRecords] /\ v14'[t] = r
      /\ \A o \in Tasks : o # t => v14'[o] = v14[o] /\ v14[o].pc \in {"idle", "lock"}
  BY OthersWait
<1> USE DEF Turns
<1>1. v13' \in Tasks \cup {None} /\ v9' \in BOOLEAN /\ v11' \in BOOLEAN
  BY DEF PushInv, PushTypes
<1>2. PushTypes'
  BY <1>0, <1>1 DEF PushInv, PushTypes
<1>3. ASSUME NEW o \in Tasks
      PROVE  /\ v14'[o].kind = "none" => v14'[o].pc = "idle"
             /\ v14'[o].kind = "sync" => v14'[o].pc \in {"lock"} \cup Early \cup Late
             /\ v14'[o].kind = "stop" => v14'[o].pc \in {"lock"} \cup Leaving
             /\ v14'[o].pc \notin {"idle", "lock"} => v13' = o
  BY <1>0 DEF PushInv, TurnInv
<1>4. ASSUME v11', \A o \in Tasks : v14'[o].kind # "stop" PROVE v10' = None
  <2>1. CASE v14[t].kind = "stop"
    BY <1>0, <1>4, <2>1
  <2>2. CASE v14[t].kind # "stop"
    <3>1. v10 = None
      BY <1>0, <1>4, <2>2 DEF PushInv, TurnInv
    <3> QED
      BY <1>4, <3>1
  <2> QED
    BY <2>1, <2>2
<1>5. TurnInv'
  BY <1>3, <1>4 DEF TurnInv
<1>6. ASSUME NEW o \in Tasks
      PROVE  /\ v14'[o].key <= v4' /\ (v3' # "no" => v14'[o].key < v4')
             /\ v14'[o].pc = "subscribe" => v14'[o].key >= 1
  BY <1>0 DEF PushInv, KeyInv
<1>7. v10' # None => v10'.key >= 1 /\ v10'.key <= v4 /\ (v3 # "no" => v10'.key < v4)
  BY DEF PushInv, KeyInv
<1>8. KeyInv'
  BY <1>6, <1>7 DEF PushInv, KeyInv
<1>9. ASSUME NEW o \in Tasks PROVE Holder(v14[o])'
  BY <1>0 DEF Holder, Early, Late, Leaving
<1> QED
  BY <1>2, <1>5, <1>8, <1>9 DEF PushInv, HolderInv

\* The browser keeps its subscription, gives it up, or has a new one.
Moved == \/ v10' \in {v10, None} /\ v12' = v12
         \/ v12' = v12 + 1 /\ v10' # None /\ v10'.ep = v12'

LEMMA JobsStay ==
  ASSUME PushInv, NEW t \in Tasks, NEW r, Turns(t, r), Moved,
         v14[t].pc \notin {"adding", "removing", "leaving"}, v14[t].pc = "left" => v10' = None
  PROVE  /\ \A k \in Jobs : JobInv(k) => JobInv(k)' /\ k.by = None
         /\ v6' = v6 => JobsInv' /\ v6' \in Seq(Jobs)
<1>0. v14[t].pc \notin {"adding", "removing", "leaving"}
  OBVIOUS
<1>1. /\ v14' \in [Tasks -> TabRecords] /\ v14'[t] = r
      /\ \A o \in Tasks : o # t => v14'[o] = v14[o] /\ v14[o].pc \in {"idle", "lock"}
  BY OthersWait
<1>2. v12 \in Nat /\ v5 \in SUBSET Registered /\ v6 \in Seq(Jobs) /\ v3' = v3 /\ v5' = v5
  BY DEF PushInv, PushTypes, Turns
<1>3. ASSUME NEW k \in Jobs, JobInv(k) PROVE k.by = None
  <2>1. ASSUME k.by # None PROVE k.by \in Tasks /\ v14[k.by].pc \in {"adding", "removing", "leaving"}
    BY <1>3, <2>1 DEF JobInv, Jobs
  <2> QED
    BY <1>0, <1>1, <2>1
<1>4. ASSUME NEW s \in Registered, Fits(s) PROVE Fits(s)'
  BY <1>2, <1>4 DEF Fits, Moved, Registered
<1>5. ASSUME NEW k \in Jobs, JobInv(k) PROVE JobInv(k)'
  <2>1. k.by = None
    BY <1>3, <1>5
  <2>2. k.job = "add" => k.sub \in Registered
    BY DEF Jobs
  <2>3. k.job = "add" => Fits(k.sub)'
    BY <1>4, <1>5, <2>2 DEF JobInv
  <2>4. k.job = "remove" => /\ k.ep <= v12'
                            /\ v10' # None /\ k.ep = v10'.ep => \E o \in Tasks : v14'[o].pc \in {"leaving", "left"}
    <3> HAVE k.job = "remove"
    <3>1. k.ep \in Nat /\ k.ep <= v12
      BY <1>5 DEF Jobs, JobInv
    <3>2. ASSUME v10' # None, k.ep = v10'.ep PROVE FALSE
      <4>1. v10' = v10
        BY <1>2, <3>1, <3>2 DEF Moved
      <4>2. PICK o \in Tasks : v14[o].pc \in {"leaving", "left"}
        BY <1>5, <3>2, <4>1 DEF JobInv
      <4> QED
        BY <1>0, <1>1, <3>2, <4>2
    <3> QED
      BY <1>2, <3>1, <3>2 DEF Moved
  <2>5. k.job = "prune" => \A e \in k.dead : e <= v12' /\ (v10' # None => e # v10'.ep)
    <3> HAVE k.job = "prune"
    <3>1. \A e \in k.dead : e \in Nat /\ e <= v12 /\ (v10 # None => e # v10.ep)
      BY <1>5 DEF Jobs, JobInv
    <3> QED
      BY <1>2, <3>1 DEF Moved
  <2> QED
    BY <1>2, <1>5, <2>1, <2>3, <2>4, <2>5 DEF JobInv, Adds
<1>6. v6' = v6 => JobsInv' /\ v6' \in Seq(Jobs)
  BY <1>2, <1>5, QueueStays DEF PushInv
<1> QED
  BY <1>3, <1>5, <1>6

LEMMA EntryStays ==
  ASSUME PushInv, NEW t, NEW r, Turns(t, r), Moved, v7 # None => v6' # <<>>
  PROVE  EntryInv'
<1>1. v12 \in Nat /\ v5 \in SUBSET Registered /\ v8 \in (SUBSET Registered) \cup {None}
  BY DEF PushInv, PushTypes
<1>2. ASSUME NEW s \in v5 PROVE Fits(s)'
  BY <1>1, <1>2 DEF PushInv, EntryInv, Fits, Moved, Registered
<1>3. v8 # None => \A s \in v8 : s.dev = Me => s.ep <= v12'
  BY <1>1 DEF PushInv, EntryInv, Moved, Registered
<1> QED
  BY <1>1, <1>2, <1>3 DEF PushInv, EntryInv, Moved, Turns

\* It goes on: the lock is kept, and nothing is synchronised.
LEMMA TurnGoes ==
  ASSUME PushInv, NEW t \in Tasks, NEW r, Turns(t, r), Moved,
         v13' = t, v15' = v15 \/ v15' = FALSE, v13 = t \/ v15' = FALSE,
         v10' \in Browsers \cup {None}, v10' # v10 => v11 = FALSE, r.pc # "idle",
         r.key <= v4, v3 # "no" => r.key < v4, r.pc = "subscribe" => r.key >= 1,
         v10' # v10 /\ v10' # None => v10'.key >= 1 /\ v10'.key <= v4 /\ (v3 # "no" => v10'.key < v4),
         ~v9 => v6' = <<>>, v7 # None => v6' # <<>>,
         Holder(r)', JobsInv', v6' \in Seq(Jobs)
  PROVE  PushInv'
<1>1. EntryInv'
  BY EntryStays
<1>2. v15' = FALSE
  BY PushAssumption DEF PushInv, SyncInv, PushTypes, Push!PushAssumption
<1>3. v15' \in BOOLEAN
  BY <1>2
<1>4. v12' \in Nat
  BY DEF PushInv, PushTypes, Moved
<1>5. SyncInv'
  BY <1>2 DEF SyncInv
<1>6. r.kind # "none"
  BY DEF Turns, PushInv, TurnInv
<1> QED
  BY <1>1, <1>3, <1>4, <1>5, <1>6, TurnStep

\* It ends.  After a synchronisation without a problem the agent has what the
\* browser has.
LEMMA TurnEnds ==
  ASSUME PushInv, NEW t \in Tasks, NEW ok \in BOOLEAN, Push!End(t, ok),
         v13 = t \/ (v13 = None /\ v10' = v10), v14[t].pc # "idle",
         v1' = v1, v2' = v2, v3' = v3, v4' = v4, v5' = v5, v7' = v7, v8' = v8, v9' = v9, v11' = v11,
         v10' \in {v10, None}, v12' = v12,
         v14[t].kind = "stop" => v10' = None,
         ok /\ v14[t].kind = "sync" /\ ~v11 /\ ~v14[t].lost =>
           v10' = v10 /\ v10 # None /\ v10.key = v1 /\ Mine \in v5,
         ~v9 => v6' = <<>>, v7 # None => v6' # <<>>,
         Turns(t, Push!NoTask) => JobsInv' /\ v6' \in Seq(Jobs)
  PROVE  PushInv'
<1>1. PICK r : r = Push!NoTask
  OBVIOUS
<1>2. /\ r \in TabRecords /\ r.kind = "none" /\ r.pc = "idle" /\ r.key = 0
  BY <1>1 DEF Push!NoTask, TabRecords
<1>3. v14' = [v14 EXCEPT ![t] = r] /\ v13' = None
  BY <1>1 DEF Push!End
<1>4. Turns(t, r)
  BY <1>2, <1>3 DEF Turns
<1>5. Moved
  BY DEF Moved
<1>6. EntryInv'
  BY <1>4, <1>5, EntryStays
<1>7. v15' = v15 \/ (v15' = (~v11 /\ ~v14[t].lost) /\ ok /\ v14[t].kind = "sync")
  BY Zenon DEF Push!End
<1>8. v15' \in BOOLEAN
  BY <1>7 DEF PushInv, PushTypes
<1>9. Mine' = Mine \/ v10' # v10
  BY DEF Mine
<1>10. v15 => v13 = None
  BY DEF PushInv, SyncInv
<1>11. SyncInv'
  <2>1. ASSUME v15' PROVE v10' = v10 /\ v10 # None /\ v10.key = v1 /\ Mine \in v5
    <3>1. CASE v15
      BY <1>10, <3>1, PushAssumption DEF PushInv, SyncInv, Push!PushAssumption
    <3>2. CASE ~v15
      <4>1. v15' = (~v11 /\ ~v14[t].lost) /\ ok /\ v14[t].kind = "sync"
        BY <1>7, <2>1, <3>2
      <4>2. ~v11 /\ ~v14[t].lost
        BY <2>1, <4>1
      <4> QED
        BY <4>1, <4>2
    <3> QED
      BY <3>1, <3>2
  <2> QED
    BY <1>3, <1>9, <2>1 DEF SyncInv
<1>12. Holder(r)'
  BY <1>2 DEF Holder, Early, Late, Leaving
<1>13. JobsInv' /\ v6' \in Seq(Jobs)
  BY <1>1, <1>4
<1>14. /\ v4 \in Nat /\ (v3 # "no" => 0 < v4) /\ v10' \in Browsers \cup {None} /\ v12' \in Nat
  BY DEF PushInv, PushTypes, KeyInv, TabRecords
<1>15. /\ r.key <= v4 /\ (v3 # "no" => r.key < v4) /\ r.pc # "subscribe"
  BY <1>2, <1>14
<1>16. v10' # v10 => v10' = None
  OBVIOUS
<1>17. r.kind = "none" /\ v14[t].kind = "stop" => v10' = None
  OBVIOUS
<1> QED
  BY <1>4, <1>6, <1>8, <1>11, <1>12, <1>13, <1>14, <1>15, <1>16, <1>17, TurnStep

\* A tab that is at work has the lock.
LEMMA AtWork ==
  ASSUME PushInv, NEW t \in Tasks, v14[t].pc \notin {"idle", "lock"}
  PROVE  /\ v13 = t /\ v14[t] \in TabRecords
         /\ v14[t].kind = "sync" \/ v14[t].kind = "stop"
         /\ v14[t].kind = "sync" => v14[t].pc \in Early \cup Late
         /\ v14[t].kind = "stop" => v14[t].pc \in Leaving
         /\ Holder(v14[t]) /\ v14[t].key <= v4 /\ (v3 # "no" => v14[t].key < v4)
         /\ v14[t].pc = "subscribe" => v14[t].key >= 1
         /\ v10 \in Browsers \cup {None} /\ v1 \in Nat /\ v2 \in Nat /\ v4 \in Nat /\ v12 \in Nat
BY DEF PushInv, PushTypes, TurnInv, KeyInv, HolderInv, TabRecords

\* Its record when it goes on at p.
At(t, p) == [v14[t] EXCEPT !.pc = p]

LEMMA GoesOn ==
  ASSUME PushInv, NEW t \in Tasks, v14[t].pc \notin {"idle", "lock"},
         NEW p \in Early \cup Late \cup Leaving, NEW r, r = At(t, p), Push!Go(t, p),
         IF v14[t].pc \in Leaving THEN p \in Leaving ELSE p \notin Leaving,
         v1' = v1, v2' = v2, v3' = v3, v4' = v4, v5' = v5, v7' = v7, v8' = v8, v9' = v9, v11' = v11
  PROVE  /\ Turns(t, r) /\ r.pc = p /\ r.have = v14[t].have /\ r.lost = v14[t].lost
         /\ r.registered = v14[t].registered /\ r.key = v14[t].key
         /\ v13 = t /\ v13' = t /\ v15' = v15
<1> USE DEF At, Push!Go
<1>1. v13 = t /\ v14[t] \in TabRecords /\ v14 \in [Tasks -> TabRecords]
  BY AtWork DEF PushInv, PushTypes
<1>2. /\ r \in TabRecords /\ r.pc = p /\ r.have = v14[t].have /\ r.lost = v14[t].lost
      /\ r.registered = v14[t].registered /\ r.key = v14[t].key /\ r.kind = v14[t].kind
  BY <1>1 DEF TabRecords
<1>3. v14' = [v14 EXCEPT ![t] = r]
  BY <1>1
<1>4. \/ r.kind = "sync" /\ p \in Early \cup Late
      \/ r.kind = "stop" /\ p \in Leaving
  BY <1>2, AtWork DEF Early, Late, Leaving
<1>5. v13' = t /\ v15' = v15
  BY <1>1
<1> QED
  BY <1>1, <1>2, <1>3, <1>4, <1>5 DEF Turns

LEMMA BeginStep ==
  ASSUME PushInv, NEW t \in Tasks, Push!Begin(t)
  PROVE  PushInv'
<1>0. /\ v1' = v1 /\ v2' = v2 /\ v3' = v3 /\ v4' = v4 /\ v5' = v5 /\ v6' = v6 /\ v7' = v7 /\ v8' = v8
      /\ v9' = v9 /\ v10' = v10 /\ v11' = v11 /\ v12' = v12 /\ v14[t].pc = "lock" /\ v13 = None
      /\ v14 \in [Tasks -> TabRecords] /\ v10 \in Browsers \cup {None}
      /\ ~v9 => v6' = <<>>
      /\ v7 # None => v6' # <<>>
      /\ v14[t].key <= v4 /\ (v3 # "no" => v14[t].key < v4)
  BY DEF Push!Begin, Push!agentVars, PushInv, PushTypes, KeyInv, EntryInv
<1>1. Moved
  BY <1>0 DEF Moved
<1>2. CASE Push!End(t, FALSE) /\ (v14[t].kind = "stop" => v10 = None)
  <2>1. Turns(t, Push!NoTask) => JobsInv' /\ v6' \in Seq(Jobs)
    BY <1>0, <1>1, JobsStay
  <2>2. v14[t].pc # "idle" /\ FALSE \in BOOLEAN /\ v10' \in {v10, None}
    BY <1>0
  <2> QED
    BY <1>0, <1>2, <2>1, <2>2, TurnEnds
<1>3. CASE /\ ~((v14[t].kind = "sync" /\ Push!Stopped) \/ (v14[t].kind = "stop" /\ v10 = None))
           /\ v14' = [v14 EXCEPT ![t].have = v10,
                                 ![t].pc = IF v14[t].kind = "sync" THEN "status" ELSE "leave"]
           /\ v13' = t /\ v15' = FALSE
  <2>1. PICK r : r = [v14[t] EXCEPT !.have = v10, !.pc = IF v14[t].kind = "sync" THEN "status" ELSE "leave"]
    OBVIOUS
  <2>2. v14[t].kind \in {"sync", "stop"} /\ (v14[t].kind = "stop" => v10 # None)
    BY <1>0, <1>3 DEF PushInv, TurnInv, TabRecords
  <2>3. /\ r \in TabRecords /\ r.have = v10 /\ r.kind = v14[t].kind /\ r.key = v14[t].key
        /\ r.pc = IF v14[t].kind = "sync" THEN "status" ELSE "leave"
    BY <1>0, <2>1 DEF TabRecords, Early, Late, Leaving
  <2>4. v14' = [v14 EXCEPT ![t] = r]
    BY <1>0, <1>3, <2>1
  <2>5. Turns(t, r)
    BY <1>0, <1>3, <2>2, <2>3, <2>4 DEF Turns, Early, Leaving
  <2>6. Holder(r)'
    BY <1>0, <2>2, <2>3 DEF Holder, Early, Late, Leaving
  <2>7. JobsInv' /\ v6' \in Seq(Jobs)
    BY <1>0, <1>1, <2>5, JobsStay
  <2>8. r.pc # "subscribe" /\ r.pc # "idle"
    BY <2>2, <2>3
  <2> QED
    BY <1>0, <1>1, <1>3, <2>3, <2>5, <2>6, <2>7, <2>8, TurnGoes
<1> QED
  BY <1>2, <1>3 DEF Push!Begin

LEMMA StatusStep ==
  ASSUME PushInv, NEW t \in Tasks, Push!Status(t)
  PROVE  PushInv'
<1>0. /\ v1' = v1 /\ v2' = v2 /\ v3' = v3 /\ v4' = v4 /\ v5' = v5 /\ v6' = v6 /\ v7' = v7 /\ v8' = v8
      /\ v9' = v9 /\ v10' = v10 /\ v11' = v11 /\ v12' = v12 /\ v14[t].pc = "status" /\ v13' = v13
      /\ v15' = v15 /\ v14 \in [Tasks -> TabRecords] /\ v5 \in SUBSET Registered
      /\ ~v9 => v6' = <<>>
      /\ v7 # None => v6' # <<>>
  BY DEF Push!Status, Push!agentVars, PushInv, PushTypes, KeyInv, EntryInv
<1>1. Moved
  BY <1>0 DEF Moved
<1>2. v13 = t /\ v14[t].have = v10 /\ v14[t].kind = "sync" /\ v10 \in Browsers \cup {None}
      /\ v14[t] \in TabRecords /\ v14[t].key <= v4 /\ (v3 # "no" => v14[t].key < v4)
  BY <1>0, AtWork DEF Holder, Early, Leaving
<1>3. PICK b : b = (v10 # None /\ \E s \in v5 : s.dev = Me /\ s.ep = v10.ep)
  OBVIOUS
<1>4. b \in BOOLEAN
  BY <1>3
<1>5. PICK r : r = [v14[t] EXCEPT !.pc = "key", !.registered = b]
  OBVIOUS
<1>6. v14' = [v14 EXCEPT ![t] = r]
  <2>1. v14' = [v14 EXCEPT ![t].pc = "key",
                  ![t].registered = v14[t].have # None /\ \E s \in v5 : s.dev = Me /\ s.ep = v14[t].have.ep]
    BY DEF Push!Status
  <2>2. v14' = [v14 EXCEPT ![t].pc = "key", ![t].registered = b]
    BY <1>2, <1>3, <2>1
  <2> QED
    BY <1>0, <1>5, <2>2
<1>7. /\ r \in TabRecords /\ r.pc = "key" /\ r.have = v10 /\ r.registered = b /\ r.kind = "sync"
      /\ r.key = v14[t].key
  BY <1>2, <1>4, <1>5 DEF TabRecords, Early
<1>8. Turns(t, r)
  BY <1>0, <1>2, <1>6, <1>7 DEF Turns, Early
<1>9. b => v10 # None /\ Mine \in v5
  <2> HAVE b
  <2>1. PICK s \in v5 : s.dev = Me /\ s.ep = v10.ep
    BY <1>3
  <2>2. v10 # None
    BY <1>3
  <2>3. s.key = v10.key /\ s \in Registered
    BY <1>0, <2>1, <2>2 DEF PushInv, EntryInv, Fits
  <2>4. s = Mine
    BY <2>1, <2>3 DEF Registered, Mine
  <2> QED
    BY <2>2, <2>4
<1>10. Holder(r)'
  BY <1>0, <1>7, <1>9 DEF Holder, Early, Late, Leaving, Mine
<1>11. JobsInv' /\ v6' \in Seq(Jobs)
  BY <1>0, <1>1, <1>8, JobsStay
<1>12. r.pc # "subscribe" /\ r.pc # "idle" /\ v13' = t
  BY <1>0, <1>2, <1>7
<1> QED
  BY <1>0, <1>1, <1>2, <1>7, <1>8, <1>10, <1>11, <1>12, TurnGoes

\* A tab that keeps the agent as it is and makes no job.
Quiet == /\ v1' = v1 /\ v2' = v2 /\ v3' = v3 /\ v4' = v4 /\ v5' = v5 /\ v6' = v6
         /\ v7' = v7 /\ v8' = v8 /\ v9' = v9 /\ v11' = v11

LEMMA QuietFacts ==
  ASSUME PushInv, Quiet
  PROVE  /\ ~v9 => v6' = <<>>
         /\ v7 # None => v6' # <<>>
BY DEF PushInv, KeyInv, EntryInv, Quiet

\* It ends, having left the queue alone.
LEMMA QuietEnd ==
  ASSUME PushInv, NEW t \in Tasks, NEW ok \in BOOLEAN, Push!End(t, ok), Quiet,
         v14[t].pc \notin {"idle", "lock", "adding", "removing", "leaving"}, v12' = v12,
         v10' \in {v10, None}, v14[t].kind = "stop" => v10' = None,
         ok /\ v14[t].kind = "sync" /\ ~v11 /\ ~v14[t].lost =>
           v10' = v10 /\ v10 # None /\ v10.key = v1 /\ Mine \in v5
  PROVE  PushInv'
<1>1. Moved
  BY DEF Moved
<1>2. v13 = t
  BY AtWork
<1>3. v14[t].pc = "left" => v10' = None
  BY AtWork DEF Early, Late, Leaving
<1>4. Turns(t, Push!NoTask) => JobsInv' /\ v6' \in Seq(Jobs)
  BY <1>1, <1>3, JobsStay DEF Quiet
<1> QED
  BY <1>2, <1>4, QuietFacts, TurnEnds DEF Quiet

\* It goes on, with the record r, having left the queue alone.
LEMMA QuietGo ==
  ASSUME PushInv, NEW t \in Tasks, NEW r, Turns(t, r), Quiet, Moved,
         v14[t].pc \notin {"idle", "lock", "adding", "removing", "leaving", "left"},
         v13' = v13, v15' = v15, r.pc # "idle",
         v10' \in Browsers \cup {None}, v10' # v10 => v11 = FALSE,
         r.key <= v4, v3 # "no" => r.key < v4, r.pc = "subscribe" => r.key >= 1,
         v10' # v10 /\ v10' # None => v10'.key >= 1 /\ v10'.key <= v4 /\ (v3 # "no" => v10'.key < v4),
         Holder(r)'
  PROVE  PushInv'
<1>1. v13 = t
  BY AtWork
<1>2. JobsInv' /\ v6' \in Seq(Jobs)
  BY JobsStay DEF Quiet
<1> QED
  BY <1>1, <1>2, QuietFacts, TurnGoes DEF Quiet

LEMMA PlanStep ==
  ASSUME PushInv, NEW t \in Tasks, Push!Plan(t)
  PROVE  PushInv'
<1>0. /\ Quiet /\ v10' = v10 /\ v12' = v12 /\ v14[t].pc = "key" /\ v2 # 0
  BY DEF Push!Plan, Push!agentVars, Push!End, Quiet
<1>1. /\ v13 = t /\ v14[t].have = v10 /\ v14[t].kind = "sync" /\ v10 \in Browsers \cup {None}
      /\ v14[t] \in TabRecords /\ v14[t].key <= v4 /\ (v3 # "no" => v14[t].key < v4)
      /\ v2 = v1 /\ v3 = "no" /\ v1 \in Nat /\ v1 <= v4 /\ v14 \in [Tasks -> TabRecords]
      /\ v14[t].registered => v10 # None /\ (Mine \in v5 \/ v10.key # v1)
  BY <1>0, AtWork DEF PushInv, PushTypes, KeyInv, Holder, Early, Leaving
<1>2. Moved
  BY <1>0 DEF Moved
<1>3. CASE /\ v14' = [v14 EXCEPT ![t].pc = "subscribe", ![t].key = v2]
           /\ v13' = v13 /\ v15' = v15
  <2>1. PICK r : r = [v14[t] EXCEPT !.pc = "subscribe", !.key = v2]
    OBVIOUS
  <2>2. /\ r \in TabRecords /\ r.pc = "subscribe" /\ r.have = v10 /\ r.kind = "sync" /\ r.key = v1
    BY <1>1, <2>1 DEF TabRecords, Early
  <2>3. v14' = [v14 EXCEPT ![t] = r]
    BY <1>1, <1>3, <2>1
  <2>4. Turns(t, r)
    BY <1>0, <1>1, <1>3, <2>2, <2>3 DEF Turns, Early, Quiet
  <2>5. Holder(r)'
    BY <1>0, <1>1, <2>2 DEF Holder, Early, Late, Leaving, Quiet
  <2>6. r.key <= v4 /\ r.key >= 1
    BY <1>0, <1>1, <2>2
  <2> QED
    BY <1>0, <1>1, <1>2, <1>3, <2>2, <2>4, <2>5, <2>6, QuietGo
<1>4. CASE v10 # None /\ v10.key = v2 /\ v14[t].registered /\ Push!End(t, TRUE)
  BY <1>0, <1>1, <1>4, QuietEnd
<1>5. CASE v10 # None /\ v10.key = v2 /\ Push!Go(t, "register")
  <2>1. PICK r : r = At(t, "register")
    OBVIOUS
  <2>2. /\ Turns(t, r) /\ r.pc = "register" /\ r.have = v14[t].have /\ r.lost = v14[t].lost
        /\ r.registered = v14[t].registered /\ r.key = v14[t].key
    BY <1>0, <1>5, <2>1, GoesOn DEF Quiet, Late, Leaving
  <2>3. Holder(r)'
    BY <1>0, <1>1, <1>5, <2>2 DEF Holder, Early, Late, Leaving, Quiet
  <2> QED
    <3>1. /\ v13' = v13 /\ v15' = v15 /\ r.pc # "idle" /\ r.pc # "subscribe"
          /\ r.key <= v4 /\ (v3 # "no" => r.key < v4) /\ v10' \in Browsers \cup {None}
          /\ v14[t].pc \notin {"idle", "lock", "adding", "removing", "leaving", "left"}
      BY <1>0, <1>1, <1>5, <2>2 DEF Push!Go
    <3> QED
      BY <1>0, <1>2, <2>2, <2>3, <3>1, QuietGo
<1> QED
  BY <1>1, <1>3, <1>4, <1>5 DEF Push!Plan

LEMMA SubscribeStep ==
  ASSUME PushInv, NEW t \in Tasks, Push!Subscribe(t)
  PROVE  PushInv'
<1>0. Quiet /\ v14[t].pc = "subscribe"
  BY DEF Push!Subscribe, Push!agentVars, Quiet
<1>1. /\ v13 = t /\ v14[t].have = v10 /\ v14[t].kind = "sync" /\ v10 \in Browsers \cup {None}
      /\ v14[t] \in TabRecords /\ v14[t].key <= v4 /\ (v3 # "no" => v14[t].key < v4)
      /\ v14[t].key >= 1 /\ (~v14[t].lost => v14[t].key = v1) /\ v12 \in Nat
      /\ v10 # None => v10.ep = v12
  BY <1>0, AtWork DEF PushInv, EntryInv, Holder, Early, Leaving
<1>2. CASE v11 /\ Push!End(t, TRUE) /\ v10' = v10 /\ v12' = v12
  BY <1>0, <1>1, <1>2, QuietEnd
<1>3. CASE v10' = None /\ Push!End(t, FALSE) /\ v12' = v12
  BY <1>0, <1>1, <1>3, QuietEnd
<1>4. CASE /\ v11 = FALSE /\ v12' = v12 + 1 /\ v10' = [ep |-> v12', key |-> v14[t].key]
           /\ Push!Go(t, "register")
  <2>1. PICK r : r = At(t, "register")
    OBVIOUS
  <2>2. /\ Turns(t, r) /\ r.pc = "register" /\ r.have = v14[t].have /\ r.lost = v14[t].lost
        /\ r.registered = v14[t].registered /\ r.key = v14[t].key
    BY <1>0, <1>4, <2>1, GoesOn DEF Quiet, Late, Leaving
  <2>3. v10' \in Browsers /\ v10' # None /\ v10'.ep = v12' /\ v10'.key = v14[t].key
    <3>1. v14[t].key \in Nat /\ v12' \in Nat
      BY <1>1, <1>4 DEF TabRecords
    <3>2. v10' \in Browsers
      BY <1>4, <3>1 DEF Browsers
    <3> QED
      BY <1>4, <3>2, PushAssumption DEF Browsers, Push!PushAssumption
  <2>4. Holder(r)'
    BY <1>0, <1>1, <1>4, <2>2, <2>3 DEF Holder, Early, Late, Leaving, Quiet, Browsers
  <2>5. Moved
    BY <1>4, <2>3 DEF Moved
  <2> QED
    <3>1. /\ v13' = v13 /\ v15' = v15 /\ r.pc # "idle" /\ r.pc # "subscribe"
          /\ r.key <= v4 /\ (v3 # "no" => r.key < v4) /\ v10' \in Browsers \cup {None}
          /\ v14[t].pc \notin {"idle", "lock", "adding", "removing", "leaving", "left"}
      BY <1>0, <1>1, <1>4, <2>2, <2>3 DEF Push!Go
    <3>2. v10'.key >= 1 /\ v10'.key <= v4 /\ (v3 # "no" => v10'.key < v4)
      BY <1>1, <2>3
    <3> QED
      BY <1>0, <1>4, <2>2, <2>4, <2>5, <3>1, <3>2, QuietGo
<1>5. v11 \in BOOLEAN
  BY DEF PushInv, PushTypes
<1> QED
  BY <1>2, <1>3, <1>4, <1>5 DEF Push!Subscribe, Push!Stopped

\* It asks the agent for something, and waits.
LEMMA JobStep ==
  ASSUME PushInv, NEW t \in Tasks, NEW p \in Early \cup Late \cup Leaving, NEW r, r = At(t, p), Push!Go(t, p),
         v14[t].pc \in {"register", "added", "leave"},
         IF v14[t].pc \in Leaving THEN p \in Leaving ELSE p \in Late,
         NEW j \in Jobs, Push!Enqueue(j), j.job # "drop", Adds(j) => j.sub.ep = v12,
         v1' = v1, v2' = v2, v3' = v3, v4' = v4, v5' = v5, v7' = v7, v8' = v8, v9' = v9, v11' = v11,
         v10' = v10, v12' = v12, JobInv(j)', Holder(r)'
  PROVE  PushInv'
<1>1. v14[t].pc \notin {"idle", "lock", "adding", "removing", "leaving", "left"}
  OBVIOUS
<1>2. /\ v13 = t /\ v10 \in Browsers \cup {None} /\ v14[t].key <= v4 /\ (v3 # "no" => v14[t].key < v4)
  BY <1>1, AtWork
<1>3. /\ Turns(t, r) /\ r.pc = p /\ r.key = v14[t].key /\ v13' = t /\ v15' = v15
  BY <1>1, GoesOn DEF Late, Leaving
<1>4. Moved
  BY DEF Moved
<1>5. \A k \in Jobs : JobInv(k) => JobInv(k)' /\ k.by = None
  BY <1>1, <1>3, <1>4, JobsStay
<1>6. v6 \in Seq(Jobs) /\ v9 /\ v6' = Append(v6, j)
  BY DEF PushInv, PushTypes, Push!Enqueue
<1>7. ASSUME NEW i \in 1..Len(v6) PROVE Before(v6[i], j)
  <2>1. v6[i] \in Jobs /\ JobInv(v6[i])
    BY <1>6 DEF PushInv, JobsInv
  <2>2. v6[i].by = None
    BY <1>5, <2>1
  <2>3. Adds(v6[i]) => v6[i].sub.ep <= v12
    BY <2>1 DEF JobInv, Adds, Fits
  <2> QED
    BY <2>2, <2>3 DEF Before
<1>8. JobsInv' /\ v6' \in Seq(Jobs)
  BY <1>5, <1>6, <1>7, QueueJoins DEF PushInv
<1>9. v6' # <<>>
  BY <1>6
<1>10. r.pc # "subscribe" /\ r.pc # "idle"
  BY <1>1, <1>3 DEF Late, Leaving
<1> QED
  BY <1>2, <1>3, <1>4, <1>6, <1>8, <1>9, <1>10, TurnGoes

LEMMA TabRegisters ==
  ASSUME PushInv, NEW t \in Tasks, Push!Register(t)
  PROVE  PushInv'
<1>0. v14[t].pc = "register" /\ v11' = v11 /\ v12' = v12
  BY DEF Push!Register
<1>1. /\ v14[t].kind = "sync" /\ v10 # None /\ v10 \in Browsers /\ v10.ep = v12 /\ v12 \in Nat
      /\ v14[t].have \in {None, v10} \/ v14[t].have.ep < v10.ep
      /\ ~v14[t].lost => v10.key = v1
      /\ v5 \in SUBSET Registered
  BY <1>0, AtWork DEF PushInv, PushTypes, EntryInv, Holder, Early, Late, Leaving
<1>2. CASE v11 /\ v10' \in {v10, None} /\ Push!End(t, TRUE) /\ UNCHANGED Push!agentVars
  <2>1. Quiet
    BY <1>0, <1>2 DEF Quiet, Push!agentVars
  <2> QED
    BY <1>0, <1>1, <1>2, <2>1, QuietEnd
<1>3. ASSUME NEW j, j = [job |-> "add", by |-> t, sub |-> Mine],
             Push!Enqueue(j), Push!Go(t, "adding"),
             UNCHANGED <<v1, v2, v3, v4, v5, v7, v8, v9, v10>>
      PROVE  PushInv'
  <2>1. PICK r : r = At(t, "adding")
    OBVIOUS
  <2>2. /\ Turns(t, r) /\ r.pc = "adding" /\ r.have = v14[t].have /\ r.lost = v14[t].lost
        /\ v14' \in [Tasks -> TabRecords] /\ v14'[t] = r
    BY <1>0, <1>3, <2>1, GoesOn, OthersWait DEF Late, Leaving
  <2>3. Mine \in Registered /\ Mine.dev = Me /\ Mine.ep = v10.ep /\ Mine.key = v10.key /\ Mine' = Mine
    BY <1>1, <1>3 DEF Registered, Browsers, Mine
  <2>4. j \in Jobs /\ j.job = "add" /\ j.by = t /\ j.sub = Mine
    BY <1>3, <2>3 DEF Jobs
  <2>5. Fits(j.sub)' /\ \A s \in v5 : s.dev = Me => s.ep <= j.sub.ep
    BY <1>0, <1>1, <1>3, <2>3, <2>4 DEF Fits, PushInv, EntryInv
  <2>6. JobInv(j)'
    BY <1>3, <2>2, <2>3, <2>4, <2>5 DEF JobInv, Adds
  <2>7. Holder(r)'
    BY <1>1, <1>3, <2>2, <2>3 DEF Holder, Early, Late, Leaving
  <2>8. "adding" \in Late /\ v14[t].pc \notin Leaving
    BY <1>0 DEF Late, Leaving
  <2>9. j.sub.ep = v12
    BY <1>1, <2>3, <2>4
  <2> QED
    BY <1>0, <1>3, <2>1, <2>4, <2>6, <2>7, <2>8, <2>9, JobStep
<1>4. CASE ~v11
  <2>1. PICK j : j = [job |-> "add", by |-> t, sub |-> Mine]
    OBVIOUS
  <2>2. Push!Enqueue(j) /\ Push!Go(t, "adding") /\ UNCHANGED <<v1, v2, v3, v4, v5, v7, v8, v9, v10>>
    BY <1>4, <2>1 DEF Push!Register, Push!Stopped, Mine
  <2> QED
    BY <1>3, <2>1, <2>2
<1>5. CASE v11
  <2>1. v10' \in {v10, None} /\ Push!End(t, TRUE) /\ UNCHANGED Push!agentVars
    BY <1>5 DEF Push!Register, Push!Stopped
  <2> QED
    BY <1>2, <1>5, <2>1
<1> QED
  BY <1>4, <1>5

LEMMA AddedStep ==
  ASSUME PushInv, NEW t \in Tasks, Push!Added(t)
  PROVE  PushInv'
<1>0. /\ v14[t].pc = "added" /\ v10' = v10 /\ v11' = v11 /\ v12' = v12 /\ v1' = v1 /\ v2' = v2
      /\ v3' = v3 /\ v4' = v4 /\ v5' = v5 /\ v7' = v7 /\ v8' = v8 /\ v9' = v9 /\ Mine' = Mine
  BY DEF Push!Added, Mine
<1>1. /\ v14[t].kind = "sync" /\ v10 # None /\ v10 \in Browsers /\ v10.ep = v12 /\ v12 \in Nat
      /\ v14[t].have \in {None, v10} \/ v14[t].have.ep < v10.ep
      /\ ~v14[t].lost => v10.key = v1 /\ Mine \in v5
      /\ v14[t] \in TabRecords
  BY <1>0, AtWork DEF PushInv, EntryInv, Holder, Early, Late, Leaving
<1>2. CASE v14[t].have \in {None, v10}
  <2>1. Push!End(t, TRUE) /\ v6' = v6
    BY <1>2 DEF Push!Added
  <2>2. Quiet
    BY <1>0, <2>1 DEF Quiet
  <2> QED
    BY <1>0, <1>1, <2>1, <2>2, QuietEnd
<1>3. CASE v14[t].have \notin {None, v10}
  <2>1. PICK j : j = [job |-> "remove", by |-> t, ep |-> v14[t].have.ep]
    OBVIOUS
  <2>2. Push!Enqueue(j) /\ Push!Go(t, "removing")
    BY <1>3, <2>1 DEF Push!Added
  <2>3. PICK r : r = At(t, "removing")
    OBVIOUS
  <2>4. /\ Turns(t, r) /\ r.pc = "removing" /\ r.have = v14[t].have /\ r.lost = v14[t].lost
        /\ v14' \in [Tasks -> TabRecords] /\ v14'[t] = r
    BY <1>0, <2>2, <2>3, GoesOn, OthersWait DEF Late, Leaving
  <2>5. v14[t].have.ep \in Nat /\ v14[t].have.ep < v12
    BY <1>1, <1>3 DEF TabRecords, Browsers
  <2>6. j \in Jobs /\ j.job = "remove" /\ j.by = t /\ j.ep < v12
    BY <2>1, <2>5 DEF Jobs
  <2>7. JobInv(j)'
    <3>1. j.ep <= v12 /\ j.ep # v10.ep
      BY <1>1, <2>1, <2>5
    <3>2. v14'[j.by].pc = "removing"
      BY <2>4, <2>6
    <3> QED
      BY <1>0, <2>6, <3>1, <3>2 DEF JobInv, Adds
  <2>8. Holder(r)'
    BY <1>0, <1>1, <2>4 DEF Holder, Early, Late, Leaving
  <2>9. "removing" \in Late /\ v14[t].pc \notin Leaving
    BY <1>0 DEF Late, Leaving
  <2>10. ~Adds(j) /\ j.job # "drop"
    BY <2>6 DEF Adds
  <2> QED
    BY <1>0, <2>2, <2>3, <2>6, <2>7, <2>8, <2>9, <2>10, JobStep
<1> QED
  BY <1>2, <1>3

LEMMA LeaveStep ==
  ASSUME PushInv, NEW t \in Tasks, Push!Leave(t)
  PROVE  PushInv'
<1>0. /\ v14[t].pc = "leave" /\ v10' = v10 /\ v11' = v11 /\ v12' = v12 /\ v1' = v1 /\ v2' = v2
      /\ v3' = v3 /\ v4' = v4 /\ v5' = v5 /\ v7' = v7 /\ v8' = v8 /\ v9' = v9
  BY DEF Push!Leave
<1>1. /\ v14[t].have = v10 /\ v10 # None /\ v10 \in Browsers /\ v10.ep = v12 /\ v12 \in Nat
  BY <1>0, AtWork DEF PushInv, EntryInv, Holder, Leaving
<1>2. PICK j : j = [job |-> "remove", by |-> t, ep |-> v14[t].have.ep]
  OBVIOUS
<1>3. Push!Enqueue(j) /\ Push!Go(t, "leaving")
  BY <1>2 DEF Push!Leave
<1>4. PICK r : r = At(t, "leaving")
  OBVIOUS
<1>5. /\ Turns(t, r) /\ r.pc = "leaving" /\ r.have = v14[t].have
      /\ v14' \in [Tasks -> TabRecords] /\ v14'[t] = r
  BY <1>0, <1>3, <1>4, GoesOn, OthersWait DEF Leaving
<1>6. j \in Jobs /\ j.job = "remove" /\ j.by = t /\ j.ep = v12
  BY <1>1, <1>2 DEF Jobs, Browsers
<1>7. JobInv(j)'
  BY <1>0, <1>1, <1>5, <1>6 DEF JobInv, Adds
<1>8. Holder(r)'
  BY <1>0, <1>1, <1>5 DEF Holder, Early, Late, Leaving
<1>9. "leaving" \in Leaving /\ v14[t].pc \in Leaving
  BY <1>0 DEF Leaving
<1>10. ~Adds(j) /\ j.job # "drop"
  BY <1>6 DEF Adds
<1> QED
  BY <1>0, <1>3, <1>4, <1>6, <1>7, <1>8, <1>9, <1>10, JobStep

LEMMA DoneStep ==
  ASSUME PushInv, NEW t \in Tasks, Push!Removed(t) \/ Push!Left(t)
  PROVE  PushInv'
<1>0. Quiet /\ v12' = v12 /\ v10' \in {v10, None} /\ v14[t].pc \in {"end", "left"} /\ Push!End(t, TRUE)
  BY DEF Push!Removed, Push!Left, Push!agentVars, Quiet
<1>1. /\ v14[t].kind = "stop" => v14[t].pc \in Leaving
      /\ v14[t].kind = "sync" => v14[t].pc \in Early \cup Late
      /\ v14[t].pc = "end" /\ ~v14[t].lost => v10 # None /\ v10.key = v1 /\ Mine \in v5
  BY <1>0, AtWork DEF Holder, Late
<1>2. CASE Push!Removed(t)
  <2>1. v14[t].pc = "end" /\ v10' = v10 /\ v14[t].kind # "stop"
    BY <1>1, <1>2 DEF Push!Removed, Leaving
  <2> QED
    BY <1>0, <1>1, <2>1, QuietEnd
<1>3. CASE Push!Left(t)
  <2>1. v14[t].pc = "left" /\ v10' = None /\ v14[t].kind # "sync"
    BY <1>1, <1>3 DEF Push!Left, Early, Late
  <2> QED
    BY <1>0, <1>1, <2>1, QuietEnd
<1> QED
  BY <1>2, <1>3

\* Who waited for a job does not wait any more; the job may still be done.
LEMMA FailsStep ==
  ASSUME PushInv, NEW t \in Tasks, Push!Fails(t)
  PROVE  PushInv'
<1>0. /\ v10' = v10 /\ v11' = v11 /\ v12' = v12 /\ v1' = v1 /\ v2' = v2 /\ v3' = v3 /\ v4' = v4
      /\ v5' = v5 /\ v7' = v7 /\ v8' = v8 /\ v9' = v9 /\ Mine' = Mine
      /\ v14[t].pc \in {"status", "key", "adding", "register", "removing", "added", "leaving", "leave"}
  BY DEF Push!Fails, Mine
<1>1. /\ v13 = t /\ v14[t] \in TabRecords /\ Holder(v14[t])
      /\ v14[t].kind = "sync" \/ v14[t].kind = "stop"
      /\ v14[t].kind = "sync" => v14[t].pc \in Early \cup Late
      /\ v14[t].kind = "stop" => v14[t].pc \in Leaving
      /\ v14[t].key <= v4 /\ (v3 # "no" => v14[t].key < v4)
      /\ v10 \in Browsers \cup {None}
  BY <1>0, AtWork
<1>2. v6 \in Seq(Jobs)
  BY DEF PushInv, PushTypes
<1>3. /\ v6' \in Seq(Jobs) /\ Len(v6') = Len(v6) /\ Len(v6) \in Nat
      /\ \A i \in 1..Len(v6) :
           /\ v6'[i] = IF v6[i].by = t THEN [v6[i] EXCEPT !.by = None] ELSE v6[i]
           /\ v6[i] \in Jobs /\ v6'[i] \in Jobs
  <2>1. \A j \in Jobs : [j EXCEPT !.by = None] \in Jobs
    BY DEF Jobs
  <2>2. v6' = [i \in DOMAIN v6 |-> IF v6[i].by = t THEN [v6[i] EXCEPT !.by = None] ELSE v6[i]]
    BY DEF Push!Fails
  <2>3. DOMAIN v6 = 1..Len(v6) /\ Len(v6) \in Nat /\ \A i \in 1..Len(v6) : v6[i] \in Jobs
    BY <1>2
  <2>4. \A i \in 1..Len(v6) : /\ v6'[i] = IF v6[i].by = t THEN [v6[i] EXCEPT !.by = None] ELSE v6[i]
                              /\ v6'[i] \in Jobs
    BY <2>1, <2>2, <2>3
  <2>5. DOMAIN v6' = 1..Len(v6)
    BY <2>2, <2>3
  <2>6. v6' \in [1..Len(v6) -> Jobs]
    BY <2>2, <2>3, <2>4, <2>5
  <2>7. v6' \in Seq(Jobs)
    BY <2>3, <2>6
  <2>8. Len(v6') = Len(v6)
    BY <2>3, <2>5, <2>7
  <2> QED
    BY <2>3, <2>4, <2>7, <2>8
<1>4. (~v9 => v6' = <<>>) /\ (v7 # None => v6' # <<>>)
  <2>1. v6 = <<>> <=> Len(v6) = 0
    BY <1>2
  <2>2. v6' = <<>> <=> Len(v6') = 0
    BY <1>3
  <2> QED
    BY <1>3, <2>1, <2>2 DEF PushInv, KeyInv, EntryInv
<1>5. ASSUME NEW r, Turns(t, r), v14[t].pc = "leaving" => r.pc = "left",
             v14[t].pc = "leave" => r.pc = "left"
      PROVE  JobsInv'
  <2>1. /\ v14' \in [Tasks -> TabRecords] /\ v14'[t] = r
        /\ \A o \in Tasks : o # t => v14'[o] = v14[o] /\ v14[o].pc \in {"idle", "lock"}
    BY <1>5, OthersWait
  <2>2. ASSUME NEW i \in 1..Len(v6) 
        PROVE  /\ JobInv(v6[i])' /\ v6'[i].by = None /\ v6'[i].job = v6[i].job
               /\ v6[i].job = "add" => v6'[i].sub = v6[i].sub
    <3>1. PICK k : k = v6[i]
      OBVIOUS
    <3>2. PICK q : q = v6'[i]
      OBVIOUS
    <3>3. k \in Jobs /\ JobInv(k) /\ q = IF k.by = t THEN [k EXCEPT !.by = None] ELSE k
      BY <1>3, <3>1, <3>2 DEF PushInv, JobsInv
    <3>4. k.by # None => k.by = t
      BY <2>1, <3>3 DEF JobInv, Jobs
    <3>5. /\ q.job = k.job /\ q.by = None
          /\ k.job = "add" => q.sub = k.sub
          /\ k.job = "remove" => q.ep = k.ep
          /\ k.job = "prune" => q.dead = k.dead
      BY <3>3, <3>4 DEF Jobs
    <3>6. k.job = "remove" /\ v10 # None /\ k.ep = v10.ep =>
            \E o \in Tasks : v14'[o].pc \in {"leaving", "left"}
      <4> HAVE k.job = "remove" /\ v10 # None /\ k.ep = v10.ep
      <4>1. PICK o \in Tasks : v14[o].pc \in {"leaving", "left"}
        BY <3>3 DEF JobInv
      <4>2. o = t /\ v14'[t].pc = "left"
        BY <1>0, <1>5, <2>1, <4>1
      <4> QED
        BY <4>2
    <3>7. JobInv(q)'
      BY <1>0, <3>3, <3>5, <3>6 DEF JobInv, Adds, Fits
    <3> QED
      BY <3>1, <3>2, <3>5, <3>7 DEF JobInv
  <2>3. ASSUME NEW a \in 1..Len(v6), NEW b \in 1..Len(v6), a < b PROVE Before(v6[a], v6[b])'
    <3>1. Before(v6[a], v6[b])
      BY <1>3, <2>3 DEF PushInv, JobsInv
    <3> QED
      BY <2>2, <3>1 DEF Before, Adds
  <2> QED
    BY <1>3, <2>2, <2>3 DEF JobsInv
<1>6. ASSUME NEW ok \in BOOLEAN, Push!End(t, ok), v14[t].pc \notin {"leaving", "leave"},
             ok => v14[t].pc \in {"removing", "added"}
      PROVE  PushInv'
  <2>1. Turns(t, Push!NoTask) => JobsInv'
    BY <1>5, <1>6
  <2>2. v14[t].kind # "stop"
    BY <1>0, <1>1, <1>6 DEF Leaving
  <2>3. ok /\ ~v14[t].lost => v10 # None /\ v10.key = v1 /\ Mine \in v5
    BY <1>1, <1>6 DEF Holder, Late
  <2> QED
    BY <1>0, <1>1, <1>3, <1>4, <1>6, <2>1, <2>2, <2>3, TurnEnds
<1>7. ASSUME Push!Go(t, "left"), v14[t].pc \in {"leaving", "leave"}
      PROVE  PushInv'
  <2>1. PICK r : r = At(t, "left")
    OBVIOUS
  <2>2. /\ Turns(t, r) /\ r.pc = "left" /\ r.have = v14[t].have /\ v13' = t /\ v15' = v15
        /\ r.key = v14[t].key
    BY <1>0, <1>7, <2>1, GoesOn DEF Leaving
  <2>3. JobsInv'
    BY <1>5, <2>2
  <2>4. Holder(r)'
    BY <1>0, <1>1, <1>7, <2>2 DEF Holder, Early, Late, Leaving
  <2>5. Moved
    BY <1>0 DEF Moved
  <2> QED
    BY <1>0, <1>1, <1>3, <1>4, <2>2, <2>3, <2>4, <2>5, TurnGoes
<1> QED
  BY <1>6, <1>7 DEF Push!Fails

LEMMA PushStep == PushInv /\ [Push!Next]_<<v1, v2, v3, v4, v5, v6, v7, v8, v9, v10, v11, v12, v13, v14, v15>> => PushInv'
<1> SUFFICES ASSUME PushInv, [Push!Next]_<<v1, v2, v3, v4, v5, v6, v7, v8, v9, v10, v11, v12, v13, v14, v15>>
             PROVE  PushInv'
  OBVIOUS
<1>1. CASE UNCHANGED <<v1, v2, v3, v4, v5, v6, v7, v8, v9, v10, v11, v12, v13, v14, v15>>
  BY <1>1 DEF PushInv, PushTypes, TurnInv, KeyInv, EntryInv, Fits, HolderInv, Holder, Mine, JobsInv,
              JobInv, Adds, Before, SyncInv
<1>2. CASE Push!Next
  BY <1>2, KeyStep, AgentStep, DownStep, JobWritesStep, OpenStep, BeginStep, StatusStep, PlanStep,
     SubscribeStep, TabRegisters, AddedStep, LeaveStep, DoneStep, FailsStep DEF Push!Next
<1> QED
  BY <1>1, <1>2

\* Notifications turned off stay off, and a synchronised browser is sent what
\* the agent sends, with any number of tabs, presses, keys and requests that
\* fail and are done later (push.ts, PushPanel.tsx, pushExec.ts).
THEOREM SubscribedAsAskedHolds == MCSpec => []SubscribedAsAsked
<1> DEFINE I == part = "push" => PushInv
<1>1. MCInit => I
  BY InitPush DEF MCInit
<1>2. I /\ [MCNext]_<<part, v, vars>> => I'
  <2> SUFFICES ASSUME I, [MCNext]_<<part, v, vars>>, part' = "push" PROVE PushInv'
    OBVIOUS
  <2>1. part = "push" /\ PushInv
    BY DEF MCNext
  <2>2. [Push!Next]_<<v1, v2, v3, v4, v5, v6, v7, v8, v9, v10, v11, v12, v13, v14, v15>>
    BY <2>1 DEF MCNext, v
  <2> QED
    BY <2>1, <2>2, PushStep
<1>3. I => SubscribedAsAsked
  <2> SUFFICES ASSUME PushInv PROVE Push!StoppedStays /\ Push!SyncedDelivers
    BY DEF SubscribedAsAsked
  <2>1. Push!StoppedStays
    BY DEF PushInv, TurnInv, Push!StoppedStays
  <2>2. Push!SyncedDelivers
    BY DEF PushInv, SyncInv, Mine, Push!SyncedDelivers
  <2> QED
    BY <2>1, <2>2
<1> QED
  BY <1>1, <1>2, <1>3, PTL DEF MCSpec

-----------------------------------------------------------------------------
(* Approvals, for any calls and keys and any number of requests.  As       *)
(* MCPhones names them: v1 is keyOf, v2 call, v3 uses, v4 results, v5      *)
(* entry, v6 of, v7 req, v8 old, v15 label.                                *)

CallStates == {"new", "asked", "done"}
Fates == {"idle", "waiting"} \cup Asks!Ends

AskTypes ==
  /\ v1 \in [Calls -> Keys] /\ v2 \in [Calls -> CallStates] /\ v4 \subseteq Calls
  /\ v5 \in [Keys -> Requests \cup {None}] /\ v6 \in [Requests -> Calls]
  /\ v7 \in [Requests -> Fates] /\ v8 \in [Requests -> SUBSET Calls]

\* Only what is done has a result, and equal calls run one after the other.
CallInv ==
  /\ \A c \in v4 : v2[c] = "done"
  /\ \A c, d \in Calls : v1[d] = v1[c] /\ d < c /\ v2[c] # "new" => d \in v4

\* A request that waits has its key, and the results of the equal calls before
\* its own were there when it came.
WaitInv ==
  /\ \A r \in Requests : v7[r] = "waiting" =>
       /\ v5[v1[v6[r]]] = r
       /\ v2[v6[r]] # "new"
       /\ \A d \in Calls : v1[d] = v1[v6[r]] /\ d < v6[r] => d \in v8[r]
  /\ \A k \in Keys : v5[k] # None => v7[v5[k]] = "waiting" /\ v1[v6[v5[k]]] = k

\* What has been written, and what sweeps have still to look at.
AskData == v3 \subseteq Calls /\ v13 \in [Asks!Sweeps -> SUBSET Requests]

AskInv == AskTypes /\ CallInv /\ WaitInv /\ Asks!LiveNotDropped

LEMMA InitAsks == Asks!Init => AskInv
<1> SUFFICES ASSUME Asks!Init PROVE AskInv
  OBVIOUS
<1> USE DEF Asks!Init
<1>1. AskTypes
  BY ApprovalsAssumption DEF AskTypes, Asks!ApprovalsAssumption, CallStates, Fates
<1>2. CallInv /\ WaitInv /\ Asks!LiveNotDropped
  BY DEF CallInv, WaitInv, Asks!LiveNotDropped
<1> QED
  BY <1>1, <1>2 DEF AskInv

\* Requests settled as o keep the rest as it is.
LEMMA SettleStep ==
  ASSUME AskInv, NEW rs \in SUBSET Requests, NEW o \in Asks!Ends, Asks!Settle(rs, o),
         v1' = v1, v4' = v4, v2' \in [Calls -> CallStates],
         \A c \in Calls : v2'[c] = v2[c] \/ (v2[c] = "asked" /\ v2'[c] = "done"),
         o \in {"swept", "stopped"} => \A r \in rs : v2'[v6[r]] = "done"
  PROVE  AskInv'
<1>0. /\ v6' = v6 /\ v8' = v8
      /\ v7' = [r \in Requests |-> IF r \in rs THEN o ELSE v7[r]]
      /\ v5' = [k \in Keys |-> IF v5[k] \in rs THEN None ELSE v5[k]]
      /\ o # "waiting" /\ o \in Fates
  BY DEF Asks!Settle, Asks!Ends, Fates
<1>1. AskTypes'
  BY <1>0 DEF AskInv, AskTypes
<1>2. CallInv'
  BY <1>0 DEF AskInv, AskTypes, CallInv, CallStates
<1>3. WaitInv'
  <2>1. ASSUME NEW r \in Requests, v7'[r] = "waiting"
        PROVE  /\ v5'[v1'[v6'[r]]] = r /\ v2'[v6'[r]] # "new"
               /\ \A d \in Calls : v1'[d] = v1'[v6'[r]] /\ d < v6'[r] => d \in v8'[r]
    BY <1>0, <2>1 DEF AskInv, AskTypes, WaitInv
  <2>2. ASSUME NEW k \in Keys, v5'[k] # None
        PROVE  v7'[v5'[k]] = "waiting" /\ v1'[v6'[v5'[k]]] = k
    BY <1>0, <2>2 DEF AskInv, AskTypes, WaitInv
  <2> QED
    BY <2>1, <2>2 DEF WaitInv
<1>4. Asks!LiveNotDropped'
  BY <1>0 DEF AskInv, AskTypes, Asks!LiveNotDropped
<1> QED
  BY <1>1, <1>2, <1>3, <1>4 DEF AskInv

\* What only concerns other variables.
LEMMA AskRest ==
  ASSUME AskInv, v1' = v1, v2' = v2, v4' = v4, v5' = v5, v6' = v6, v7' = v7, v8' = v8
  PROVE  AskInv'
BY DEF AskInv, AskTypes, CallInv, WaitInv, Asks!LiveNotDropped

LEMMA ClaudeStep ==
  ASSUME AskInv, NEW c \in Calls, Asks!Decided(c) \/ Asks!WriteUse(c) \/ Asks!WriteResult(c)
  PROVE  AskInv'
<1>0. v1' = v1 /\ v5' = v5 /\ v6' = v6 /\ v7' = v7 /\ v8' = v8
  BY DEF Asks!Decided, Asks!WriteUse, Asks!WriteResult, Asks!mapVars
<1>1. CASE Asks!Decided(c)
  <2>1. v4' = v4 /\ v2[c] = "asked" /\ v2' = [v2 EXCEPT ![c] = "done"]
    BY <1>1 DEF Asks!Decided
  <2>2. AskTypes'
    BY <1>0, <2>1 DEF AskInv, AskTypes, CallStates
  <2>3. CallInv' /\ WaitInv' /\ Asks!LiveNotDropped'
    BY <1>0, <2>1 DEF AskInv, AskTypes, CallInv, WaitInv, Asks!LiveNotDropped
  <2> QED
    BY <2>2, <2>3 DEF AskInv
<1>2. CASE Asks!WriteUse(c)
  BY <1>0, <1>2, AskRest DEF Asks!WriteUse
<1>3. CASE Asks!WriteResult(c)
  <2>1. v2' = v2 /\ v2[c] = "done" /\ v4' = v4 \cup {c}
    BY <1>3 DEF Asks!WriteResult
  <2> QED
    BY <1>0, <2>1 DEF AskInv, AskTypes, CallInv, WaitInv, Asks!LiveNotDropped
<1> QED
  BY <1>1, <1>2, <1>3

LEMMA HookStep ==
  ASSUME AskInv, NEW r \in Requests, NEW c \in Calls, Asks!Hook(r, c)
  PROVE  AskInv'
<1> DEFINE k == v1[c]
           e == v5[k]
<1>0. /\ v1' = v1 /\ v4' = v4 /\ v6' = [v6 EXCEPT ![r] = c] /\ v8' = [v8 EXCEPT ![r] = v4]
      /\ v2' = [v2 EXCEPT ![c] = "asked"] /\ v5' = [v5 EXCEPT ![k] = r]
      /\ v7' = [s \in Requests |-> IF s = r THEN "waiting" ELSE IF s = e THEN "replaced" ELSE v7[s]]
      /\ v7[r] = "idle" /\ v2[c] # "done"
      /\ \A d \in Calls : v1[d] = v1[c] /\ d < c => d \in v4
      /\ \A d \in Calls : v1[d] = v1[c] /\ d > c => v2[d] = "new"
      /\ k \in Keys /\ v4 \in SUBSET Calls
  BY DEF Asks!Hook, Asks!Comes, Asks!Replaced, AskInv, AskTypes
<1>1. AskTypes'
  BY <1>0 DEF AskInv, AskTypes, CallStates, Fates, Asks!Ends
<1>2. CallInv'
  BY <1>0 DEF AskInv, AskTypes, CallInv
<1>3. WaitInv'
  <2>1. ASSUME NEW s \in Requests, v7'[s] = "waiting"
        PROVE  /\ v5'[v1'[v6'[s]]] = s /\ v2'[v6'[s]] # "new"
               /\ \A d \in Calls : v1'[d] = v1'[v6'[s]] /\ d < v6'[s] => d \in v8'[s]
    <3>1. CASE s = r
      BY <1>0, <3>1 DEF AskInv, AskTypes
    <3>2. CASE s # r
      BY <1>0, <2>1, <3>2 DEF AskInv, AskTypes, WaitInv
    <3> QED
      BY <3>1, <3>2
  <2>2. ASSUME NEW q \in Keys, v5'[q] # None
        PROVE  v7'[v5'[q]] = "waiting" /\ v1'[v6'[v5'[q]]] = q
    <3>1. CASE q = k
      BY <1>0, <3>1 DEF AskInv, AskTypes
    <3>2. CASE q # k
      <4>1. v5'[q] = v5[q] /\ v7[v5[q]] = "waiting" /\ v5[q] \in Requests /\ v1[v6[v5[q]]] = q
        BY <1>0, <2>2, <3>2 DEF AskInv, AskTypes, WaitInv
      <4>2. v5[q] # e /\ v5[q] # r
        <5>1. e # None => v1[v6[e]] = k
          BY <1>0 DEF AskInv, WaitInv
        <5>2. v5[q] # None
          BY <1>0, <2>2, <3>2 DEF AskInv, AskTypes
        <5>3. v5[q] # r
          BY <1>0, <4>1
        <5> QED
          BY <3>2, <4>1, <5>1, <5>2, <5>3
      <4>3. PICK u : u = v5[q]
        OBVIOUS
      <4>4. v7'[u] = v7[u] /\ v6'[u] = v6[u]
        BY <1>0, <4>1, <4>2, <4>3 DEF AskInv, AskTypes
      <4> QED
        BY <1>0, <4>1, <4>3, <4>4
    <3> QED
      BY <3>1, <3>2
  <2> QED
    BY <2>1, <2>2 DEF WaitInv
<1>4. Asks!LiveNotDropped'
  BY <1>0 DEF AskInv, AskTypes, Asks!LiveNotDropped
<1> QED
  BY <1>1, <1>2, <1>3, <1>4 DEF AskInv

\* An equal call before that of a request was over when the request came: only
\* the call of the request itself, or a later one, brings a result that sweeps it.
LEMMA SweptIsDone ==
  ASSUME AskInv, v3 \subseteq Calls, NEW r \in Requests, v7[r] = "waiting", Asks!Resolved(r)
  PROVE  v2[v6[r]] = "done"
<1>1. PICK c \in v3 : v1[c] = v1[v6[r]] /\ c \in v4 /\ c \notin v8[r]
  BY DEF Asks!Resolved, Asks!KeyOfReq
<1>2. v6[r] \in Calls /\ c \in Calls /\ Calls \subseteq Nat /\ v2[c] = "done"
  BY <1>1, ApprovalsAssumption DEF AskInv, AskTypes, CallInv, Asks!ApprovalsAssumption
<1>3. ~(c < v6[r])
  BY <1>1, <1>2 DEF AskInv, WaitInv
<1>4. v6[r] < c => v2[v6[r]] = "done"
  BY <1>1, <1>2 DEF AskInv, CallInv
<1>5. v6[r] \in Nat /\ c \in Nat
  BY <1>2
<1>6. c < v6[r] \/ c = v6[r] \/ v6[r] < c
  BY <1>5
<1> QED
  BY <1>2, <1>3, <1>4, <1>6

LEMMA SettlesStep ==
  ASSUME AskInv, AskData,
         \/ Asks!Stop
         \/ \E r \in Requests : Asks!Closes(r)
         \/ \E x \in Asks!Sweeps, k \in Keys, readable \in BOOLEAN : Asks!SweepFile(x, k, readable)
         \/ \E r \in Requests, b \in {"allow", "deny"} : Asks!Answer(r, b)
  PROVE  AskInv'
<1>0. /\ v2 \in [Calls -> CallStates] /\ v1 \in [Calls -> Keys] /\ v6 \in [Requests -> Calls]
      /\ v5 \in [Keys -> Requests \cup {None}] /\ v7 \in [Requests -> Fates]
  BY DEF AskInv, AskTypes
<1>1. CASE Asks!Stop
  <2>1. PICK rs : rs = Asks!Stopped
    OBVIOUS
  <2>2. /\ Asks!Settle(rs, "stopped") /\ v1' = v1 /\ v4' = v4
        /\ v2' = [c \in Calls |-> IF v2[c] = "asked" /\ v1[c] \notin SubKeys THEN "done" ELSE v2[c]]
    BY <1>1, <2>1 DEF Asks!Stop
  <2>3. /\ rs \in SUBSET Requests
        /\ \A r \in rs : v7[r] = "waiting" /\ v1[v6[r]] \notin SubKeys
    BY <2>1 DEF Asks!Stopped, Asks!Waits, Asks!KeyOfReq
  <2>4. \A r \in rs : v2'[v6[r]] = "done"
    BY <1>0, <2>2, <2>3 DEF AskInv, WaitInv, CallStates
  <2>5. v2' \in [Calls -> CallStates] /\ \A c \in Calls : v2'[c] = v2[c] \/ (v2[c] = "asked" /\ v2'[c] = "done")
    BY <1>0, <2>2 DEF CallStates
  <2> QED
    BY <2>2, <2>3, <2>4, <2>5, SettleStep DEF Asks!Ends
<1>2. CASE \E r \in Requests : Asks!Closes(r)
  <2>1. PICK r \in Requests : Asks!Closes(r)
    BY <1>2
  <2>2. Asks!Settle({r}, "closed") /\ v1' = v1 /\ v2' = v2 /\ v4' = v4
    BY <2>1 DEF Asks!Closes, Asks!claudeVars
  <2> QED
    BY <1>0, <2>2, SettleStep DEF Asks!Ends
<1>3. CASE \E x \in Asks!Sweeps, k \in Keys, readable \in BOOLEAN : Asks!SweepFile(x, k, readable)
  <2>1. PICK x \in Asks!Sweeps, k \in Keys, readable \in BOOLEAN : Asks!SweepFile(x, k, readable)
    BY <1>3
  <2>2. PICK gone : gone = IF readable THEN {r \in {s \in v13[x] : Asks!KeyOfReq(s) = k} : v5[k] = r /\ Asks!Resolved(r)}
                           ELSE {}
    OBVIOUS
  <2>3. Asks!Settle(gone, "swept") /\ v1' = v1 /\ v2' = v2 /\ v4' = v4
    BY <2>1, <2>2 DEF Asks!SweepFile, Asks!claudeVars
  <2>4. \A r \in gone : v5[k] = r /\ Asks!Resolved(r)
    BY <2>2
  <2>5. gone \in SUBSET Requests /\ v3 \subseteq Calls
    BY <2>2 DEF AskData
  <2>6. \A r \in gone : v7[r] = "waiting"
    BY <1>0, <2>4, <2>5, ApprovalsAssumption DEF AskInv, WaitInv, Asks!ApprovalsAssumption
  <2>7. \A r \in gone : v2[v6[r]] = "done"
    BY <2>4, <2>5, <2>6, SweptIsDone
  <2> QED
    BY <1>0, <2>3, <2>5, <2>7, SettleStep DEF Asks!Ends
<1>4. CASE \E r \in Requests, b \in {"allow", "deny"} : Asks!Answer(r, b)
  <2>1. PICK r \in Requests, b \in {"allow", "deny"} : Asks!Answer(r, b)
    BY <1>4
  <2>2. v1' = v1 /\ v2' = v2 /\ v4' = v4
    BY <2>1 DEF Asks!Answer, Asks!claudeVars
  <2>3. CASE Asks!Addressee(r) # None
    <3>1. Asks!Settle({r}, b)
      BY <2>1, <2>3 DEF Asks!Answer, Asks!Addressee
    <3> QED
      BY <1>0, <2>2, <3>1, SettleStep DEF Asks!Ends
  <2>4. CASE Asks!Addressee(r) = None
    BY <2>1, <2>2, <2>4, AskRest DEF Asks!Answer, Asks!mapVars
  <2> QED
    BY <2>3, <2>4
<1> QED
  BY <1>1, <1>2, <1>3, <1>4

LEMMA PassStep ==
  ASSUME AskInv, NEW r \in Requests, NEW c \in Calls, Asks!HookPassed(r, c)
  PROVE  AskInv'
<1>0. /\ v1' = v1 /\ v4' = v4 /\ v5' = v5 /\ v8' = v8 /\ v6' = [v6 EXCEPT ![r] = c]
      /\ v2' = [v2 EXCEPT ![c] = "done"] /\ v7' = [v7 EXCEPT ![r] = "auto"]
      /\ v7[r] = "idle" /\ v2[c] # "done"
      /\ \A d \in Calls : v1[d] = v1[c] /\ d < c => d \in v4
  BY DEF Asks!HookPassed, Asks!Comes
<1>1. AskTypes'
  BY <1>0 DEF AskInv, AskTypes, CallStates, Fates, Asks!Ends
<1>2. CallInv'
  BY <1>0 DEF AskInv, AskTypes, CallInv
<1>3. WaitInv'
  <2>1. ASSUME NEW s \in Requests, v7'[s] = "waiting"
        PROVE  /\ v5'[v1'[v6'[s]]] = s /\ v2'[v6'[s]] # "new"
               /\ \A d \in Calls : v1'[d] = v1'[v6'[s]] /\ d < v6'[s] => d \in v8'[s]
    BY <1>0, <2>1 DEF AskInv, AskTypes, WaitInv
  <2>2. ASSUME NEW q \in Keys, v5'[q] # None
        PROVE  v7'[v5'[q]] = "waiting" /\ v1'[v6'[v5'[q]]] = q
    BY <1>0, <2>2 DEF AskInv, AskTypes, WaitInv
  <2> QED
    BY <2>1, <2>2 DEF WaitInv
<1>4. Asks!LiveNotDropped'
  BY <1>0 DEF AskInv, AskTypes, Asks!LiveNotDropped
<1> QED
  BY <1>1, <1>2, <1>3, <1>4 DEF AskInv

LEMMA RestartAsks ==
  ASSUME AskInv, Asks!Restart
  PROVE  AskInv'
<1>0. /\ v1' = v1 /\ v2' = v2 /\ v4' = v4 /\ v6' = v6 /\ v8' = v8 /\ v5' = [k \in Keys |-> None]
      /\ v7' = [r \in Requests |-> IF v7[r] = "waiting" THEN "closed" ELSE v7[r]]
  BY DEF Asks!Restart, Asks!claudeVars, Asks!Waits
<1>1. AskTypes'
  BY <1>0 DEF AskInv, AskTypes, Fates, Asks!Ends
<1> QED
  BY <1>0, <1>1 DEF AskInv, CallInv, WaitInv, Asks!LiveNotDropped

\* Timers, listings and notices settle nothing.
LEMMA TimersStep ==
  ASSUME AskInv,
         \/ Asks!Notice \/ Asks!ListBegins \/ Asks!ListReturns
         \/ \E r \in Requests : Asks!Continue(r) \/ Asks!TimerFires(r) \/ Asks!TimerSweepFails(r) \/ Asks!Promotes(r)
                               \/ Asks!Tells(r)
  PROVE  AskInv'
BY AskRest DEF Asks!Notice, Asks!ListBegins, Asks!ListReturns, Asks!Continue, Asks!TimerFires,
   Asks!TimerSweepFails, Asks!Promotes, Asks!Tells, Asks!claudeVars, Asks!mapVars

LEMMA DataStep ==
  ASSUME AskData, Asks!Next
  PROVE  AskData'
<1> USE DEF AskData
<1>1. v3' \subseteq Calls
  <2>1. v3' = v3 \/ \E c \in Calls : v3' = v3 \cup {c}
    BY DEF Asks!Next, Asks!Decided, Asks!WriteUse, Asks!WriteResult, Asks!Notice, Asks!Stop, Asks!Restart,
       Asks!ListBegins, Asks!ListReturns, Asks!Hook, Asks!HookPassed, Asks!Closes, Asks!Continue, Asks!TimerFires,
       Asks!TimerSweepFails, Asks!Promotes, Asks!Tells, Asks!SweepFile, Asks!Answer, Asks!claudeVars
  <2> QED
    BY <2>1
<1>2. v13' \in [Asks!Sweeps -> SUBSET Requests]
  <2>1. \/ v13' = v13
        \/ v13' = [x \in Asks!Sweeps |-> {}]
        \/ \E x \in Asks!Sweeps : \E rs : v13' = [v13 EXCEPT ![x] = rs] /\ (rs \subseteq Requests \/ rs \subseteq v13[x])
    <3>1. CASE \E r \in Requests : Asks!TimerFires(r)
      BY <3>1 DEF Asks!TimerFires, Asks!SweepItems, Asks!Sweeps
    <3>2. CASE Asks!ListBegins
      <4>1. PICK rs : rs = {r \in Requests : Asks!Waits(r)}
        OBVIOUS
      <4>2. rs \subseteq Requests /\ v13' = [v13 EXCEPT ![List] = rs] /\ List \in Asks!Sweeps
        BY <3>2, <4>1 DEF Asks!ListBegins, Asks!SweepItems, Asks!Sweeps
      <4> QED
        BY <4>2
    <3>3. CASE \E r \in Requests : Asks!TimerSweepFails(r)
      BY <3>3 DEF Asks!TimerSweepFails, Asks!Sweeps
    <3>4. CASE \E x \in Asks!Sweeps, k \in Keys, readable \in BOOLEAN : Asks!SweepFile(x, k, readable)
      <4>1. PICK x \in Asks!Sweeps, k \in Keys, readable \in BOOLEAN : Asks!SweepFile(x, k, readable)
        BY <3>4
      <4>2. v13' = [v13 EXCEPT ![x] = @ \ {r \in v13[x] : Asks!KeyOfReq(r) = k}]
        BY <4>1 DEF Asks!SweepFile
      <4> QED
        BY <4>2
    <3>5. CASE Asks!Restart
      BY <3>5 DEF Asks!Restart
    <3> QED
      BY <3>1, <3>2, <3>3, <3>4, <3>5
      DEF Asks!Next, Asks!Decided, Asks!WriteUse, Asks!WriteResult, Asks!Notice, Asks!Stop,
          Asks!ListReturns, Asks!Hook, Asks!HookPassed, Asks!Closes, Asks!Continue,
          Asks!Promotes, Asks!Tells, Asks!Answer, Asks!sweepVars
  <2> QED
    BY <2>1
<1> QED
  BY <1>1, <1>2

LEMMA AskStepHolds == AskInv /\ AskData /\ [Asks!Next]_Asks!vars => AskInv' /\ AskData'
<1> SUFFICES ASSUME AskInv, AskData, [Asks!Next]_Asks!vars PROVE AskInv' /\ AskData'
  OBVIOUS
<1>1. CASE UNCHANGED Asks!vars
  BY <1>1, AskRest DEF Asks!vars, Asks!claudeVars, Asks!mapVars, Asks!sweepVars, AskData
<1>2. CASE Asks!Next
  BY <1>2, ClaudeStep, SettlesStep, HookStep, PassStep, RestartAsks, TimersStep, DataStep DEF Asks!Next
<1> QED
  BY <1>1, <1>2

\* A request is decided by a press on its own card.
LEMMA OnItsCard == AskTypes /\ Asks!Next => Asks!PressesOnIt
<1> SUFFICES ASSUME AskTypes, Asks!Next, NEW r \in Requests, v7[r] # v7'[r], v7'[r] \in {"allow", "deny"}
             PROVE  Asks!Answer(r, v7'[r])
  BY DEF Asks!PressesOnIt
<1>1. CASE \E q \in Requests, b \in {"allow", "deny"} : Asks!Answer(q, b)
  <2>1. PICK q \in Requests, b \in {"allow", "deny"} : Asks!Answer(q, b)
    BY <1>1
  <2>2. Asks!Settle({q}, b)
    BY <2>1 DEF Asks!Answer, Asks!Addressee, Asks!mapVars
  <2>3. v7' = [s \in Requests |-> IF s \in {q} THEN b ELSE v7[s]]
    BY <2>2 DEF Asks!Settle
  <2>4. q = r /\ b = v7'[r]
    BY <2>3
  <2> QED
    BY <2>1, <2>4
<1>2. CASE ~\E q \in Requests, b \in {"allow", "deny"} : Asks!Answer(q, b)
  <2>1. \/ v7' = v7
        \/ \E rs, o : o \notin {"allow", "deny"} /\ v7' = [s \in Requests |-> IF s \in rs THEN o ELSE v7[s]]
        \/ \E q \in Requests, c \in Calls : Asks!Hook(q, c) \/ Asks!HookPassed(q, c)
        \/ Asks!Restart
    BY <1>2 DEF Asks!Next, Asks!Decided, Asks!WriteUse, Asks!WriteResult, Asks!Notice, Asks!Stop,
       Asks!ListBegins, Asks!ListReturns, Asks!Closes, Asks!Continue, Asks!TimerFires,
       Asks!TimerSweepFails, Asks!Promotes, Asks!Tells, Asks!SweepFile, Asks!Settle, Asks!mapVars
  <2>2. ASSUME NEW q \in Requests, NEW c \in Calls, Asks!Hook(q, c) \/ Asks!HookPassed(q, c)
        PROVE  FALSE
    BY <2>2 DEF AskTypes, Asks!Hook, Asks!HookPassed, Asks!Replaced
  <2>3. CASE Asks!Restart
    BY <2>3 DEF Asks!Restart
  <2> QED
    BY <2>1, <2>2, <2>3
<1> QED
  BY <1>1, <1>2

\* "Needs attention" is taken back only when no request waits.
LEMMA LabelKept == Asks!Next => Asks!KeepsLabel
<1> SUFFICES ASSUME Asks!Next, v15, ~v15', NEW r \in Requests PROVE v7'[r] # "waiting"
  BY DEF Asks!KeepsLabel
<1>1. CASE Asks!Restart
  BY <1>1 DEF Asks!Restart, Asks!Waits
<1>2. CASE Asks!ClearLabel
  BY <1>2 DEF Asks!ClearLabel, Asks!SettledAfter
<1>3. Asks!Restart \/ Asks!ClearLabel \/ v15' = v15 \/ v15' = TRUE
  BY Zenon DEF Asks!Next, Asks!Decided, Asks!WriteUse, Asks!WriteResult, Asks!Notice, Asks!Stop,
     Asks!ListBegins, Asks!ListReturns, Asks!Closes, Asks!Continue, Asks!TimerFires,
     Asks!TimerSweepFails, Asks!Promotes, Asks!Tells, Asks!SweepFile, Asks!Answer, Asks!Hook, Asks!HookPassed
<1> QED
  BY <1>1, <1>2, <1>3

\* Every request that waits can be answered under its key, none that Claude
\* waits for is swept away, a request is decided by a press on its own card,
\* and "needs attention" stays as long as one waits: for any calls that share
\* keys, with hooks that fire again, late records, restarts and sweeps in
\* progress (permission.ts, permissionSweep.ts).
THEOREM WaitersKeptHolds == MCSpec => WaitersKept
<1> DEFINE I == part = "asks" => AskInv /\ AskData
           P == part = "asks" => Asks!WaitingIsPending /\ Asks!LiveNotDropped
           A == part = "asks" => Asks!PressesOnIt /\ Asks!KeepsLabel
<1>1. MCInit => I
  <2>1. Asks!Init => AskData
    BY DEF Asks!Init, AskData
  <2> QED
    BY <2>1, InitAsks DEF MCInit
<1>2. I /\ [MCNext]_<<part, v, vars>> => I'
  <2> SUFFICES ASSUME I, [MCNext]_<<part, v, vars>>, part' = "asks" PROVE AskInv' /\ AskData'
    OBVIOUS
  <2>1. part = "asks" /\ AskInv /\ AskData
    BY DEF MCNext
  <2>2. [Asks!Next]_Asks!vars
    BY <2>1 DEF MCNext, v, Asks!vars, Asks!claudeVars, Asks!mapVars, Asks!sweepVars, Asks!phoneVars
  <2> QED
    BY <2>1, <2>2, AskStepHolds
<1>3. I => P
  BY DEF AskInv, WaitInv, Asks!WaitingIsPending, Asks!Waits, Asks!KeyOfReq
<1>4. I /\ [MCNext]_<<part, v, vars>> => [A]_<<part, v, vars>>
  <2> SUFFICES ASSUME I, MCNext, part = "asks" PROVE Asks!PressesOnIt /\ Asks!KeepsLabel
    OBVIOUS
  <2>1. Asks!Next /\ AskTypes
    BY DEF MCNext, AskInv
  <2> QED
    BY <2>1, OnItsCard, LabelKept
<1>5. MCSpec => []P /\ [][A]_<<part, v, vars>>
  BY <1>1, <1>2, <1>3, <1>4, PTL DEF MCSpec
<1> QED
  BY <1>5 DEF WaitersKept

-----------------------------------------------------------------------------
(* What phones are told of requests.                                       *)

TellTypes ==
  /\ v9 \in [Requests -> {"no", "hold", "past"}] /\ v10 \in [Requests -> {"off", "set", "sweeping"}]
  /\ v16 \subseteq Requests /\ v18 \subseteq Requests

\* Whose announcement has begun came once, and no timer of it is left.
TellInv == TellTypes /\ \A r \in v18 \cup v16 : v7[r] # "idle" /\ v10[r] = "off"

\* No timer is set, no request comes, and no announcement begins.
LEMMA TellRest ==
  ASSUME TellInv, v18' \cup v16' \subseteq v18 \cup v16, v9' \in [Requests -> {"no", "hold", "past"}],
         v10' \in [Requests -> {"off", "set", "sweeping"}],
         \A r \in Requests : v10[r] = "off" => v10'[r] = "off",
         \A r \in Requests : v7[r] # "idle" => v7'[r] # "idle"
  PROVE  TellInv'
BY DEF TellInv, TellTypes

LEMMA TellHook ==
  ASSUME TellInv, AskTypes, NEW r \in Requests, NEW c \in Calls, Asks!Hook(r, c)
  PROVE  TellInv' /\ Asks!AnnouncesListed
<1>1. /\ v7[r] = "idle" /\ v7'[r] = "waiting" /\ v16' = v16
      /\ \A q \in Requests : v7[q] # "idle" => v7'[q] # "idle"
  BY DEF Asks!Hook, Asks!Comes, Asks!Replaced, AskTypes
<1>2. r \notin v16 \cup v18
  BY <1>1 DEF TellInv
<1>3. \/ v18' = v18 /\ v10' = [v10 EXCEPT ![r] = "set"]
      \/ v18' = v18 \cup {r} /\ v10' = [v10 EXCEPT ![r] = "off"] /\ v9' = [v9 EXCEPT ![r] = "no"]
  BY DEF Asks!Hook
<1>4. v9' \in [Requests -> {"no", "hold", "past"}]
  BY DEF Asks!Hook, TellInv, TellTypes
<1>5. TellInv'
  BY <1>1, <1>2, <1>3, <1>4 DEF TellInv, TellTypes
<1>6. Asks!AnnouncesListed
  BY <1>1, <1>2, <1>3 DEF Asks!AnnouncesListed, Asks!Listed, Asks!Waits, TellInv, TellTypes
<1> QED
  BY <1>5, <1>6

LEMMA TellPromotes ==
  ASSUME TellInv, AskInv, NEW r \in Requests, Asks!Promotes(r)
  PROVE  TellInv' /\ Asks!AnnouncesListed
<1>1. v7' = v7 /\ v16' = v16 /\ v10[r] = "sweeping" /\ v10' = [v10 EXCEPT ![r] = "off"]
  BY DEF Asks!Promotes
<1>2. r \notin v16 \cup v18
  BY <1>1 DEF TellInv
<1>3. CASE Asks!Promotable(r)
  <2>1. v9' = [v9 EXCEPT ![r] = "no"] /\ v18' = v18 \cup {r}
    BY <1>3 DEF Asks!Promotes
  <2>2. v7[r] = "waiting"
    <3>1. v5[v1[v6[r]]] = r /\ v1[v6[r]] \in Keys
      BY <1>3 DEF Asks!Promotable, Asks!KeyOfReq, AskInv, AskTypes
    <3>2. r # None
      BY ApprovalsAssumption DEF Asks!ApprovalsAssumption
    <3> QED
      BY <3>1, <3>2 DEF AskInv, WaitInv
  <2>3. v7[r] # "idle"
    BY <2>2
  <2>4. TellInv'
    BY <1>1, <2>1, <2>3 DEF TellInv, TellTypes
  <2>5. Asks!AnnouncesListed
    BY <1>1, <1>2, <2>1, <2>2 DEF Asks!AnnouncesListed, Asks!Listed, Asks!Waits, TellInv, TellTypes
  <2> QED
    BY <2>4, <2>5
<1>4. CASE ~Asks!Promotable(r)
  <2>1. v9' = v9 /\ v18' = v18
    BY <1>4 DEF Asks!Promotes
  <2>2. TellInv'
    BY <1>1, <2>1 DEF TellInv, TellTypes
  <2> QED
    BY <2>1, <2>2 DEF Asks!AnnouncesListed
<1> QED
  BY <1>3, <1>4

\* What settles requests, passes them, or ends begins no announcement.
LEMMA TellOthers ==
  ASSUME TellInv, AskTypes, Asks!Next,
         ~\E r \in Requests : Asks!Promotes(r) \/ \E c \in Calls : Asks!Hook(r, c)
  PROVE  TellInv' /\ Asks!AnnouncesListed
<1>1. v18' \subseteq v18 /\ v18' \cup v16' \subseteq v18 \cup v16
  BY DEF Asks!Next, Asks!Decided, Asks!WriteUse, Asks!WriteResult, Asks!Notice, Asks!Stop, Asks!Restart,
     Asks!ListBegins, Asks!ListReturns, Asks!HookPassed, Asks!Closes, Asks!Continue, Asks!TimerFires,
     Asks!TimerSweepFails, Asks!Tells, Asks!SweepFile, Asks!Answer, Asks!phoneVars
<1>2. /\ v9' \in [Requests -> {"no", "hold", "past"}]
      /\ v10' \in [Requests -> {"off", "set", "sweeping"}]
      /\ \A r \in Requests : v10[r] = "off" => v10'[r] = "off"
  <2>1. \/ v9' = v9
        \/ \E r \in Requests : v9' = [v9 EXCEPT ![r] = IF @ = "hold" THEN "past" ELSE @]
    BY DEF Asks!Next, Asks!Decided, Asks!WriteUse, Asks!WriteResult, Asks!Notice, Asks!Stop, Asks!Restart,
       Asks!ListBegins, Asks!ListReturns, Asks!HookPassed, Asks!Closes, Asks!Continue, Asks!TimerFires,
       Asks!TimerSweepFails, Asks!Tells, Asks!SweepFile, Asks!Answer, Asks!Settle, Asks!mapVars
  <2>2. \/ v10' = v10
        \/ v10' = [r \in Requests |-> "off"]
        \/ \E r \in Requests : v10' = [v10 EXCEPT ![r] = IF @ = "set" THEN "off" ELSE @]
        \/ \E r \in Requests : v10[r] = "set" /\ v10' = [v10 EXCEPT ![r] = "sweeping"]
    BY DEF Asks!Next, Asks!Decided, Asks!WriteUse, Asks!WriteResult, Asks!Notice, Asks!Stop, Asks!Restart,
       Asks!ListBegins, Asks!ListReturns, Asks!HookPassed, Asks!Closes, Asks!Continue, Asks!TimerFires,
       Asks!TimerSweepFails, Asks!Tells, Asks!SweepFile, Asks!Answer
  <2>3. v9 \in [Requests -> {"no", "hold", "past"}] /\ v10 \in [Requests -> {"off", "set", "sweeping"}]
    BY DEF TellInv, TellTypes
  <2> QED
    BY <2>1, <2>2, <2>3
<1>3. \A r \in Requests : v7[r] # "idle" => v7'[r] # "idle"
  <2>1. CASE \E r \in Requests, c \in Calls : Asks!HookPassed(r, c)
    BY <2>1 DEF Asks!HookPassed, AskTypes
  <2>2. CASE Asks!Restart
    BY <2>2 DEF Asks!Restart
  <2>3. CASE \E rs : \E o \in {"stopped", "closed", "swept", "allow", "deny"} : Asks!Settle(rs, o)
    BY <2>3 DEF Asks!Settle
  <2>4. CASE v7' = v7
    BY <2>4
  <2>5. \/ \E r \in Requests, c \in Calls : Asks!HookPassed(r, c)
        \/ Asks!Restart \/ v7' = v7
        \/ \E rs : \E o \in {"stopped", "closed", "swept", "allow", "deny"} : Asks!Settle(rs, o)
    BY DEF Asks!Next, Asks!Decided, Asks!WriteUse, Asks!WriteResult, Asks!Notice, Asks!Stop,
       Asks!ListBegins, Asks!ListReturns, Asks!Closes, Asks!Continue, Asks!TimerFires,
       Asks!TimerSweepFails, Asks!Tells, Asks!SweepFile, Asks!Answer, Asks!mapVars
  <2> QED
    BY <2>1, <2>2, <2>3, <2>4, <2>5
<1> QED
  BY <1>1, <1>2, <1>3, TellRest DEF Asks!AnnouncesListed

\* The announcement of a request begins at most once, and while the request
\* waits and GET /permissions would show it: for any calls that share keys, with
\* hooks that fire again, sweeps in progress and restarts (routes/permission.ts).
THEOREM AnnouncedWhenListedHolds == MCSpec => AnnouncedWhenListed
<1> DEFINE I == part = "asks" => AskInv /\ AskData /\ TellInv
           A == part = "asks" => Asks!AnnouncesListed
<1>1. MCInit => I
  <2>1. Asks!Init => AskData /\ TellInv
    BY DEF Asks!Init, AskData, TellInv, TellTypes
  <2> QED
    BY <2>1, InitAsks DEF MCInit
<1>2. I /\ [MCNext]_<<part, v, vars>> => I' /\ [A]_<<part, v, vars>>
  <2> SUFFICES ASSUME I, [MCNext]_<<part, v, vars>> PROVE I' /\ [A]_<<part, v, vars>>
    OBVIOUS
  <2>1. CASE part # "asks"
    BY <2>1 DEF MCNext
  <2>2. CASE part = "asks"
    <3>1. AskInv /\ AskData /\ TellInv
      BY <2>2
    <3>2. [Asks!Next]_Asks!vars
      BY <2>2 DEF MCNext, v, Asks!vars, Asks!claudeVars, Asks!mapVars, Asks!sweepVars, Asks!phoneVars
    <3>3. AskInv' /\ AskData'
      BY <3>1, <3>2, AskStepHolds
    <3>4. TellInv' /\ Asks!AnnouncesListed
      <4>1. CASE Asks!Next
        <5>1. AskTypes
          BY <3>1 DEF AskInv
        <5> QED
          BY <3>1, <4>1, <5>1, TellHook, TellPromotes, TellOthers
      <4>2. CASE UNCHANGED Asks!vars
        BY <3>1, <4>2 DEF TellInv, TellTypes, Asks!AnnouncesListed, Asks!vars, Asks!claudeVars, Asks!mapVars, Asks!phoneVars
      <4> QED
        BY <3>2, <4>1, <4>2
    <3> QED
      BY <3>3, <3>4
  <2> QED
    BY <2>1, <2>2
<1> QED
  BY <1>1, <1>2, PTL DEF MCSpec, AnnouncedWhenListed
=============================================================================
