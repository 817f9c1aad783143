------------------------------ MODULE MCRoom ------------------------------
(* A small room for TLC: its wires, and what they may be swapped for.      *)
EXTENDS Room, TLC

CONSTANTS a1, a2, d1, d2, d3

MCAgentWires2 == {a1, a2}
MCPhoneWires3 == {d1, d2, d3}

MCSymmetry == Permutations(AgentWires) \cup Permutations(PhoneWires)

(* A tag without the fields nobody reads any more: those of a wire that    *)
(* has been evicted or has closed, and a deadline that has served.         *)
MCPhoneView(d) ==
  CASE dev[d] \in {"idle", "gone"} -> <<dev[d]>>
    [] dev[d] = "evicted" -> <<dev[d], num[d]>>
    [] dev[d] = "making" \/ dev[d] \in Checked -> <<dev[d], num[d], late[d], held[d]>>
    [] dev[d] = "open" -> <<dev[d], num[d], late[d], free[d], bound[d]>>
    [] dev[d] = "admitted" -> <<dev[d], num[d], free[d], bound[d]>>

MCView == <<[a \in AgentWires |-> <<ag[a], ag[a] \in Proving /\ agLate[a], last[a]>>],
            selfHosted, plus, [d \in PhoneWires |-> MCPhoneView(d)], toAgent, toRoom, slot>>

\* Two connections of the agent with two phones, and two things under way
\* between one of them and the room; or one connection with three phones, and
\* one thing under way.  A self-hosted room with two connections or two phones.
MCBound ==
  LET agents == Cardinality({a \in AgentWires : ag[a] # "none"})
      phones == Cardinality({d \in PhoneWires : dev[d] # "idle"})
      busy(n) == \A a \in AgentWires : Len(toAgent[a]) + Cardinality(toRoom) <= n
  IN  /\ phones > 2 => agents <= 1 /\ busy(1)
      /\ agents > 1 => busy(2) /\ Cardinality(toRoom) <= 1
      /\ selfHosted => agents + phones <= 3

=============================================================================
