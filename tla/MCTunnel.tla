------------------------------ MODULE MCTunnel ------------------------------
EXTENDS Tunnel

CONSTANTS r1, r2, pair, s1

MCReqs == {r1, r2}
MCSubs == {s1}

\* Each scene is a set of acts and faults that meet in the code, small enough
\* to be explored in full.
MCScenes ==
  {[acts |-> {"pair"}, asks |-> {pair, r1}],
   [acts |-> {"break", "slow"}, asks |-> {r1, r2}],
   [acts |-> {"sub", "break"}, asks |-> {r1}],
   [acts |-> {"sub", "events", "revoke"}, asks |-> {}],
   [acts |-> {"revoke"}, asks |-> {r1, r2}],
   [acts |-> {"nokey", "move", "linkdown", "leave"}, asks |-> {r1, r2}],
   [acts |-> {"big"}, asks |-> {r1, r2}]}

\* Every request of the page ends, and the agent does not go on for ever with a
\* stream whose line is dead or that its screen has left (wire.ts, tunnel.ts).
AllGo == AskEnds /\ StreamsGo
=============================================================================
