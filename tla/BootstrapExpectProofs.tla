------------------------ MODULE BootstrapExpectProofs ------------------------
(***************************************************************************)
(* At most one node founds a cluster, for any number of nodes.             *)
(***************************************************************************)
EXTENDS BootstrapExpect, FiniteSetTheorems, TLAPS

\* Every founder is the lowest of all nodes: a node bootstraps only when it sees as many
\* candidates as there are nodes, hence all of them.
FounderIsLowest ==
  /\ founders \subseteq Nodes
  /\ \A f \in founders : \A n \in Nodes : f <= n

\* A set of candidates as large as BootstrapExpect leaves no node out.
LEMMA AllSeen ==
  ASSUME NEW peers \in SUBSET Nodes, Cardinality(peers) >= Expect
  PROVE  peers = Nodes
<1>1. IsFiniteSet(Nodes)
  BY NodesAssumption
<1>2. Cardinality(peers) <= Cardinality(Nodes)
  BY <1>1, FS_Subset
<1>3. Cardinality(peers) = Cardinality(Nodes)
  BY <1>1, <1>2, FS_Subset, FS_CardinalityType, ExpectAssumption
<1> QED
  BY <1>1, <1>3, FS_Subset

\* FounderIsLowest is an invariant of the bootstrap loop (tryBootstrapExpect).
THEOREM FounderIsLowestTheorem == BootSpec => []FounderIsLowest
<1>1. BootInit => FounderIsLowest
  BY DEF BootInit, FounderIsLowest
<1>2. FounderIsLowest /\ [BootNext]_bootVars => FounderIsLowest'
  <2> SUFFICES ASSUME FounderIsLowest, [BootNext]_bootVars
               PROVE  FounderIsLowest'
    OBVIOUS
  <2>1. CASE UNCHANGED bootVars
    BY <2>1 DEF bootVars, FounderIsLowest
  <2>2. ASSUME NEW n \in Nodes, Replicated(n)
        PROVE  FounderIsLowest'
    BY <2>2 DEF Replicated, FounderIsLowest
  <2>3. ASSUME NEW n \in Nodes, NEW alive \in SUBSET (Nodes \ {n}), TryBootstrap(n, alive)
        PROVE  FounderIsLowest'
    <3>1. alive \cup {n} = Nodes
      <4>1. alive \cup {n} \in SUBSET Nodes
        OBVIOUS
      <4>2. Cardinality(alive \cup {n}) >= Expect
        BY <2>3 DEF TryBootstrap
      <4> QED
        BY <4>1, <4>2, AllSeen
    <3>2. \A p \in Nodes : n <= p
      BY <2>3, <3>1 DEF TryBootstrap
    <3> QED
      BY <2>3, <3>2 DEF TryBootstrap, FounderIsLowest
  <2> QED
    BY <2>1, <2>2, <2>3 DEF BootNext
<1> QED
  BY <1>1, <1>2, PTL DEF BootSpec

\* "Exactly one of them - the lowest node ID - bootstraps" (Config.BootstrapExpect), when
\* BootstrapExpect is the number of nodes: whatever gossip shows to each node, no two of
\* them found a cluster.
THEOREM OneFounderTheorem == BootSpec => []OneFounder
<1>1. FounderIsLowest => OneFounder
  BY NodesAssumption DEF FounderIsLowest, OneFounder
<1> QED
  BY <1>1, FounderIsLowestTheorem, PTL
=============================================================================
