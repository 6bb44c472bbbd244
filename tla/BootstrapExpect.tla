--------------------------- MODULE BootstrapExpect ---------------------------
(***************************************************************************)
(* How a symmetric start of several nodes forms one cluster: the loop of   *)
(* tryBootstrapExpect in cluster/membership.go.  The members that gossip   *)
(* shows alive to a node at a tick of its loop may be any of the others.   *)
(***************************************************************************)
EXTENDS Naturals, FiniteSets

CONSTANTS
  Nodes,    \* node IDs, ordered as the code orders them
  Expect    \* BootstrapExpect

ASSUME NodesAssumption == Nodes \subseteq Nat /\ IsFiniteSet(Nodes)
ASSUME ExpectAssumption == Expect = Cardinality(Nodes)

VARIABLES
  configured,   \* the nodes that have a raft configuration
  founders      \* history variable: the nodes that have bootstrapped

bootVars == <<configured, founders>>

BootInit == configured = {} /\ founders = {}

\* Variant: as soon as a majority of the expected members is visible.
TryBootstrapEarly(n, alive) ==
  LET peers == alive \cup {n}
  IN  /\ n \notin configured
      /\ 2 * Cardinality(peers) > Expect
      /\ \A p \in peers : n <= p
      /\ configured' = configured \cup {n}
      /\ founders' = founders \cup {n}

\* Without a configuration and with enough candidates, the lowest of the first Expect
\* of them, which is the lowest of all, bootstraps.  A bootstrap is durable: a node that
\* restarts after it finds its state and does not run the loop.
TryBootstrap(n, alive) ==
  LET peers == alive \cup {n}       \* bootstrapCandidates
  IN  /\ n \notin configured
      /\ Cardinality(peers) >= Expect
      /\ \A p \in peers : n <= p
      /\ configured' = configured \cup {n}
      /\ founders' = founders \cup {n}

\* The configuration is replicated to a node; its loop finds one and ends.
Replicated(n) ==
  /\ founders # {} /\ n \notin configured
  /\ configured' = configured \cup {n}
  /\ UNCHANGED founders

BootNext ==
  \E n \in Nodes : Replicated(n) \/ \E alive \in SUBSET (Nodes \ {n}) : TryBootstrap(n, alive)

BootSpec == BootInit /\ [][BootNext]_bootVars

\* "Exactly one of them - the lowest node ID - bootstraps" (Config.BootstrapExpect): at
\* most one node founds a cluster, whatever each of them sees of the others, when
\* BootstrapExpect is the number of nodes that are started.
OneFounder == \A m, n \in founders : m = n
=============================================================================
