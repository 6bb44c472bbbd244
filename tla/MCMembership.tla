---------------------------- MODULE MCMembership ----------------------------
(***************************************************************************)
(* Three nodes form a cluster with BootstrapExpect = 3; then one more      *)
(* member joins it, fails, flaps, moves, leaves and returns.               *)
(***************************************************************************)
EXTENDS Membership, BootstrapExpect

CONSTANT s1

\* A member that relies on gossip, one that was told whom to join, and one that is to
\* stay a non-voter.  The first has the most time: three events are what it takes for a
\* timer to be crossed by an older callback and to evict.
Gossiping == [joinAddr |-> NoLeader, nonVoter |-> FALSE]
Joining == [joinAddr |-> s1, nonVoter |-> FALSE]
Observing == [joinAddr |-> s1, nonVoter |-> TRUE]

MCConfigs == {Gossiping, Joining, Observing}
MCMaxEvents == [c \in MCConfigs |-> IF c = Gossiping THEN 3 ELSE 2]

ClusterInit == BootInit /\ Init

Formed == configured = Nodes

ClusterNext ==
  \/ ~Formed /\ BootNext /\ UNCHANGED vars
  \/ Formed /\ Next /\ UNCHANGED bootVars

ClusterSpec == ClusterInit /\ [][ClusterNext]_<<vars, bootVars>> /\ Fairness
=============================================================================
