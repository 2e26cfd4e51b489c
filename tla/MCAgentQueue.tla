---------------------------- MODULE MCAgentQueue ----------------------------
(***************************************************************************)
(* Symmetry for model-checking AgentQueue.  Hosts, replicas and rules are  *)
(* interchangeable; handles and events are not, their order is the order   *)
(* of reservation and of arrival.                                          *)
(***************************************************************************)
EXTENDS AgentQueue, TLC

HostAndReplicaSymmetry == Permutations(Hosts) \cup Permutations(Replicas)
RuleSymmetry == Permutations(Rules)
=============================================================================
