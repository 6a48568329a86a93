-------------------------- MODULE MCQuorumResults --------------------------
(***************************************************************************)
(* QuorumResults over every quorum of at most MaxReplicas replicas with    *)
(* steps 0..MaxSteps, for local ranks 0..MaxGroupRank and both settings of *)
(* init_sync.  A behaviour goes from one quorum to another by the events   *)
(* that tell quorums apart.                                                *)
(***************************************************************************)
EXTENDS QuorumResults

CONSTANTS MaxReplicas, MaxSteps, MaxGroupRank

VARIABLES
  steps,      \* the step of each participant of the quorum
  groupRank,  \* the local rank the results are computed for
  initSync    \* init_sync, the same in every manager

vars == <<steps, groupRank, initSync>>

Init ==
  /\ steps \in {[r \in 0..(n - 1) |-> 0] : n \in 1..MaxReplicas}
  /\ groupRank \in 0..MaxGroupRank
  /\ initSync \in BOOLEAN

\* The participants S finish a step, a late one joins at the end of the list,
\* the first one leaves.
Advance(S) ==
  /\ \A r \in S : steps[r] < MaxSteps
  /\ steps' = [r \in DOMAIN steps |-> IF r \in S THEN steps[r] + 1 ELSE steps[r]]
  /\ UNCHANGED <<groupRank, initSync>>

Join ==
  /\ Cardinality(DOMAIN steps) < MaxReplicas
  /\ steps' = [r \in 0..Cardinality(DOMAIN steps) |-> IF r \in DOMAIN steps THEN steps[r] ELSE 0]
  /\ UNCHANGED <<groupRank, initSync>>

Leave ==
  /\ Cardinality(DOMAIN steps) > 1
  /\ steps' = [r \in 0..(Cardinality(DOMAIN steps) - 2) |-> steps[r + 1]]
  /\ UNCHANGED <<groupRank, initSync>>

Next ==
  \/ \E S \in SUBSET DOMAIN steps : Advance(S)
  \/ Join
  \/ Leave

Spec == Init /\ [][Next]_vars

ReplyOf(r) == Reply(steps, r, groupRank, initSync)

-----------------------------------------------------------------------------

\* "Nodes are recovering if ..." (manager.rs:539): nobody recovers from a
\* replica that itself recovers or is behind.
SourcesAreUpToDate ==
  \A r \in DOMAIN steps :
    ReplyOf(r).heal =>
      LET s == ReplyOf(r).recover_src
      IN  /\ s \in DOMAIN steps
          /\ ~ReplyOf(s).heal
          /\ steps[s] = ReplyOf(r).max_step

\* With init_sync all replicas of a quorum that has not trained start from the
\* weights of a single one.
OneOrigin ==
  initSync /\ MaxStep(steps) = 0 =>
    \E origin \in DOMAIN steps :
      \A r \in DOMAIN steps \ {origin} : ReplyOf(r).heal /\ ReplyOf(r).recover_src = origin

\* No source serves two replicas more than another does.
LoadBalanced ==
  \A r, s \in DOMAIN steps :
    ~ReplyOf(r).heal /\ ~ReplyOf(s).heal =>
      Cardinality(ReplyOf(r).recover_dst) <= Cardinality(ReplyOf(s).recover_dst) + 1

\* The store, and the ranks and world size of the up-to-date replicas, are
\* such that all can form one process group: an up-to-date replica's store,
\* ranks 0..max_world_size-1 each held once.
GroupsForm ==
  LET top == {r \in DOMAIN steps : ReplyOf(r).max_rank # NoRank}
  IN  /\ \A r, s \in DOMAIN steps : ReplyOf(r).store = ReplyOf(s).store
      /\ \A r \in DOMAIN steps :
           /\ ReplyOf(r).store \in top
           /\ {ReplyOf(s).max_rank : s \in top} = 0..(ReplyOf(r).max_world_size - 1)
           /\ Cardinality(top) = ReplyOf(r).max_world_size

\* What the members of a quorum compute apart, without anybody comparing it,
\* makes one recovery: see the parts (manager.rs:489).
RecoveryFits == SourcesAreUpToDate /\ OneOrigin /\ LoadBalanced /\ GroupsForm
=============================================================================
