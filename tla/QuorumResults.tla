--------------------------- MODULE QuorumResults ---------------------------
(***************************************************************************)
(* What a manager server makes of a lighthouse quorum for one local rank   *)
(* (compute_quorum_results in src/manager.rs): which replicas recover,     *)
(* from whom, and whose store they meet at.  Every member computes this    *)
(* for itself from the same quorum; nobody compares the answers.           *)
(*                                                                         *)
(* The participants are sorted by replica id, so a replica is its position *)
(* 0..n-1 and a quorum is the function from positions to steps.  The       *)
(* manager and store addresses of a replica are its position too.          *)
(***************************************************************************)
EXTENDS Integers, FiniteSets, FiniteSetsExt

CONSTANT NoRank   \* Option::None for a rank

ASSUME NoRankAssumption == NoRank \notin Nat

\* The k-th element of a set of positions, and the place of r in it.
Nth(S, k) == CHOOSE r \in S : Cardinality({x \in S : x < r}) = k
IndexIn(S, r) == Cardinality({x \in S : x < r})

MaxStep(steps) == Max({steps[r] : r \in DOMAIN steps})

MaxParticipants(steps) == {r \in DOMAIN steps : steps[r] = MaxStep(steps)}

\* The replica whose store local rank g of every replica uses.
Primary(steps, g) ==
  Nth(MaxParticipants(steps), g % Cardinality(MaxParticipants(steps)))

\* Replicas behind, and with init_sync at step 0 all but the primary.
Recovering(steps, g, init) ==
  {r \in DOMAIN steps :
     \/ steps[r] # MaxStep(steps)
     \/ init /\ MaxStep(steps) = 0 /\ r # Primary(steps, g)}

UpToDate(steps, g, init) == DOMAIN steps \ Recovering(steps, g, init)

\* mutant: the source is picked among all replicas
RecoverSrcAny(steps, r, g, init) ==
  (IndexIn(Recovering(steps, g, init), r) + g) % Cardinality(DOMAIN steps)

\* The sources are dealt out in turn, starting at the local rank's number.
RecoverSrc(steps, r, g, init) ==
  LET up == UpToDate(steps, g, init)
  IN  Nth(up, (IndexIn(Recovering(steps, g, init), r) + g) % Cardinality(up))

RecoverDst(steps, r, g, init) ==
  {d \in Recovering(steps, g, init) : RecoverSrc(steps, d, g, init) = r}

\* The response for local rank g of replica r.
Reply(steps, r, g, init) ==
  LET heal == r \in Recovering(steps, g, init)
      top  == MaxParticipants(steps)
  IN  [heal               |-> heal,
       recover_src        |-> IF heal THEN RecoverSrc(steps, r, g, init) ELSE NoRank,
       recover_dst        |-> RecoverDst(steps, r, g, init),
       store              |-> Primary(steps, g),
       max_step           |-> MaxStep(steps),
       max_rank           |-> IF r \in top THEN IndexIn(top, r) ELSE NoRank,
       max_world_size     |-> Cardinality(top),
       replica_rank       |-> r,
       replica_world_size |-> Cardinality(DOMAIN steps)]
=============================================================================
