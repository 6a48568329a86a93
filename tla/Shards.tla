------------------------------- MODULE Shards -------------------------------
(***************************************************************************)
(* How work is cut into pieces in Python: the shards of                    *)
(* torchft/data.py, and the buckets of local_sgd.py's                      *)
(* _bucketize_and_allreduce.                                               *)
(***************************************************************************)
EXTENDS Integers, Sequences, FiniteSets, SequencesExt

-----------------------------------------------------------------------------
(* DistributedSampler                                                      *)

\* mutant: the ranks of a group are not consecutive, the stride is the number
\* of groups that are there
GlobalRankByGroup(groupRank, replicaRank, numReplicas, numGroups) ==
    groupRank * (numGroups - 1) + replicaRank

\* numReplicas is the size of a group, as in torch's sampler.
GlobalRank(groupRank, replicaRank, numReplicas, numGroups) ==
    groupRank + numReplicas * replicaRank

GlobalWorldSize(numReplicas, numGroups) == numReplicas * numGroups

\* torch's sampler: every world-th example from the rank's own on; the indices
\* start over to make the shards equally long.
ShardOf(rank, world, size) ==
    LET length == (size + world - 1) \div world
    IN  {(rank + world * i) % size : i \in 0 .. (length - 1)}

\* The shard of a local rank of a replica group.
Shard(groupRank, replicaRank, numReplicas, numGroups, size) ==
    ShardOf(GlobalRank(groupRank, replicaRank, numReplicas, numGroups),
            GlobalWorldSize(numReplicas, numGroups), size)

-----------------------------------------------------------------------------
(* _bucketize_and_allreduce                                                *)

Total(sizes) == FoldLeft(+, 0, sizes)

\* The flat buffer of turn i.
ChunkSize(sizes, cap, i) ==
    LET left == Total(sizes) - cap * (i - 1) IN IF left < cap THEN left ELSE cap

NumChunks(sizes, cap) == (Total(sizes) + cap - 1) \div cap

\* How many tensors are packed after each turn: as many as fit the buffer,
\* and none is cut.
Packed(sizes, cap) ==
    LET packed[i \in 0 .. NumChunks(sizes, cap)] ==
          IF i = 0 THEN 0
          ELSE CHOOSE n \in packed[i - 1] .. Len(sizes) :
                 LET fits(m) == Total(SubSeq(sizes, packed[i - 1] + 1, m)) <= ChunkSize(sizes, cap, i)
                 IN  fits(n) /\ (n < Len(sizes) => ~fits(n + 1))
    IN  packed

\* The callbacks run when the works are waited for, after the loop, and all
\* read its variables then: what is copied back is the last turn's buffer.
CopiedBack(sizes, cap) ==
    LET last == NumChunks(sizes, cap)
    IN  (Packed(sizes, cap)[last - 1] + 1) .. Packed(sizes, cap)[last]
=============================================================================
