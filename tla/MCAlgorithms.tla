----------------------------- MODULE MCAlgorithms -----------------------------
(***************************************************************************)
(* The pure computations, over bounded inputs: compute_quorum_results (the *)
(* quorums of MCQuorumResults), and the layouts of QuantizedCollectives    *)
(* and Shards.  A behaviour goes from one input to the next.               *)
(***************************************************************************)
EXTENDS MCQuorumResults, Sequences

CONSTANTS MaxRows, MaxWorld, Columns, MaxSize, None

VARIABLE input  \* None while a quorum is looked at

Q == INSTANCE QuantizedCollectives
S == INSTANCE Shards

Shape == (1 .. MaxRows) \X Columns
TensorLists == {<<a>> : a \in Shape} \cup {<<a, b>> : a \in Shape, b \in Shape}

Quantized == [kind : {"quantized"}, shapes : TensorLists, world : 1 .. MaxWorld]
Samplers == [kind : {"sampler"}, group : 1 .. MaxWorld, groups : 1 .. MaxWorld, size : 1 .. MaxSize]
Buckets == [kind : {"buckets"}, sizes : [1 .. 2 -> 1 .. MaxRows], cap : 1 .. MaxSize]

First == <<[r \in {0} |-> 0], 0, FALSE>>

\* The inputs are taken up one after the other, and so are the quorums.
AlgorithmsInit == Init /\ input = None

AlgorithmsNext ==
  \/ input = None /\ Next /\ UNCHANGED input
  \/ input = None /\ vars = First /\ input' \in Quantized \cup Samplers \cup Buckets /\ UNCHANGED vars
  \/ input # None /\ input' = None /\ UNCHANGED vars

AlgorithmsSpec == AlgorithmsInit /\ [][AlgorithmsNext]_<<vars, input>>

Is(kind) == input # None /\ input.kind = kind

-----------------------------------------------------------------------------
(* Quantized collectives                                                   *)

\* No two words of the packed rows share an address and none is outside the
\* buffer, whose size the host computes apart from the kernels' addresses
\* (quantization.py:506).
RowsDisjoint ==
  Is("quantized") =>
    LET cells == Q!Cells(input.shapes)
        at == [c \in cells |-> Q!CellAt(input.shapes, input.world, c)]
    IN  /\ Cardinality({at[c] : c \in cells}) = Cardinality(cells)
        /\ \A c \in cells : at[c] \in Q!Addresses(input.shapes, input.world)

\* The word is the sum over all ranks of the cell, each rank counted once.
IsSum(word, cell) ==
  /\ word.cell = cell
  /\ Len(word.from) = input.world
  /\ {word.from[i] : i \in DOMAIN word.from} = Q!Ranks(input.world)

\* After allreduce_quantized every element of every tensor is the sum over all
\* ranks, on every rank, whatever the padding (collectives.py:306).
AllreduceSums ==
  Is("quantized") =>
    LET results == Q!AllreduceQuantized(input.shapes, input.world)
    IN  \A k \in DOMAIN results : \A cell \in DOMAIN results[k] : IsSum(results[k][cell], cell)

\* After reduce_scatter_quantized rank k has the sums of the k-th share of the
\* rows, and zeros where the input was padded: the share that is unpacked as a
\* buffer of its own lies as the reduction left it (collectives.py:283).
ReduceScatterSums ==
  Is("quantized") =>
    LET outputs == Q!ReduceScatterQuantized(input.shapes, input.world)
    IN  \A k \in DOMAIN outputs : \A cell \in DOMAIN outputs[k] :
          LET shape == input.shapes[cell[1]]
              row == k * Q!SliceRows(shape, input.world) + cell[2]
          IN  IF row < shape[1]
              THEN IsSum(outputs[k][cell], <<cell[1], row, cell[3]>>)
              ELSE outputs[k][cell] = Q!Zero

\* The host and three kernels agree on where a row lies, so that the quantized
\* collectives give what their exact counterparts give: see the parts.
CollectivesSum == RowsDisjoint /\ AllreduceSums /\ ReduceScatterSums

-----------------------------------------------------------------------------
(* Shards and buckets                                                      *)

\* The ranks of all replica groups together read every example; while there
\* are at least as many examples as ranks, two ranks read the same one only
\* where the last round starts over (data.py:36).
ShardsCover ==
  Is("sampler") =>
    LET ranks == (0 .. (input.group - 1)) \X (0 .. (input.groups - 1))
        shard(r) == S!Shard(r[1], r[2], input.group, input.groups, input.size)
        world == input.group * input.groups
        twice == {x \in 0 .. (input.size - 1) :
                    Cardinality({r \in ranks : x \in shard(r)}) > 1}
    IN  /\ UNION {shard(r) : r \in ranks} = 0 .. (input.size - 1)
        /\ input.size >= world =>
             Cardinality(twice) = (world - (input.size % world)) % world

\* "Averages gradients using bucketized allreduce with a fixed buffer"
\* (local_sgd.py:559): every gradient gets its average.
BucketsAverageAll ==
  Is("buckets") => S!CopiedBack(input.sizes, input.cap) = DOMAIN input.sizes
=============================================================================
