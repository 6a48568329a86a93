------------------------ MODULE QuantizedCollectives ------------------------
(***************************************************************************)
(* The quantized allreduce and reduce_scatter of torchft/collectives.py    *)
(* over the packed buffer of torchft/quantization.py.                      *)
(*                                                                         *)
(* Every rank packs the rows of all tensors into one buffer: a slice per   *)
(* rank, in it each tensor's share of rows, and a row is a word for its    *)
(* scale followed by its values, four to a word.  The kernels that write,  *)
(* reduce and read the buffer compute a row's place independently.         *)
(*                                                                         *)
(* A buffer is a function from word addresses to what was stored: which    *)
(* word of which row, and the ranks it is the sum of, in order.  The scale *)
(* word of a row belongs to its values: a value read with another scale is *)
(* Garbage.  A tensor is its <<rows, columns>>; a vector has one column.   *)
(***************************************************************************)
EXTENDS Integers, Sequences, SequencesExt

CeilDiv(a, b) == (a + b - 1) \div b

\* One word of memory.
Word(cell, from) == [cell |-> cell, from |-> from]
Zero    == Word(<<>>, <<>>)
Garbage == Word(<<0>>, <<>>)

-----------------------------------------------------------------------------
(* The layout: _prepare_quantize_fp8 and the kernels                       *)

RowWords(shape) == CeilDiv(shape[2], 4) + 1

\* The rows of a tensor in one rank's slice.
SliceRows(shape, world) == CeilDiv(shape[1], world)

\* What a tensor takes of a slice, i_n_padded // all_reduce_group_size.
TensorWords(shape, world) ==
    (SliceRows(shape, world) * world * RowWords(shape)) \div world

SliceWords(shapes, world) ==
    FoldLeft(LAMBDA sum, shape : sum + TensorWords(shape, world), 0, shapes)

\* i_offsets: where tensor t begins in every slice.
Offset(shapes, world, t) == SliceWords(SubSeq(shapes, 1, t - 1), world)

\* Where the quantizing and the dequantizing kernel look for a row.
RowAt(shapes, world, t, row) ==
    LET slice == SliceRows(shapes[t], world)
    IN  SliceWords(shapes, world) * (row \div slice)
        + Offset(shapes, world, t) + (row % slice) * RowWords(shapes[t])

Addresses(shapes, world) == 0 .. (world * SliceWords(shapes, world) - 1)

\* <<tensor, row, word>>; word 0 is the scale.
Cells(shapes) ==
    UNION {{<<t, row, w>> : row \in 0 .. (shapes[t][1] - 1), w \in 0 .. (RowWords(shapes[t]) - 1)} :
           t \in DOMAIN shapes}

CellAt(shapes, world, cell) == RowAt(shapes, world, cell[1], cell[2]) + cell[3]

-----------------------------------------------------------------------------
(* The kernels                                                             *)

\* fused_quantize_into_fp8 on rank k: a zeroed buffer, every row written.
Quantize(shapes, world, k) ==
    LET at == [cell \in Cells(shapes) |-> CellAt(shapes, world, cell)]
    IN  [a \in Addresses(shapes, world) |->
           IF \E cell \in Cells(shapes) : at[cell] = a
           THEN Word(CHOOSE cell \in Cells(shapes) : at[cell] = a, <<k>>)
           ELSE Zero]

\* A value word read with the scale of its row; a scale of zero counts as one.
Decode(scale, value) ==
    IF value = Zero THEN Zero
    ELSE IF scale.from = value.from /\ Len(value.cell) = 3
            /\ scale.cell = [value.cell EXCEPT ![3] = 0]
    THEN value ELSE Garbage

\* The sum of two decoded words.
Plus(a, b) ==
    IF a = Zero THEN b ELSE IF b = Zero THEN a
    ELSE IF a.cell = b.cell /\ a # Garbage THEN Word(a.cell, a.from \o b.from)
    ELSE Garbage

\* _fused_kernel_accumulate_block: the sum over all slices of the values at an
\* offset in the slice, own slice first.
Accumulate(buffer, slice, world, k, row, w) ==
    FoldLeft(LAMBDA sum, i :
               LET base == ((i + k) % world) * slice + row
               IN  Plus(sum, Decode(buffer[base], buffer[base + w])),
             Zero, [i \in 1 .. world |-> i - 1])

\* mutant: only the rows there are, not the rows of a slice, are reduced
ReduceRowsUnpadded(shape, world) == 0 .. (shape[1] \div world - 1)

ReduceRows(shape, world) == 0 .. (SliceRows(shape, world) - 1)

\* fused_reduce_fp8 on rank k, whose buffer holds its slice from every rank.
\* The sums replace rank k's slice; a row's scale is stored after its values,
\* which are still read with the old one.
Reduce(shapes, world, k, buffer) ==
    LET slice == SliceWords(shapes, world)
        rows == UNION {{<<t, row>> : row \in ReduceRows(shapes[t], world)} : t \in DOMAIN shapes}
        base == [r \in rows |-> Offset(shapes, world, r[1]) + r[2] * RowWords(shapes[r[1]])]
        sum(r, w) == Accumulate(buffer, slice, world, k, base[r], w)
        scale(r) == IF sum(r, 1) = Zero THEN Zero
                    ELSE [sum(r, 1) EXCEPT !.cell = [@ EXCEPT ![Len(@)] = 0]]
        in(r, a) == a - k * slice \in base[r] .. (base[r] + RowWords(shapes[r[1]]) - 1)
    IN  [a \in DOMAIN buffer |->
           IF \E r \in rows : in(r, a)
           THEN LET r == CHOOSE r \in rows : in(r, a)
                    w == a - k * slice - base[r]
                IN  IF w = 0 THEN scale(r) ELSE sum(r, w)
           ELSE buffer[a]]

\* fused_dequantize_from_fp8: every value word of every row.
Dequantize(shapes, world, buffer) ==
    [cell \in {c \in Cells(shapes) : c[3] > 0} |->
       LET at == RowAt(shapes, world, cell[1], cell[2])
       IN  Decode(buffer[at], buffer[at + cell[3]])]

-----------------------------------------------------------------------------
(* The collectives                                                         *)

\* alltoall_base: slice j of rank k's result is slice k of rank j's buffer.
AllToAll(shapes, world, buffers) ==
    LET slice == SliceWords(shapes, world)
    IN  [k \in DOMAIN buffers |-> [a \in DOMAIN buffers[k] |->
           buffers[a \div slice][k * slice + (a % slice)]]]

\* Slice j of everybody's result is rank j's own slice.
AllGather(shapes, world, buffers) ==
    LET slice == SliceWords(shapes, world)
    IN  [k \in DOMAIN buffers |-> [a \in DOMAIN buffers[k] |-> buffers[a \div slice][a]]]

Ranks(world) == 0 .. (world - 1)

\* What both collectives have after the local reduction.
Reduced(shapes, world) ==
    LET packed == [k \in Ranks(world) |-> Quantize(shapes, world, k)]
        mine == AllToAll(shapes, world, packed)
    IN  [k \in Ranks(world) |-> Reduce(shapes, world, k, mine[k])]

\* allreduce_quantized: the tensors of every rank.
AllreduceQuantized(shapes, world) ==
    LET gathered == AllGather(shapes, world, Reduced(shapes, world))
    IN  [k \in Ranks(world) |-> Dequantize(shapes, world, gathered[k])]

\* get_padded_sizes, and each rank's share of it.
PaddedSizes(shapes, world) ==
    [t \in DOMAIN shapes |-> <<CeilDiv(shapes[t][1], world) * world, shapes[t][2]>>]

OutputSizes(shapes, world) ==
    [t \in DOMAIN shapes |-> <<PaddedSizes(shapes, world)[t][1] \div world, shapes[t][2]>>]

\* reduce_scatter_quantized: rank k unpacks its own slice as a whole buffer.
ReduceScatterQuantized(shapes, world) ==
    LET slice == SliceWords(shapes, world)
    IN  [k \in Ranks(world) |->
           Dequantize(OutputSizes(shapes, world), 1,
                      [a \in 0 .. (slice - 1) |-> Reduced(shapes, world)[k][k * slice + a]])]
=============================================================================
