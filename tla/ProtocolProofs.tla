--------------------------- MODULE ProtocolProofs ---------------------------
(***************************************************************************)
(* The theorems of TrainingProofs.tla for the specification of the run,    *)
(* PSpec, in either of its settings, and what is guaranteed of the         *)
(* computations MCAlgorithms looks at: quorum results and the shards of    *)
(* the sampler.                                                            *)
(***************************************************************************)
EXTENDS MCProtocol, TrainingProofs, Shards

-----------------------------------------------------------------------------
(* Quorum results: the setting "algorithms" *)

LEMMA SameSizes ==
  ASSUME NEW S
  PROVE  Algorithms!Cardinality(S) = Cardinality(S)
  BY DEF Algorithms!Cardinality, Cardinality

\* The settings compute with the same operators.
LEMMA SameReplies ==
  ASSUME NEW s, NEW r, NEW g, NEW init
  PROVE  /\ Algorithms!Reply(s, r, g, init) = Reply(s, r, g, init)
         /\ Algorithms!MaxStep(s) = MaxStep(s)
  <1>1. \A S, k : Algorithms!Nth(S, k) = Nth(S, k) /\ Algorithms!IndexIn(S, k) = IndexIn(S, k)
    BY SameSizes DEF Algorithms!Nth, Nth, Algorithms!IndexIn, IndexIn
  <1>2. Algorithms!MaxStep(s) = MaxStep(s)
    BY DEF Algorithms!MaxStep, MaxStep, Algorithms!Max, Max
  <1>3. Algorithms!MaxParticipants(s) = MaxParticipants(s)
    BY <1>2 DEF Algorithms!MaxParticipants, MaxParticipants
  <1>4. Algorithms!Primary(s, g) = Primary(s, g)
    BY <1>1, <1>3, SameSizes DEF Algorithms!Primary, Primary
  <1>5. Algorithms!Recovering(s, g, init) = Recovering(s, g, init)
    BY <1>2, <1>4 DEF Algorithms!Recovering, Recovering
  <1>6. Algorithms!UpToDate(s, g, init) = UpToDate(s, g, init)
    BY <1>5 DEF Algorithms!UpToDate, UpToDate
  <1>7. \A d : Algorithms!RecoverSrc(s, d, g, init) = RecoverSrc(s, d, g, init)
    BY <1>1, <1>5, <1>6, SameSizes DEF Algorithms!RecoverSrc, RecoverSrc
  <1>8. Algorithms!RecoverDst(s, r, g, init) = RecoverDst(s, r, g, init)
    BY <1>5, <1>7 DEF Algorithms!RecoverDst, RecoverDst
  <1> QED
    BY <1>1, <1>2, <1>3, <1>4, <1>5, <1>7, <1>8, SameSizes DEF Algorithms!Reply, Reply

\* The quorums looked at: any number of replicas at any steps.
InputInv ==
  /\ \E n \in Nat \ {0} : steps \in [0 .. (n - 1) -> Nat]
  /\ groupRank \in Nat
  /\ initSync \in BOOLEAN

LEMMA InputIsQuorum ==
  ASSUME InputInv
  PROVE  IsQuorum(steps)
  <1>1. PICK n \in Nat \ {0} : steps \in [0 .. (n - 1) -> Nat]
    BY DEF InputInv
  <1>2. DOMAIN steps = 0 .. (n - 1) /\ 0 \in 0 .. (n - 1)
    BY <1>1
  <1>3. IsFiniteSet(0 .. (n - 1))
    BY FS_Interval
  <1> QED
    BY <1>1, <1>2, <1>3 DEF IsQuorum

LEMMA IntervalSize ==
  ASSUME NEW n \in Nat \ {0}
  PROVE  Cardinality(0 .. (n - 1)) = n
  BY FS_Interval

LEMMA InputInvHolds == PSpec => []InputInv
  <1>1. PInit => InputInv
    <2> SUFFICES ASSUME PInit
                 PROVE  InputInv
      OBVIOUS
    <2>1. CASE NoInput
      <3>1. steps \in [0 .. (1 - 1) -> Nat]
        BY <2>1 DEF NoInput
      <3>2. 1 \in Nat \ {0} /\ groupRank \in Nat
        BY <2>1 DEF NoInput
      <3>4. initSync \in BOOLEAN
        BY <2>1, Zenon DEF NoInput
      <3>3. \E n \in Nat \ {0} : steps \in [0 .. (n - 1) -> Nat]
        BY <3>1, <3>2, Zenon
      <3> QED
        BY <3>2, <3>3, <3>4 DEF InputInv
    <2>2. CASE Algorithms!AlgorithmsInit
      <3>1. PICK n \in 1 .. MaxReplicas : steps = [r \in 0 .. (n - 1) |-> 0]
        BY <2>2 DEF Algorithms!AlgorithmsInit, Algorithms!Init
      <3>2. n \in Nat \ {0} /\ groupRank \in Nat /\ initSync \in BOOLEAN
        BY <2>2, InputsAssumption DEF Algorithms!AlgorithmsInit, Algorithms!Init
      <3> QED
        <4>1. steps \in [0 .. (n - 1) -> Nat]
          BY <3>1
        <4> QED
          BY <3>2, <4>1 DEF InputInv
    <2> QED
      BY <2>1, <2>2 DEF PInit
  <1>2. InputInv /\ [PNext]_<<setting, protocolVars, inputVars>> => InputInv'
    <2> SUFFICES ASSUME InputInv, [PNext]_<<setting, protocolVars, inputVars>>
                 PROVE  InputInv'
      OBVIOUS
    <2>1. CASE UNCHANGED <<steps, groupRank, initSync>>
      BY <2>1 DEF InputInv
    <2>2. CASE Algorithms!Next
      <3> DEFINE n == Cardinality(DOMAIN steps)
      <3>0. n \in Nat \ {0} /\ steps \in [0 .. (n - 1) -> Nat]
        <4>1. PICK k \in Nat \ {0} : steps \in [0 .. (k - 1) -> Nat]
          BY DEF InputInv
        <4>2. DOMAIN steps = 0 .. (k - 1)
          BY <4>1
        <4>3. n = k
          BY <4>2, IntervalSize
        <4> QED
          BY <4>1, <4>3
      <3>1. DOMAIN steps = 0 .. (n - 1)
        BY <3>0
      <3>2. UNCHANGED <<groupRank, initSync>>
        BY <2>2 DEF Algorithms!Next, Algorithms!Advance, Algorithms!Join, Algorithms!Leave
      <3>3. ASSUME NEW T \in SUBSET DOMAIN steps, Algorithms!Advance(T)
            PROVE  \E m \in Nat \ {0} : steps' \in [0 .. (m - 1) -> Nat]
        <4>1. steps' = [r \in 0 .. (n - 1) |-> IF r \in T THEN steps[r] + 1 ELSE steps[r]]
          BY <3>1, <3>3 DEF Algorithms!Advance
        <4>2. steps' \in [0 .. (n - 1) -> Nat]
          BY <3>0, <4>1
        <4> QED
          BY <3>0, <4>2, Zenon
      <3>4. ASSUME Algorithms!Join
            PROVE  \E m \in Nat \ {0} : steps' \in [0 .. (m - 1) -> Nat]
        <4>1. steps' = [r \in 0 .. n |-> IF r \in 0 .. (n - 1) THEN steps[r] ELSE 0]
          BY <3>1, <3>4, SameSizes DEF Algorithms!Join
        <4> HIDE DEF n
        <4>2. n + 1 \in Nat \ {0} /\ (n + 1) - 1 = n
          BY <3>0
        <4>3. steps' \in [0 .. ((n + 1) - 1) -> Nat]
          BY <3>0, <4>1, <4>2
        <4> QED
          BY <4>2, <4>3
      <3>5. ASSUME Algorithms!Leave
            PROVE  \E m \in Nat \ {0} : steps' \in [0 .. (m - 1) -> Nat]
        <4>1. n > 1 /\ steps' = [r \in 0 .. (n - 2) |-> steps[r + 1]]
          BY <3>5, SameSizes DEF Algorithms!Leave
        <4> HIDE DEF n
        <4>2. n - 1 \in Nat \ {0} /\ (n - 1) - 1 = n - 2
          BY <3>0, <4>1
        <4>3. \A r \in 0 .. (n - 2) : r + 1 \in 0 .. (n - 1)
          BY <3>0, <4>1
        <4>4. steps' \in [0 .. ((n - 1) - 1) -> Nat]
          BY <3>0, <4>1, <4>2, <4>3
        <4> QED
          BY <4>2, <4>4
      <3> HIDE DEF n
      <3> QED
        BY <2>2, <3>2, <3>3, <3>4, <3>5 DEF Algorithms!Next, InputInv
    <2> QED
      BY <2>1, <2>2 DEF PNext, Algorithms!AlgorithmsNext, Algorithms!vars, inputVars
  <1> QED
    BY <1>1, <1>2, PTL DEF PSpec

\* What the members of a quorum compute apart makes one recovery
\* (compute_quorum_results in src/manager.rs), whatever the quorum, the local
\* rank and init_sync.
THEOREM QuorumsRecover == PSpec => []RecoveryFits
  <1>1. InputInv => RecoveryFits
    <2> SUFFICES ASSUME InputInv
                 PROVE  Algorithms!RecoveryFits
      BY DEF RecoveryFits
    <2>1. IsQuorum(steps) /\ groupRank \in Nat /\ initSync \in BOOLEAN
      BY InputIsQuorum DEF InputInv
    <2>2. \A r : Algorithms!ReplyOf(r) = Reply(steps, r, groupRank, initSync)
      BY SameReplies DEF Algorithms!ReplyOf
    <2>3. Algorithms!SourcesAreUpToDate
      BY <2>1, <2>2, RecoveringHaveSources DEF Algorithms!SourcesAreUpToDate
    <2>4. Algorithms!OneOrigin
      <3> SUFFICES ASSUME initSync = TRUE, MaxStep(steps) = 0
                   PROVE  \E origin \in DOMAIN steps :
                            \A r \in DOMAIN steps \ {origin} :
                              /\ Reply(steps, r, groupRank, initSync).heal
                              /\ Reply(steps, r, groupRank, initSync).recover_src = origin
        BY <2>2, SameReplies DEF Algorithms!OneOrigin
      <3>1. Primary(steps, groupRank) \in DOMAIN steps
        BY <2>1, PrimaryFits, MaxStepFits
      <3> QED
        BY <2>1, <3>1, OneSource
    <2>5. Algorithms!LoadBalanced
      <3> SUFFICES ASSUME NEW r \in DOMAIN steps, NEW s \in DOMAIN steps,
                          ~ Reply(steps, r, groupRank, initSync).heal,
                          ~ Reply(steps, s, groupRank, initSync).heal
                   PROVE  Cardinality(Reply(steps, r, groupRank, initSync).recover_dst)
                            <= Cardinality(Reply(steps, s, groupRank, initSync).recover_dst) + 1
        BY <2>2, SameSizes, Zenon DEF Algorithms!LoadBalanced
      <3>1. r \in UpToDate(steps, groupRank, initSync) /\ s \in UpToDate(steps, groupRank, initSync)
        BY DEF Reply, UpToDate
      <3>2. \A x : Reply(steps, x, groupRank, initSync).recover_dst
                     = RecoverDst(steps, x, groupRank, initSync)
        BY DEF Reply
      <3> QED
        BY <2>1, <3>1, <3>2, DestinationsBalanced
    <2>6. Algorithms!GroupsForm
      <3> DEFINE ReplyTo(r) == Reply(steps, r, groupRank, initSync)
                 top == {r \in DOMAIN steps : ReplyTo(r).max_rank # NoRank}
      <3>1. \A r \in DOMAIN steps :
              /\ ReplyTo(r).store = Primary(steps, groupRank)
              /\ ReplyTo(r).store \in top
              /\ {ReplyTo(s).max_rank : s \in top} = 0 .. (ReplyTo(r).max_world_size - 1)
              /\ Cardinality(top) = ReplyTo(r).max_world_size
        BY <2>1, RanksFit
      <3>2. \A r : Algorithms!ReplyOf(r) = ReplyTo(r)
        BY <2>2
      <3> HIDE DEF ReplyTo
      <3> QED
        BY <3>1, <3>2, SameSizes DEF Algorithms!GroupsForm
    <2> QED
      BY <2>3, <2>4, <2>5, <2>6 DEF Algorithms!RecoveryFits
  <1> QED
    BY <1>1, InputInvHolds, PTL

-----------------------------------------------------------------------------
(* Shards: the setting "algorithms" *)

LEMMA ProductsApart ==
  ASSUME NEW w \in Nat \ {0}, NEW p \in Nat, NEW q \in Nat, p < q
  PROVE  w * p + w <= w * q
  <1>1. PICK d \in Nat : q = p + 1 + d
    <2>1. q - p - 1 \in Nat /\ q = p + 1 + (q - p - 1)
      OBVIOUS
    <2> QED BY <2>1
  <1>2. w * q = w * p + w + w * d
    BY <1>1
  <1>3. w * d \in Nat
    OBVIOUS
  <1> QED BY <1>2, <1>3

LEMMA DivModIs ==
  ASSUME NEW w \in Nat \ {0}, NEW q \in Nat, NEW r \in 0 .. (w - 1), NEW x \in Nat, x = w * q + r
  PROVE  x \div w = q /\ x % w = r
  <1> DEFINE p == x \div w
  <1>1. p \in Nat /\ x % w \in 0 .. (w - 1) /\ x = w * p + (x % w)
    BY Division
  <1> HIDE DEF p
  <1>2. ~(p < q)
    <2> SUFFICES ASSUME p < q PROVE FALSE
      OBVIOUS
    <2>1. w * p + w <= w * q
      BY <1>1, ProductsApart
    <2> QED BY <1>1, <2>1
  <1>3. ~(q < p)
    <2> SUFFICES ASSUME q < p PROVE FALSE
      OBVIOUS
    <2>1. w * q + w <= w * p
      BY <1>1, ProductsApart
    <2> QED BY <1>1, <2>1
  <1>4. p = q
    BY <1>1, <1>2, <1>3
  <1> QED
    BY <1>1, <1>4 DEF p

LEMMA RemainderPast ==
  ASSUME NEW w \in Nat \ {0}, NEW x \in Nat, w <= x, x < w + w
  PROVE  x % w = x - w
  <1> DEFINE q == x \div w
             r == x % w
  <1>1. q \in Nat /\ r \in 0 .. (w - 1) /\ x = w * q + r
    BY Division
  <1> HIDE DEF q, r
  <1>2. q # 0
    BY <1>1
  <1>3. ~(1 < q)
    <2> SUFFICES ASSUME 1 < q PROVE FALSE
      OBVIOUS
    <2>1. w * 1 + w <= w * q
      BY <1>1, ProductsApart
    <2> QED
      BY <1>1, <2>1
  <1>4. q = 1
    BY <1>1, <1>2, <1>3
  <1>5. r = x - w
    BY <1>1, <1>4
  <1> QED
    BY <1>5 DEF r

\* How long the shards are, and how many examples are read again to make them equally long.
LEMMA ShardLength ==
  ASSUME NEW w \in Nat \ {0}, NEW n \in Nat \ {0}, NEW L, L = (n + w - 1) \div w
  PROVE  /\ L \in Nat /\ w * L \in Nat
         /\ n <= w * L /\ w * L < n + w
         /\ w * L - n = (w - (n % w)) % w
         /\ n % w = 0 => w * L = n
  <1>1. L \in Nat /\ w * L \in Nat /\ n <= w * L /\ w * L < n + w
    <2>1. n + w - 1 \in Nat
      OBVIOUS
    <2>2. L \in Nat /\ (n + w - 1) % w \in 0 .. (w - 1) /\ n + w - 1 = w * L + ((n + w - 1) % w)
      BY <2>1, Division
    <2>3. w * L \in Nat
      BY <2>2
    <2> DEFINE m == (n + w - 1) % w
    <2> HIDE DEF m
    <2> QED
      BY <2>2, <2>3 DEF m
  <1> DEFINE q == n \div w
             m == n % w
  <1>2. q \in Nat /\ m \in 0 .. (w - 1) /\ n = w * q + m /\ w * q \in Nat
    <2>1. n \in Nat /\ w \in Nat \ {0}
      OBVIOUS
    <2>2. q \in Nat /\ m \in 0 .. (w - 1) /\ n = w * q + m
      BY <2>1, Division
    <2> HIDE DEF q, m
    <2> QED
      BY <2>2
  <1> HIDE DEF q, m
  <1>3. CASE m = 0
    <2>1. ~(q < L)
      BY <1>1, <1>2, <1>3, ProductsApart
    <2>2. ~(L < q)
      BY <1>1, <1>2, <1>3, ProductsApart
    <2>3. L = q
      BY <1>1, <1>2, <2>1, <2>2
    <2>4. w * L = n
      BY <1>2, <1>3, <2>3
    <2>5. w = w * 1 + 0 /\ 0 \in 0 .. (w - 1) /\ 1 \in Nat /\ w \in Nat
      OBVIOUS
    <2>6. w % w = 0
      BY <2>5, DivModIs
    <2>7. (w - m) % w = 0 /\ w * L - n = 0
      BY <1>1, <1>3, <2>4, <2>6
    <2> QED
      BY <1>1, <2>4, <2>7 DEF m
  <1>4. CASE m # 0
    <2>1. L # q
      BY <1>1, <1>2, <1>4
    <2>2. ~(L < q)
      BY <1>1, <1>2, ProductsApart
    <2>3. q < L
      BY <1>1, <1>2, <2>1, <2>2
    <2>4. w * (q + 1) = w * q + w
      BY <1>2
    <2>5. ~(q + 1 < L)
      <3> SUFFICES ASSUME q + 1 < L PROVE FALSE
        OBVIOUS
      <3>1. w * (q + 1) + w <= w * L
        BY <1>1, <1>2, ProductsApart
      <3> QED
        BY <1>1, <1>2, <2>4, <3>1
    <2>6. L = q + 1
      BY <1>1, <1>2, <2>3, <2>5
    <2>7. w * L - n = w - m
      BY <1>2, <2>4, <2>6
    <2>8. w - m \in Nat /\ w - m \in 0 .. (w - 1) /\ w - m = w * 0 + (w - m)
      BY <1>2, <1>4
    <2>9. (w - m) % w = w - m
      BY <2>8, DivModIs
    <2> QED
      BY <1>1, <1>4, <2>7, <2>9 DEF m
  <1> QED
    BY <1>3, <1>4

\* How many examples the sampler deals out, some of them twice.
ListLength(w, n) == w * ((n + w - 1) \div w)

\* The sampler deals x to a rank.
DealtTo(x, rank, w, n) == \E j \in 0 .. (ListLength(w, n) - 1) : j % w = rank /\ x = j % n

\* A shard, by the places of its examples in the sampler's list.
LEMMA InShard ==
  ASSUME NEW w \in Nat \ {0}, NEW n \in Nat \ {0}, NEW rank \in 0 .. (w - 1), NEW x \in 0 .. (n - 1)
  PROVE  x \in ShardOf(rank, w, n) <=> DealtTo(x, rank, w, n)
  <1> DEFINE L == (n + w - 1) \div w
  <1>0. L \in Nat /\ w * L \in Nat
    BY ShardLength
  <1> HIDE DEF L
  <1>1. ASSUME NEW i \in 0 .. (L - 1), NEW j, j = rank + w * i
        PROVE  j \in 0 .. (w * L - 1) /\ j % w = rank
    <2>1. i \in Nat /\ w * i \in Nat /\ i < L
      BY <1>0
    <2>2. w * i + w <= w * L
      BY <1>0, <2>1, ProductsApart
    <2>3. j \in Nat /\ j = w * i + rank /\ j < w * L
      BY <1>0, <1>1, <2>1, <2>2
    <2>4. j % w = rank
      <3>1. j \in Nat /\ i \in Nat /\ rank \in 0 .. (w - 1) /\ j = w * i + rank
        BY <2>1, <2>3
      <3> QED
        BY ONLY <3>1, DivModIs, w \in Nat \ {0}
    <2> QED
      BY <1>0, <2>3, <2>4
  <1>2. ASSUME NEW j \in 0 .. (w * L - 1), j % w = rank
        PROVE  j \div w \in 0 .. (L - 1) /\ j = rank + w * (j \div w)
    <2>1. j \in Nat /\ j \div w \in Nat /\ j = w * (j \div w) + rank
      BY <1>0, <1>2, Division
    <2> DEFINE i == j \div w
    <2> HIDE DEF i
    <2>2. i \in Nat /\ w * i \in Nat /\ j = w * i + rank
      BY <2>1 DEF i
    <2>3. i < L
      <3> SUFFICES ASSUME ~(i < L) PROVE FALSE
        OBVIOUS
      <3>1. i = L \/ w * L + w <= w * i
        BY <1>0, <2>2, ProductsApart
      <3> QED
        BY <1>0, <1>2, <2>2, <3>1
    <2>4. i \in 0 .. (L - 1) /\ j = rank + w * i
      BY <1>0, <2>2, <2>3
    <2> QED
      BY <2>4 DEF i
  <1>3. ShardOf(rank, w, n) = {(rank + w * i) % n : i \in 0 .. (L - 1)}
    BY DEF ShardOf, L
  <1>4. ASSUME x \in ShardOf(rank, w, n)
        PROVE  \E j \in 0 .. (w * L - 1) : j % w = rank /\ x = j % n
    BY <1>1, <1>3, <1>4
  <1>5. ASSUME NEW j \in 0 .. (w * L - 1), j % w = rank, x = j % n
        PROVE  x \in ShardOf(rank, w, n)
    BY <1>2, <1>3, <1>5
  <1> QED
    BY <1>4, <1>5 DEF DealtTo, ListLength, L

\* Who reads x: the rank w leaves over, and a second one for the first p examples.
ReadBy(x, rank, w, n, p) ==
  /\ x \in ShardOf(rank, w, n) <=> x % w = rank \/ (x < p /\ (x + n) % w = rank)
  /\ x < p => (x + n) % w # x % w

\* Where there is an example for every rank, its reader is the rank that it is left over
\* for, and for the first examples also the rank they make up the last round for.
LEMMA Readers ==
  ASSUME NEW w \in Nat \ {0}, NEW n \in Nat \ {0}, NEW p,
         w <= n, p = (w - (n % w)) % w,
         NEW rank \in 0 .. (w - 1), NEW x \in 0 .. (n - 1)
  PROVE  p \in 0 .. (w - 1) /\ ReadBy(x, rank, w, n, p)
  <1> DEFINE len == ListLength(w, n)
  <1>1. /\ len \in Nat /\ n <= len /\ len < n + w /\ len - n = p
        /\ n % w = 0 => len = n
    BY ShardLength DEF ListLength
  <1>2. x \in ShardOf(rank, w, n) <=> \E j \in 0 .. (len - 1) : j % w = rank /\ x = j % n
    <2>1. x \in ShardOf(rank, w, n) <=> DealtTo(x, rank, w, n)
      BY InShard
    <2> QED
      BY <2>1, Zenon DEF DealtTo
  <1> HIDE DEF len
  <1>3. len \in Nat /\ len = n + p /\ p \in 0 .. (w - 1) /\ (n % w = 0 => p = 0)
    BY <1>1
  <1>4. \A j \in 0 .. (len - 1) : j % n = IF j < n THEN j ELSE j - n
    <2> SUFFICES ASSUME NEW j \in 0 .. (len - 1)
                 PROVE  j % n = IF j < n THEN j ELSE j - n
      OBVIOUS
    <2>1. j \in Nat /\ j < n + n
      BY <1>3
    <2>2. CASE j < n
      <3>1. j \in 0 .. (n - 1) /\ j = n * 0 + j
        BY <2>1, <2>2
      <3> QED
        BY <2>1, <2>2, <3>1, DivModIs
    <2>3. CASE ~(j < n)
      <3>1. j \in Nat /\ n <= j /\ j < n + n /\ n \in Nat \ {0}
        BY <2>1, <2>3
      <3>2. j % n = j - n
        BY ONLY <3>1, RemainderPast
      <3> QED
        BY <2>3, <3>2
    <2> QED
      BY <2>2, <2>3
  <1>5. ASSUME x \in ShardOf(rank, w, n)
        PROVE  x % w = rank \/ (x < p /\ (x + n) % w = rank)
    <2>1. PICK j \in 0 .. (len - 1) : j % w = rank /\ x = j % n
      BY <1>2, <1>5
    <2>2. x = j \/ (j = x + n /\ x < p)
      BY <1>3, <1>4, <2>1
    <2> QED
      BY <2>1, <2>2
  <1>6. ASSUME x % w = rank
        PROVE  x \in ShardOf(rank, w, n)
    <2>1. x \in 0 .. (len - 1) /\ x < n
      BY <1>3
    <2>2. x % n = x
      BY <1>4, <2>1
    <2> QED
      BY <1>2, <1>6, <2>1, <2>2
  <1>7. ASSUME x < p, (x + n) % w = rank
        PROVE  x \in ShardOf(rank, w, n)
    <2>1. x + n \in 0 .. (len - 1) /\ ~(x + n < n) /\ x + n - n = x
      BY <1>3, <1>7
    <2>2. (x + n) % n = x
      BY <1>4, <2>1
    <2> QED
      BY <1>2, <1>7, <2>1, <2>2
  <1>8. ASSUME x < p, (x + n) % w = x % w
        PROVE  FALSE
    <2> DEFINE a == x \div w
               b == (x + n) \div w
               m == x % w
    <2>1. a \in Nat /\ m \in 0 .. (w - 1) /\ x = w * a + m
      <3>1. x \in Nat
        OBVIOUS
      <3> HIDE DEF a, m
      <3> QED
        BY <3>1, Division DEF a, m
    <2>2. b \in Nat /\ x + n = w * b + m
      <3>1. x + n \in Nat
        OBVIOUS
      <3>2. b \in Nat /\ x + n = w * b + ((x + n) % w)
        BY <3>1, Division
      <3> QED
        BY <1>8, <3>2
    <2> HIDE DEF a, b, m
    <2>3. w * a \in Nat /\ w * b \in Nat
      BY <2>1, <2>2
    <2>4. n = w * b - w * a
      BY <2>1, <2>2, <2>3
    <2>5. a < b
      <3> SUFFICES ASSUME ~(a < b) PROVE FALSE
        OBVIOUS
      <3>1. a = b \/ w * b + w <= w * a
        BY <2>1, <2>2, ProductsApart
      <3> QED
        BY <2>3, <2>4, <3>1
    <2>6. b - a \in Nat /\ n = w * (b - a) + 0
      BY <2>1, <2>2, <2>4, <2>5
    <2>7. n % w = 0
      <3>1. 0 \in 0 .. (w - 1) /\ n \in Nat
        OBVIOUS
      <3> QED
        BY <2>6, <3>1, DivModIs
    <2> QED
      BY <1>3, <1>8, <2>7
  <1>9. ReadBy(x, rank, w, n, p)
    BY <1>5, <1>6, <1>7, <1>8, Zenon DEF ReadBy
  <1> QED
    BY <1>3, <1>9

\* The ranks of all groups are numbered one after the other.
LEMMA RankPairs ==
  ASSUME NEW g \in Nat \ {0}, NEW k \in Nat \ {0}, NEW w, w = g * k
  PROVE  /\ w \in Nat \ {0}
         /\ \A a \in 0 .. (g - 1), b \in 0 .. (k - 1) : a + g * b \in 0 .. (w - 1)
         /\ \A r \in 0 .. (w - 1) : \E a \in 0 .. (g - 1), b \in 0 .. (k - 1) : r = a + g * b
         /\ \A a, c \in 0 .. (g - 1), b, d \in 0 .. (k - 1) : a + g * b = c + g * d => a = c /\ b = d
  <1>1. w \in Nat \ {0}
    <2>1. 0 < k /\ 0 \in Nat /\ k \in Nat
      OBVIOUS
    <2>2. g * 0 + g <= g * k
      BY <2>1, ProductsApart
    <2>3. g * 0 = 0 /\ w \in Nat
      OBVIOUS
    <2> QED
      BY <2>2, <2>3
  <1>2. ASSUME NEW a \in 0 .. (g - 1), NEW b \in 0 .. (k - 1)
        PROVE  a + g * b \in 0 .. (w - 1) /\ (a + g * b) % g = a /\ (a + g * b) \div g = b
    <2>1. b \in Nat /\ k \in Nat /\ b < k /\ g * b \in Nat
      OBVIOUS
    <2>2. g * b + g <= g * k
      BY <2>1, ProductsApart
    <2>3. a + g * b \in Nat /\ a + g * b = g * b + a
      BY <2>1
    <2>4. a + g * b \in 0 .. (w - 1)
      BY <1>1, <2>1, <2>2
    <2> QED
      BY <2>1, <2>3, <2>4, DivModIs
  <1>3. ASSUME NEW r \in 0 .. (w - 1)
        PROVE  \E a \in 0 .. (g - 1), b \in 0 .. (k - 1) : r = a + g * b
    <2> DEFINE a == r % g
               b == r \div g
    <2>1. r \in Nat
      BY <1>1
    <2>2. a \in 0 .. (g - 1) /\ b \in Nat /\ r = g * b + a
      BY <2>1, Division
    <2> HIDE DEF a, b
    <2>3. b < k
      <3> SUFFICES ASSUME ~(b < k) PROVE FALSE
        OBVIOUS
      <3>1. b = k \/ g * k + g <= g * b
        BY <2>2, ProductsApart
      <3>2. g * b \in Nat
        BY <2>2
      <3> QED
        BY <1>1, <2>2, <3>1, <3>2
    <2>4. b \in 0 .. (k - 1) /\ r = a + g * b
      BY <2>2, <2>3
    <2> QED
      BY <2>2, <2>4
  <1>4. ASSUME NEW a \in 0 .. (g - 1), NEW b \in 0 .. (k - 1), NEW c \in 0 .. (g - 1), NEW d \in 0 .. (k - 1),
               a + g * b = c + g * d
        PROVE  a = c /\ b = d
    BY <1>2, <1>4
  <1> QED
    BY <1>1, <1>2, <1>3, <1>4

LEMMA OwnShard ==
  ASSUME NEW w \in Nat \ {0}, NEW n \in Nat \ {0}, NEW x \in 0 .. (n - 1)
  PROVE  x % w \in 0 .. (w - 1) /\ x \in ShardOf(x % w, w, n)
  <1> DEFINE len == ListLength(w, n)
  <1>1. len \in Nat /\ n <= len
    BY ShardLength DEF ListLength
  <1>2. x \in Nat
    OBVIOUS
  <1>3. x % w \in 0 .. (w - 1)
    BY <1>2, Division
  <1>4. x % n = x
    <2>1. x \in 0 .. (n - 1) /\ x = n * 0 + x
      BY <1>2
    <2> QED
      BY <1>2, <2>1, DivModIs
  <1>5. DealtTo(x, x % w, w, n)
    <2> HIDE DEF len
    <2>1. x \in 0 .. (len - 1)
      BY <1>1, <1>2
    <2>2. \E j \in 0 .. (len - 1) : j % w = x % w /\ x = j % n
      BY <1>4, <2>1
    <2> QED
      BY <2>2, Zenon DEF DealtTo, len
  <1> QED
    BY <1>3, <1>5, InShard

\* The rank of a group and the group, in one number.
Global(g, r) == r[1] + g * r[2]

\* The shards of all ranks of all groups.
SharedOut(ranks, g, w, n) ==
  /\ \A r \in ranks : ShardOf(Global(g, r), w, n) \subseteq 0 .. (n - 1)
  /\ \A x \in 0 .. (n - 1) : \E r \in ranks : x \in ShardOf(Global(g, r), w, n)
  /\ w <= n =>
       Cardinality({x \in 0 .. (n - 1) :
                      Cardinality({r \in ranks : x \in ShardOf(Global(g, r), w, n)}) > 1})
         = (w - (n % w)) % w

LEMMA ShardsFit ==
  ASSUME NEW g \in Nat \ {0}, NEW k \in Nat \ {0}, NEW n \in Nat \ {0}, NEW w, w = g * k,
         NEW ranks, ranks = (0 .. (g - 1)) \X (0 .. (k - 1))
  PROVE  SharedOut(ranks, g, w, n)
  <1>1. /\ w \in Nat \ {0}
        /\ \A r \in ranks : Global(g, r) \in 0 .. (w - 1)
        /\ \A j \in 0 .. (w - 1) : \E r \in ranks : j = Global(g, r)
        /\ \A r, s \in ranks : Global(g, r) = Global(g, s) => r = s
    <2>1. /\ w \in Nat \ {0}
          /\ \A a \in 0 .. (g - 1), b \in 0 .. (k - 1) : a + g * b \in 0 .. (w - 1)
          /\ \A r \in 0 .. (w - 1) : \E a \in 0 .. (g - 1), b \in 0 .. (k - 1) : r = a + g * b
          /\ \A a, c \in 0 .. (g - 1), b, d \in 0 .. (k - 1) : a + g * b = c + g * d => a = c /\ b = d
      BY RankPairs
    <2>2. \A r \in ranks : /\ r[1] \in 0 .. (g - 1) /\ r[2] \in 0 .. (k - 1)
                           /\ r = <<r[1], r[2]>>
      OBVIOUS
    <2>3. \A a \in 0 .. (g - 1), b \in 0 .. (k - 1) :
            <<a, b>> \in ranks /\ Global(g, <<a, b>>) = a + g * b
      BY DEF Global
    <2>4. \A r \in ranks : Global(g, r) \in 0 .. (w - 1)
      BY <2>1, <2>2 DEF Global
    <2>5. \A j \in 0 .. (w - 1) : \E r \in ranks : j = Global(g, r)
      <3> SUFFICES ASSUME NEW j \in 0 .. (w - 1) PROVE \E r \in ranks : j = Global(g, r)
        OBVIOUS
      <3>1. PICK a \in 0 .. (g - 1), b \in 0 .. (k - 1) : j = a + g * b
        BY <2>1
      <3> QED
        BY <2>3, <3>1
    <2>6. ASSUME NEW r \in ranks, NEW s \in ranks, Global(g, r) = Global(g, s)
          PROVE  r = s
      <3> DEFINE a == r[1]
                 b == r[2]
                 c == s[1]
                 d == s[2]
      <3>1. /\ a \in 0 .. (g - 1) /\ b \in 0 .. (k - 1) /\ r = <<a, b>>
            /\ c \in 0 .. (g - 1) /\ d \in 0 .. (k - 1) /\ s = <<c, d>>
        BY <2>2
      <3>2. a + g * b = c + g * d
        BY <2>6 DEF Global
      <3> HIDE DEF a, b, c, d
      <3>3. a = c /\ b = d
        BY ONLY <2>1, <3>1, <3>2
      <3> QED
        BY <3>1, <3>3
    <2> QED
      BY <2>1, <2>4, <2>5, <2>6
  <1>2. ASSUME NEW j \in 0 .. (w - 1), NEW x \in ShardOf(j, w, n)
        PROVE  x \in 0 .. (n - 1)
    <2> DEFINE L == (n + w - 1) \div w
    <2>1. L \in Nat
      BY <1>1, ShardLength
    <2>2. PICK i \in 0 .. (L - 1) : x = (j + w * i) % n
      BY DEF ShardOf
    <2> HIDE DEF L
    <2>3. j + w * i \in Nat
      BY <1>1, <2>1
    <2> QED
      BY <2>2, <2>3, Division
  <1>3. ASSUME NEW x \in 0 .. (n - 1)
        PROVE  \E r \in ranks : x \in ShardOf(Global(g, r), w, n)
    BY <1>1, OwnShard
  <1>4. ASSUME w <= n
        PROVE  Cardinality({x \in 0 .. (n - 1) :
                              Cardinality({r \in ranks : x \in ShardOf(Global(g, r), w, n)}) > 1})
                 = (w - (n % w)) % w
    <2> DEFINE p == (w - (n % w)) % w
               of(x) == {r \in ranks : x \in ShardOf(Global(g, r), w, n)}
    <2>1. 0 \in 0 .. (w - 1) /\ 0 \in 0 .. (n - 1)
      BY <1>1
    <2>2. p \in 0 .. (w - 1)
      BY <1>1, <1>4, <2>1, Readers
    <2>3. ASSUME NEW x \in 0 .. (n - 1)
          PROVE  /\ \A j \in 0 .. (w - 1) :
                      x \in ShardOf(j, w, n) <=> x % w = j \/ (x < p /\ (x + n) % w = j)
                 /\ x < p => (x + n) % w # x % w
                 /\ x % w \in 0 .. (w - 1) /\ (x + n) % w \in 0 .. (w - 1)
      <3>1. x \in Nat /\ x + n \in Nat
        OBVIOUS
      <3>2. x % w \in 0 .. (w - 1) /\ (x + n) % w \in 0 .. (w - 1)
        BY <1>1, <3>1, Division
      <3>3. ASSUME NEW j \in 0 .. (w - 1)
            PROVE  /\ x \in ShardOf(j, w, n) <=> x % w = j \/ (x < p /\ (x + n) % w = j)
                   /\ x < p => (x + n) % w # x % w
        <4>1. w \in Nat \ {0} /\ p = (w - (n % w)) % w /\ w <= n
          BY <1>1, <1>4 DEF p
        <4> HIDE DEF p
        <4>2. ReadBy(x, j, w, n, p)
          BY <4>1, Readers
        <4> QED
          BY <4>2, Zenon DEF ReadBy
      <3> HIDE DEF p
      <3>4. x < p => (x + n) % w # x % w
        BY <2>1, <3>3
      <3> QED
        BY <3>2, <3>3, <3>4
    <2> HIDE DEF p
    <2>4. ASSUME NEW x \in 0 .. (n - 1)
          PROVE  Cardinality(of(x)) > 1 <=> x < p
      <3>1. PICK r \in ranks : x % w = Global(g, r)
        BY <1>1, <2>3
      <3>2. PICK s \in ranks : (x + n) % w = Global(g, s)
        BY <1>1, <2>3
      <3>3. \A q \in ranks : q \in of(x) <=> q = r \/ (x < p /\ q = s)
        BY <1>1, <2>3, <3>1, <3>2
      <3>4. CASE x < p
        <4>1. of(x) = {r} \cup {s} /\ s \notin {r}
          BY <2>3, <3>1, <3>2, <3>3, <3>4
        <4>2. IsFiniteSet({r}) /\ Cardinality({r}) = 1
          BY FS_Singleton
        <4>3. Cardinality({r} \cup {s}) = Cardinality({r}) + 1
          BY <4>1, <4>2, FS_AddElement
        <4> DEFINE one == Cardinality({r})
                   both == Cardinality(of(x))
        <4>4. one = 1 /\ both = one + 1
          BY <4>1, <4>2, <4>3, Zenon
        <4> HIDE DEF one, both
        <4>5. both = 2
          BY <4>4
        <4> HIDE DEF of
        <4> QED
          BY <3>4, <4>5 DEF both
      <3>5. CASE ~(x < p)
        <4>1. of(x) = {r}
          BY <3>3, <3>5
        <4>2. Cardinality({r}) = 1
          BY FS_Singleton
        <4>3. Cardinality(of(x)) = 1
          BY <4>1, <4>2
        <4> HIDE DEF of
        <4> QED
          BY <3>5, <4>3
      <3> QED
        BY <3>4, <3>5
    <2> HIDE DEF of
    <2>5. {x \in 0 .. (n - 1) : Cardinality(of(x)) > 1} = 0 .. (p - 1)
      BY <1>1, <1>4, <2>2, <2>4
    <2>6. Cardinality(0 .. (p - 1)) = p
      BY <1>1, <2>2, FS_Interval
    <2> QED
      BY <2>5, <2>6 DEF p, of
  <1>5. \A r \in ranks : ShardOf(Global(g, r), w, n) \subseteq 0 .. (n - 1)
    BY <1>1, <1>2
  <1> QED
    BY <1>3, <1>4, <1>5, Zenon DEF SharedOut

\* The sampler looked at: any number of ranks, groups and examples.
SamplerInv ==
  Algorithms!Is("sampler") =>
    input.group \in Nat \ {0} /\ input.groups \in Nat \ {0} /\ input.size \in Nat \ {0}

LEMMA SamplerInvHolds == PSpec => []SamplerInv
  <1>1. PInit => SamplerInv
    <2>1. PInit => input = None
      BY DEF PInit, NoInput, Algorithms!AlgorithmsInit
    <2> QED
      BY <2>1 DEF SamplerInv, Algorithms!Is
  <1>2. SamplerInv /\ [PNext]_<<setting, protocolVars, inputVars>> => SamplerInv'
    <2> SUFFICES ASSUME SamplerInv, [PNext]_<<setting, protocolVars, inputVars>>
                 PROVE  SamplerInv'
      OBVIOUS
    <2>1. CASE UNCHANGED input
      BY <2>1 DEF SamplerInv, Algorithms!Is
    <2>2. CASE input' = None
      BY <2>2 DEF SamplerInv, Algorithms!Is
    <2>3. CASE input' \in Algorithms!Quantized \cup Algorithms!Buckets
      <3>1. input'.kind # "sampler"
        BY <2>3 DEF Algorithms!Quantized, Algorithms!Buckets
      <3> QED
        BY <3>1 DEF SamplerInv, Algorithms!Is
    <2>4. CASE input' \in Algorithms!Samplers
      <3>1. /\ input'.group \in 1 .. MaxWorld /\ input'.groups \in 1 .. MaxWorld
            /\ input'.size \in 1 .. MaxSize
        BY <2>4 DEF Algorithms!Samplers
      <3> QED
        BY <3>1, InputsAssumption DEF SamplerInv
    <2> QED
      BY <2>1, <2>2, <2>3, <2>4 DEF PNext, Algorithms!AlgorithmsNext, inputVars
  <1> QED
    BY <1>1, <1>2, PTL DEF PSpec

LEMMA SameShards ==
  ASSUME NEW a, NEW b, NEW g, NEW k, NEW n
  PROVE  Algorithms!S!Shard(a, b, g, k, n) = ShardOf(a + g * b, g * k, n)
  BY DEF Algorithms!S!Shard, Algorithms!S!ShardOf, Algorithms!S!GlobalRank,
         Algorithms!S!GlobalWorldSize, ShardOf

\* The shards that the ranks of all groups compute apart cover the examples, and no
\* more are read twice than are needed to make the shards equally long
\* (torchft/data.py:36), whatever the sizes.
THEOREM SamplersShareOut == PSpec => []ShardsCover
  <1>1. SamplerInv => ShardsCover
    <2> SUFFICES ASSUME SamplerInv, Algorithms!Is("sampler")
                 PROVE  Algorithms!ShardsCover
      BY DEF ShardsCover, Algorithms!ShardsCover
    <2> DEFINE g == input.group
               k == input.groups
               n == input.size
               w == g * k
               ranks == (0 .. (g - 1)) \X (0 .. (k - 1))
    <2>1. g \in Nat \ {0} /\ k \in Nat \ {0} /\ n \in Nat \ {0}
      BY DEF SamplerInv
    <2>2. SharedOut(ranks, g, w, n)
      <3> HIDE DEF g, k, n
      <3> QED
        BY <2>1, ShardsFit
    <2>3. \A r : Algorithms!S!Shard(r[1], r[2], g, k, n) = ShardOf(Global(g, r), w, n)
      BY SameShards DEF Global
    <2> DEFINE shard(r) == Algorithms!S!Shard(r[1], r[2], g, k, n)
               of(x) == {r \in ranks : x \in shard(r)}
               twice == {x \in 0 .. (n - 1) : Cardinality(of(x)) > 1}
               twiceThere == {x \in 0 .. (n - 1) : Algorithms!Cardinality(of(x)) > 1}
    <2>4. UNION {shard(r) : r \in ranks} = 0 .. (n - 1)
      <3>1. \A r \in ranks : shard(r) \subseteq 0 .. (n - 1)
        BY <2>2, <2>3, Zenon DEF SharedOut
      <3>2. \A x \in 0 .. (n - 1) : \E r \in ranks : x \in shard(r)
        BY <2>2, <2>3, Zenon DEF SharedOut
      <3> HIDE DEF g, k, n, ranks, shard
      <3> QED
        BY <3>1, <3>2
    <2>5. \A x : of(x) = {r \in ranks : x \in ShardOf(Global(g, r), w, n)}
      <3> HIDE DEF g, k, n, ranks
      <3> QED
        BY <2>3
    <2>6. w <= n => Cardinality(twice) = (w - (n % w)) % w
      <3>1. twice = {x \in 0 .. (n - 1) :
                       Cardinality({r \in ranks : x \in ShardOf(Global(g, r), w, n)}) > 1}
        <4> HIDE DEF g, k, n, ranks, of
        <4> QED
          BY <2>5
      <3> HIDE DEF g, k, n, ranks, of, twice
      <3> QED
        BY <2>2, <3>1, Zenon DEF SharedOut
    <2>7. Algorithms!Cardinality(twiceThere) = Cardinality(twice)
      <3>1. twiceThere = twice
        <4> HIDE DEF of
        <4> QED
          BY SameSizes
      <3> HIDE DEF twice, twiceThere
      <3> QED
        BY <3>1, SameSizes
    <2>8. n >= w <=> w <= n
      <3> HIDE DEF g, k, n
      <3> QED
        BY <2>1
    <2>9. n >= w => Algorithms!Cardinality(twiceThere) = (w - (n % w)) % w
      <3> HIDE DEF g, k, n, ranks, of, twice, twiceThere
      <3> QED
        BY <2>6, <2>7, <2>8
    <2> QED
      BY <2>4, <2>9, Zenon DEF Algorithms!ShardsCover
  <1> QED
    BY <1>1, SamplerInvHolds, PTL

-----------------------------------------------------------------------------
(* The setting "faults" of the runs *)

LEMMA SettingKept ==
  ASSUME [PNext]_<<setting, protocolVars, inputVars>>, setting' = "faults"
  PROVE  setting = "faults" /\ [Next]_vars
  <1>1. CASE UNCHANGED <<setting, protocolVars, inputVars>>
    <2>1. UNCHANGED vars
      BY <1>1 DEF protocolVars, vars, local
    <2> QED
      BY <1>1, <2>1
  <1>2. CASE PNext
    BY <1>2 DEF PNext
  <1> QED
    BY <1>1, <1>2

\* GroupsFollowQuorums for the specification of the run, whose settings include
\* those of the faults ("ProcessGroup will be in a healthy state after this
\* returns", manager.py:622).
THEOREM GroupsHold ==
  ASSUME ~LighthouseFaults
  PROVE  PSpec => []GroupsAreQuorums
  <1> DEFINE Inv == setting = "faults" => GroupInv
  <1>1. PInit => Inv
    BY InitGroup DEF PInit
  <1>2. Inv /\ [PNext]_<<setting, protocolVars, inputVars>> => Inv'
    BY SettingKept, NextGroup DEF RestartLighthouse
  <1>3. Inv => GroupsAreQuorums
    BY GroupInvSuffices DEF GroupsAreQuorums
  <1> QED
    BY <1>1, <1>2, <1>3, PTL DEF PSpec

-----------------------------------------------------------------------------
(* The setting "spares" of the runs: what is proved of TrainingProtocol holds *)
(* with its constants, and it takes the same steps                            *)

SpareProofs == INSTANCE TrainingProofs WITH
    Lives <- 1, InitSync <- FALSE, FixedWithSpares <- TRUE, Stragglers <- TRUE,
    PartialFailures <- FALSE, LighthouseFaults <- TRUE, MaxFaults <- 1

\* The constants of the setting are as TrainingProtocol assumes.
LEMMA SparesFit ==
  /\ Slots \in Nat \ {0} /\ 1 \in Nat \ {0}
  /\ /\ MinReplicas \in Nat \ {0}
     /\ FALSE \in BOOLEAN
     /\ TRUE \in BOOLEAN
     /\ 1 \in Nat
     /\ StepBound \in Nat
  /\ /\ None \notin SpareProofs!Weights /\ None \notin SpareProofs!Groups
     /\ None \notin [step : Nat, weights : SpareProofs!Weights]
     /\ \A members \in SUBSET SpareProofs!Ids : None # members
  <1>1. SpareProofs!Ids \subseteq Ids
    <2>1. Slots \in Nat /\ Lives \in Nat /\ Lives >= 1
      BY SlotsAssumption
    <2>2. Slots * 1 <= Slots * Lives /\ Slots * Lives \in Nat
      BY <2>1
    <2> QED
      BY <2>1, <2>2 DEF SpareProofs!Ids, Ids
  <1>2. SpareProofs!Groups \subseteq Groups
    BY <1>1 DEF SpareProofs!Groups, Groups
  <1>3. SpareProofs!Weights \subseteq Weights
    BY <1>1 DEF SpareProofs!Weights, Weights
  <1> QED
    BY <1>1, <1>2, <1>3, SlotsAssumption, ProtocolAssumption, NoneAssumption

LEMMA SpareNames ==
  /\ Spares!Ids = SpareProofs!Ids
  /\ Spares!Alive = SpareProofs!Alive
  /\ Spares!Registered = SpareProofs!Registered
  /\ Spares!vars = SpareProofs!vars
  /\ Spares!local = SpareProofs!local
  /\ Spares!Fault <=> SpareProofs!Fault
  /\ Spares!Init <=> SpareProofs!Init
  BY DEF Spares!Ids, SpareProofs!Ids, Spares!Alive, SpareProofs!Alive, Spares!Registered, SpareProofs!Registered,
     Spares!vars, SpareProofs!vars, Spares!local, SpareProofs!local, Spares!Fault, SpareProofs!Fault,
     Spares!Init, SpareProofs!Init, Spares!SlotOf, SpareProofs!SlotOf

LEMMA SpareSizes == \A S : Spares!Cardinality(S) = SpareProofs!Cardinality(S)
  BY DEF Spares!Cardinality, SpareProofs!Cardinality

LEMMA SpareReplies ==
  ASSUME NEW s, NEW r, NEW g, NEW init
  PROVE  Spares!Reply(s, r, g, init) = SpareProofs!Reply(s, r, g, init)
  <1>1. \A S, k : Spares!Nth(S, k) = SpareProofs!Nth(S, k) /\ Spares!IndexIn(S, k) = SpareProofs!IndexIn(S, k)
    BY SpareSizes DEF Spares!Nth, SpareProofs!Nth, Spares!IndexIn, SpareProofs!IndexIn
  <1>2. Spares!MaxStep(s) = SpareProofs!MaxStep(s)
    BY DEF Spares!MaxStep, SpareProofs!MaxStep, Spares!Max, SpareProofs!Max
  <1>3. Spares!MaxParticipants(s) = SpareProofs!MaxParticipants(s)
    BY <1>2 DEF Spares!MaxParticipants, SpareProofs!MaxParticipants
  <1>4. Spares!Primary(s, g) = SpareProofs!Primary(s, g)
    BY <1>1, <1>3, SpareSizes DEF Spares!Primary, SpareProofs!Primary
  <1>5. Spares!Recovering(s, g, init) = SpareProofs!Recovering(s, g, init)
    BY <1>2, <1>4 DEF Spares!Recovering, SpareProofs!Recovering
  <1>6. Spares!UpToDate(s, g, init) = SpareProofs!UpToDate(s, g, init)
    BY <1>5 DEF Spares!UpToDate, SpareProofs!UpToDate
  <1>7. \A d : Spares!RecoverSrc(s, d, g, init) = SpareProofs!RecoverSrc(s, d, g, init)
    BY <1>1, <1>5, <1>6, SpareSizes DEF Spares!RecoverSrc, SpareProofs!RecoverSrc
  <1>8. Spares!RecoverDst(s, r, g, init) = SpareProofs!RecoverDst(s, r, g, init)
    BY <1>5, <1>7 DEF Spares!RecoverDst, SpareProofs!RecoverDst
  <1> QED
    BY <1>1, <1>2, <1>3, <1>4, <1>5, <1>7, <1>8, SpareSizes DEF Spares!Reply, SpareProofs!Reply

LEMMA SpareForms ==
  ASSUME NEW S
  PROVE  Spares!FormQuorum(S) <=> SpareProofs!FormQuorum(S)
  <1>1. Spares!MayForm(S) <=> SpareProofs!MayForm(S)
    BY SpareNames, SpareSizes DEF Spares!MayForm, SpareProofs!MayForm
  <1>2. Spares!QuorumIdFor(S) = SpareProofs!QuorumIdFor(S)
    BY DEF Spares!QuorumIdFor, SpareProofs!QuorumIdFor
  <1>3. \A i : Spares!Answer(S, i) = SpareProofs!Answer(S, i)
    BY <1>2, SpareReplies DEF Spares!Answer, SpareProofs!Answer
  <1> QED
    BY <1>1, <1>2, <1>3, SpareNames DEF Spares!FormQuorum, SpareProofs!FormQuorum, Spares!local, SpareProofs!local

LEMMA SpareWork ==
  ASSUME NEW i
  PROVE  /\ Spares!NumParticipants(i) = SpareProofs!NumParticipants(i)
         /\ Spares!Group(i) = SpareProofs!Group(i)
         /\ Spares!Participating(i) <=> SpareProofs!Participating(i)
         /\ Spares!Restored(i) = SpareProofs!Restored(i)
         /\ Spares!Request(i) = SpareProofs!Request(i)
         /\ Spares!Served(i) <=> SpareProofs!Served(i)
  BY DEF Spares!NumParticipants, SpareProofs!NumParticipants, Spares!Group, SpareProofs!Group,
     Spares!Participating, SpareProofs!Participating, Spares!HasRank, SpareProofs!HasRank,
     Spares!Restored, SpareProofs!Restored, Spares!Request, SpareProofs!Request,
     Spares!Served, SpareProofs!Served

LEMMA SpareEnds ==
  ASSUME NEW G
  PROVE  Spares!CollectiveEnds(G) <=> SpareProofs!CollectiveEnds(G)
  <1>1. {m \in G.members : Spares!Participating(m)} = {m \in G.members : SpareProofs!Participating(m)}
    BY SpareWork
  <1>2. ASSUME NEW Ok
        PROVE  [i \in Spares!Ids |-> IF i \in Ok THEN {m \in G.members : Spares!Participating(m)} ELSE reduced[i]]
             = [i \in SpareProofs!Ids |-> IF i \in Ok THEN {m \in G.members : SpareProofs!Participating(m)} ELSE reduced[i]]
    BY <1>1, SpareNames
  <1>3. ASSUME NEW Ok
        PROVE  [i \in Spares!Ids |-> IF i \in Ok THEN TRUE ELSE errored[i]]
             = [i \in SpareProofs!Ids |-> IF i \in Ok THEN TRUE ELSE errored[i]]
    BY SpareNames
  <1>4. [i \in Spares!Ids |-> IF i \in G.members THEN "reduced" ELSE pc[i]]
      = [i \in SpareProofs!Ids |-> IF i \in G.members THEN "reduced" ELSE pc[i]]
    BY SpareNames
  <1>5. Spares!Fault <=> SpareProofs!Fault
    BY SpareNames
  <1> QED
    BY <1>2, <1>3, <1>4, <1>5, Zenon DEF Spares!CollectiveEnds, SpareProofs!CollectiveEnds

LEMMA SpareSteps ==
  ASSUME NEW i
  PROVE  Spares!Replica(i) \/ Spares!Crash(i) <=> SpareProofs!Replica(i) \/ SpareProofs!Crash(i)
  <1>1. Spares!StartQuorum(i) <=> SpareProofs!StartQuorum(i)
    BY SpareWork DEF Spares!StartQuorum, SpareProofs!StartQuorum
  <1>2. Spares!RetryQuorum(i) <=> SpareProofs!RetryQuorum(i)
    BY SpareNames, SpareWork DEF Spares!RetryQuorum, SpareProofs!RetryQuorum, Spares!local, SpareProofs!local
  <1>3. Spares!MissQuorum(i) <=> SpareProofs!MissQuorum(i)
    BY SpareNames, SpareWork DEF Spares!MissQuorum, SpareProofs!MissQuorum, Spares!local, SpareProofs!local
  <1>4. Spares!Configure(i) <=> SpareProofs!Configure(i)
    BY SpareNames, SpareWork DEF Spares!Configure, SpareProofs!Configure
  <1>5. Spares!Recover(i) <=> SpareProofs!Recover(i)
    BY DEF Spares!Recover, SpareProofs!Recover
  <1>6. Spares!ReceiveCheckpoint(i) <=> SpareProofs!ReceiveCheckpoint(i)
    BY SpareWork DEF Spares!ReceiveCheckpoint, SpareProofs!ReceiveCheckpoint
  <1>7. Spares!HealFails(i) <=> SpareProofs!HealFails(i)
    BY SpareNames, SpareWork DEF Spares!HealFails, SpareProofs!HealFails
  <1>8. Spares!Allreduce(i) <=> SpareProofs!Allreduce(i)
    BY SpareNames DEF Spares!Allreduce, SpareProofs!Allreduce, Spares!local, SpareProofs!local
  <1>9. Spares!CollectiveTimesOut(i) <=> SpareProofs!CollectiveTimesOut(i)
    BY SpareNames DEF Spares!CollectiveTimesOut, SpareProofs!CollectiveTimesOut
  <1>10. Spares!ShouldCommit(i) <=> SpareProofs!ShouldCommit(i)
    BY SpareWork DEF Spares!ShouldCommit, SpareProofs!ShouldCommit
  <1>11. Spares!Crash(i) <=> SpareProofs!Crash(i)
    BY SpareNames DEF Spares!Crash, SpareProofs!Crash
  <1> QED
    BY <1>1, <1>2, <1>3, <1>4, <1>5, <1>6, <1>7, <1>8, <1>9, <1>10, <1>11
    DEF Spares!Replica, SpareProofs!Replica

LEMMA SpareNext == Spares!Next <=> SpareProofs!Next
  <1>1. Spares!RestartLighthouse <=> SpareProofs!RestartLighthouse
    BY SpareNames DEF Spares!RestartLighthouse, SpareProofs!RestartLighthouse, Spares!local, SpareProofs!local
  <1>2. (\E S \in SUBSET Spares!Registered : Spares!FormQuorum(S))
          <=> \E S \in SUBSET SpareProofs!Registered : SpareProofs!FormQuorum(S)
    BY SpareNames, SpareForms
  <1>3. (\E G \in {pg[i] : i \in Spares!Ids} : Spares!CollectiveEnds(G))
          <=> \E G \in {pg[i] : i \in SpareProofs!Ids} : SpareProofs!CollectiveEnds(G)
    BY SpareNames, SpareEnds
  <1>4. (\E i \in Spares!Ids : Spares!Replica(i) \/ Spares!Crash(i))
          <=> \E i \in SpareProofs!Ids : SpareProofs!Replica(i) \/ SpareProofs!Crash(i)
    BY SpareNames, SpareSteps
  <1> QED
    BY <1>1, <1>2, <1>3, <1>4 DEF Spares!Next, SpareProofs!Next

LEMMA SpareProperties ==
  /\ Spares!SameStepSameWeights <=> SpareProofs!SameStepSameWeights
  /\ Spares!AveragesParticipants <=> SpareProofs!AveragesParticipants
  BY SpareNames, SpareSizes, SpareWork DEF Spares!SameStepSameWeights, SpareProofs!SameStepSameWeights,
     Spares!AveragesParticipants, SpareProofs!AveragesParticipants

LEMMA SpareSettingKept ==
  ASSUME [PNext]_<<setting, protocolVars, inputVars>>, setting' = "spares"
  PROVE  setting = "spares" /\ [SpareProofs!Next]_SpareProofs!vars
  <1>1. CASE UNCHANGED <<setting, protocolVars, inputVars>>
    <2>1. UNCHANGED SpareProofs!vars
      BY <1>1 DEF protocolVars, SpareProofs!vars, SpareProofs!local
    <2> QED
      BY <1>1, <2>1
  <1>2. CASE PNext
    BY <1>2, SpareNext DEF PNext
  <1> QED
    BY <1>1, <1>2

\* AveragesAreOfParticipants for the specification of the run: with spares, with
\* stragglers and when the lighthouse restarts, the sum of the gradients is divided
\* "by the number of replicas participating in the current step" (manager.py:1026).
THEOREM AveragesHold == PSpec => []ParticipantsAreAveraged
  <1> DEFINE Inv == setting = "spares" => SpareProofs!AverageInv
  <1>1. PInit => Inv
    BY SpareProofs!InitAveraged, NoRankAssumption, SparesFit, SpareNames DEF PInit
  <1>2. Inv /\ [PNext]_<<setting, protocolVars, inputVars>> => Inv'
    <2> SUFFICES ASSUME Inv, [PNext]_<<setting, protocolVars, inputVars>>, setting' = "spares"
                 PROVE  SpareProofs!AverageInv'
      OBVIOUS
    <2>1. SpareProofs!AverageInv /\ [SpareProofs!Next]_SpareProofs!vars
      BY SpareSettingKept
    <2> QED
      BY <2>1, SpareProofs!NextAveraged, NoRankAssumption, SparesFit
  <1>3. Inv => ParticipantsAreAveraged
    BY SpareProperties DEF ParticipantsAreAveraged, SpareProofs!AverageInv
  <1> QED
    BY <1>1, <1>2, <1>3, PTL DEF PSpec

\* SameStepsSameWeights and OneHistory for the specification of the run ("Replicas
\* with the same max_step have the same model parameters",
\* docs/source/protocol.rst:8), in every setting.
THEOREM WeightsHold ==
  ASSUME ~Stragglers
  PROVE  PSpec => []WeightsAgree
  <1> DEFINE Inv == /\ setting = "faults" => WeightsInv
                    /\ setting = "spares" => SpareProofs!OneHistoryInv
  <1>1. PInit => Inv
    BY InitWeights, SpareProofs!InitOneHistory, NoRankAssumption, SparesFit, SpareNames DEF PInit
  <1>2. Inv /\ [PNext]_<<setting, protocolVars, inputVars>> => Inv'
    <2> SUFFICES ASSUME Inv, [PNext]_<<setting, protocolVars, inputVars>>
                 PROVE  Inv'
      OBVIOUS
    <2>1. setting' = "faults" => WeightsInv'
      BY SettingKept, NextWeights
    <2>2. setting' = "spares" => SpareProofs!OneHistoryInv /\ [SpareProofs!Next]_SpareProofs!vars
      BY SpareSettingKept
    <2>3. setting' = "spares" => SpareProofs!OneHistoryInv'
      BY <2>2, SpareProofs!NextOneHistory, NoRankAssumption, SparesFit
    <2> QED
      BY <2>1, <2>3
  <1>3. Inv => WeightsAgree
    <2>1. WeightsInv => SameStepSameWeights
      BY DEF WeightsInv, WeightsAt
    <2>2. SpareProofs!OneHistoryInv => Spares!SameStepSameWeights
      BY SpareProofs!OneHistorySuffices, SpareProperties, NoRankAssumption, SparesFit
    <2> QED
      BY <2>1, <2>2 DEF WeightsAgree
  <1> QED
    BY <1>1, <1>2, <1>3, PTL DEF PSpec

=============================================================================
