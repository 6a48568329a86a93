------------------------ MODULE QuorumResultsProofs ------------------------
(***************************************************************************)
(* Theorems about compute_quorum_results (QuorumResults), for quorums of   *)
(* any size, any steps and any local rank.                                 *)
(***************************************************************************)
EXTENDS QuorumResults, FiniteSetTheorems, WellFoundedInduction, TLAPS

-----------------------------------------------------------------------------
(* Finite sets of numbers *)

\* Every set of numbers has a least element; what the other lemmas use for an
\* induction.
LEMMA LeastNumber ==
  ASSUME NEW S \in SUBSET Nat, S # {}
  PROVE  \E x \in S : \A y \in S : x <= y
  <1> DEFINE R == OpToRel(<, Nat)
  <1>1. IsWellFoundedOn(R, Nat)
    BY NatLessThanWellFounded
  <1>2. ASSUME NEW x \in Nat, NEW y \in Nat, y < x
        PROVE  <<y, x>> \in R
    BY <1>2 DEF OpToRel
  <1> HIDE DEF R
  <1>3. PICK x \in S : \A y \in S : ~ (<<y, x>> \in R)
    BY <1>1, WFMin
  <1>4. ASSUME NEW y \in S
        PROVE  x <= y
    <2>1. x \in Nat /\ y \in Nat
      OBVIOUS
    <2>2. ~ (y < x)
      BY <1>2, <1>3, <2>1
    <2> QED
      BY <2>1, <2>2
  <1> QED
    BY <1>4

Below(S, x) == {y \in S : y < x}
Above(S, x) == {y \in S : x < y}

LEMMA SidesFinite ==
  ASSUME NEW S \in SUBSET Nat, IsFiniteSet(S), NEW x \in S
  PROVE  /\ IsFiniteSet(Below(S, x)) /\ Cardinality(Below(S, x)) \in Nat
         /\ IsFiniteSet(Above(S, x)) /\ Cardinality(Above(S, x)) \in Nat
         /\ Cardinality(S) \in Nat
         /\ Cardinality(S) = Cardinality(Below(S, x)) + 1 + Cardinality(Above(S, x))
  <1> DEFINE B == Below(S, x)
             A == Above(S, x)
  <1>a. \A y \in S : y \in Nat /\ (y < x \/ y = x \/ x < y)
    OBVIOUS
  <1>b. \A y \in S : (y < x => ~ (x < y)) /\ ~ (x < x)
    BY <1>a
  <1>1. B \subseteq S /\ A \subseteq S /\ x \notin B /\ x \notin A /\ B \cap A = {}
    BY <1>b DEF Below, Above
  <1>2. S = (B \cup {x}) \cup A
    BY <1>a DEF Below, Above
  <1> HIDE DEF B, A
  <1>3. /\ IsFiniteSet(B) /\ IsFiniteSet(A)
        /\ Cardinality(B) \in Nat /\ Cardinality(A) \in Nat /\ Cardinality(S) \in Nat
    BY <1>1, FS_Subset, FS_CardinalityType
  <1>4. IsFiniteSet(B \cup {x}) /\ Cardinality(B \cup {x}) = Cardinality(B) + 1
    BY <1>1, <1>3, FS_AddElement
  <1>5. (B \cup {x}) \cap A = {}
    BY <1>1
  <1>6. Cardinality((B \cup {x}) \cup A)
          = Cardinality(B \cup {x}) + Cardinality(A) - Cardinality((B \cup {x}) \cap A)
    BY <1>3, <1>4, FS_Union
  <1>7. Cardinality((B \cup {x}) \cap A) = 0
    BY <1>5, FS_EmptySet
  <1>8. Cardinality(S) = Cardinality(B) + 1 + Cardinality(A)
    BY <1>2, <1>3, <1>4, <1>6, <1>7
  <1> QED
    BY <1>3, <1>8 DEF B, A

\* A finite set of numbers has a greatest element.
LEMMA MaxIsGreatest ==
  ASSUME NEW S \in SUBSET Nat, IsFiniteSet(S), S # {}
  PROVE  Max(S) \in S /\ \A y \in S : y <= Max(S)
  <1> DEFINE T == {Cardinality(Above(S, y)) : y \in S}
  <1>1. T \in SUBSET Nat /\ T # {}
    BY SidesFinite
  <1>2. PICK m \in T : \A n \in T : m <= n
    BY <1>1, LeastNumber
  <1>3. PICK x \in S : m = Cardinality(Above(S, x))
    OBVIOUS
  <1>4. ASSUME NEW y \in S
        PROVE  x >= y
    <2> SUFFICES ASSUME x < y
                 PROVE  FALSE
      OBVIOUS
    <2>0. \A z \in S : (y < z => x < z /\ z # y)
      OBVIOUS
    <2>1. Above(S, y) \subseteq Above(S, x) \ {y} /\ y \in Above(S, x)
      BY <2>0 DEF Above
    <2>2. /\ IsFiniteSet(Above(S, x)) /\ IsFiniteSet(Above(S, x) \ {y})
          /\ Cardinality(Above(S, x) \ {y}) = Cardinality(Above(S, x)) - 1
      BY <2>1, SidesFinite, FS_RemoveElement
    <2>3. Cardinality(Above(S, y)) <= Cardinality(Above(S, x)) - 1
      BY <2>1, <2>2, FS_Subset
    <2>4. Cardinality(Above(S, x)) <= Cardinality(Above(S, y))
      BY <1>2, <1>3
    <2> QED
      BY <2>3, <2>4, SidesFinite
  <1>5. \E z \in S : \A y \in S : z >= y
    BY <1>4
  <1>6. Max(S) \in S /\ \A y \in S : Max(S) >= y
    BY <1>5 DEF Max
  <1>7. ASSUME NEW y \in S
        PROVE  y <= Max(S)
    <2>1. y \in Nat /\ Max(S) \in Nat /\ Max(S) >= y
      BY <1>6
    <2> QED
      BY <2>1
  <1> QED
    BY <1>6, <1>7

-----------------------------------------------------------------------------
(* The k-th element, and the place of an element *)

LEMMA IndexType ==
  ASSUME NEW S \in SUBSET Nat, IsFiniteSet(S), NEW r \in S
  PROVE  IndexIn(S, r) \in 0 .. (Cardinality(S) - 1)
  <1>1. IndexIn(S, r) = Cardinality(Below(S, r))
    BY DEF IndexIn, Below
  <1> QED
    BY <1>1, SidesFinite

\* The places are in the order of the elements.
LEMMA IndexGrows ==
  ASSUME NEW S \in SUBSET Nat, IsFiniteSet(S), NEW r \in S, NEW s \in S, r < s
  PROVE  IndexIn(S, r) < IndexIn(S, s)
  <1>1. IndexIn(S, r) = Cardinality(Below(S, r)) /\ IndexIn(S, s) = Cardinality(Below(S, s))
    BY DEF IndexIn, Below
  <1>0. ~ (r < r) /\ \A z \in S : (z < r => z < s)
    OBVIOUS
  <1>2. Below(S, r) \cup {r} \subseteq Below(S, s) /\ r \notin Below(S, r)
    BY <1>0 DEF Below
  <1>3. /\ IsFiniteSet(Below(S, r) \cup {r})
        /\ Cardinality(Below(S, r) \cup {r}) = Cardinality(Below(S, r)) + 1
    BY <1>2, SidesFinite, FS_AddElement
  <1>4. Cardinality(Below(S, r) \cup {r}) <= Cardinality(Below(S, s))
    BY <1>2, SidesFinite, FS_Subset
  <1> QED
    BY <1>1, <1>3, <1>4, SidesFinite

LEMMA IndexInjective ==
  ASSUME NEW S \in SUBSET Nat, IsFiniteSet(S), NEW r \in S, NEW s \in S,
         IndexIn(S, r) = IndexIn(S, s)
  PROVE  r = s
  <1>1. r \in Nat /\ s \in Nat /\ IndexIn(S, r) \in Nat
    BY IndexType, FS_CardinalityType
  <1>2. ~ (r < s) /\ ~ (s < r)
    BY <1>1, IndexGrows
  <1> QED
    BY <1>1, <1>2

\* Every place below the size of the set is somebody's.
LEMMA NthExists ==
  ASSUME NEW S \in SUBSET Nat, IsFiniteSet(S), NEW k \in 0 .. (Cardinality(S) - 1)
  PROVE  \E r \in S : IndexIn(S, r) = k
  <1> DEFINE Bad == {n \in 0 .. (Cardinality(S) - 1) : \A r \in S : IndexIn(S, r) # n}
  <1>0. Cardinality(S) \in Nat
    BY FS_CardinalityType
  <1> SUFFICES ASSUME Bad # {}
               PROVE  FALSE
    BY <1>0
  <1>a. Bad \in SUBSET Nat
    BY <1>0
  <1> HIDE DEF Bad
  <1>1. PICK n \in Bad : \A m \in Bad : n <= m
    BY <1>a, LeastNumber
  <1>2. n \in Nat /\ n < Cardinality(S) /\ \A r \in S : IndexIn(S, r) # n
    BY <1>0 DEF Bad
  <1>3. CASE n = 0
    <2>1. S # {}
      BY <1>2, <1>3, FS_EmptySet
    <2>2. PICK r \in S : \A y \in S : r <= y
      BY <2>1, LeastNumber
    <2>3. {x \in S : x < r} = {}
      <3>1. \A x \in S : x \in Nat /\ r \in Nat /\ r <= x
        BY <2>2
      <3>2. \A x \in S : ~ (x < r)
        BY <3>1
      <3> QED
        BY <3>2
    <2>4. IndexIn(S, r) = 0
      BY <2>3, FS_EmptySet DEF IndexIn
    <2> QED
      BY <1>2, <1>3, <2>4
  <1>4. CASE n # 0
    <2>1. n - 1 \in 0 .. (Cardinality(S) - 1) /\ ~ (n <= n - 1)
      BY <1>0, <1>2, <1>4
    <2>2. PICK r \in S : IndexIn(S, r) = n - 1
      BY <1>1, <2>1 DEF Bad
    <2>3. Cardinality(Below(S, r)) = n - 1
      BY <2>2 DEF IndexIn, Below
    <2>4. Above(S, r) # {} /\ Above(S, r) \in SUBSET Nat
      <3>1. Cardinality(Above(S, r)) # 0
        BY <1>0, <1>2, <2>3, SidesFinite
      <3> QED
        BY <3>1, FS_EmptySet DEF Above
    <2>5. PICK u \in Above(S, r) : \A y \in Above(S, r) : u <= y
      BY <2>4, LeastNumber
    <2>6. u \in S /\ r < u
      BY DEF Above
    <2>7. Below(S, u) = Below(S, r) \cup {r}
      <3>1. ASSUME NEW x \in S, x < u
            PROVE  x < r \/ x = r
        <4>1. x \notin Above(S, r)
          BY <2>5, <2>6, <3>1
        <4> QED
          BY <4>1 DEF Above
      <3>2. ASSUME NEW x \in S, x < r
            PROVE  x < u
        BY <2>6, <3>2
      <3> QED
        BY <2>6, <3>1, <3>2 DEF Below
    <2>8. Cardinality(Below(S, u)) = n
      <3>0. r \in Nat /\ ~ (r < r)
        OBVIOUS
      <3>1. r \notin Below(S, r) /\ IsFiniteSet(Below(S, r))
        BY <3>0, SidesFinite DEF Below
      <3>2. Cardinality(Below(S, u)) = (n - 1) + 1
        BY <2>3, <2>7, <3>1, FS_AddElement, ZenonT(30)
      <3> QED
        BY <1>2, <3>2
    <2>9. IndexIn(S, u) = n
      BY <2>8 DEF IndexIn, Below
    <2> QED
      BY <1>2, <2>6, <2>9
  <1> QED
    BY <1>3, <1>4

LEMMA NthFits ==
  ASSUME NEW S \in SUBSET Nat, IsFiniteSet(S), NEW k \in 0 .. (Cardinality(S) - 1)
  PROVE  Nth(S, k) \in S /\ IndexIn(S, Nth(S, k)) = k
  BY NthExists DEF Nth, IndexIn

-----------------------------------------------------------------------------
(* Remainders *)

LEMMA Division ==
  ASSUME NEW a \in Nat, NEW n \in Nat \ {0}
  PROVE  /\ a % n \in 0 .. (n - 1)
         /\ a \div n \in Nat
         /\ a = n * (a \div n) + (a % n)
  OBVIOUS

LEMMA Remainder ==
  ASSUME NEW n \in Nat \ {0}, NEW q \in Nat, NEW r \in Nat, r < n
  PROVE  (n * q + r) % n = r
  <1>1. n * q \in Nat
    OBVIOUS
  <1> QED
    BY <1>1

LEMMA Shift ==
  ASSUME NEW n \in Nat, NEW r \in Nat, r < n, NEW k \in Nat, k < n, NEW m \in Nat
  PROVE  /\ k >= r => k - r \in 0 .. (n - 1) /\ (m + r) + (k - r) = m + k
         /\ ~ (k >= r) => k - r + n \in 0 .. (n - 1) /\ (m + r) + (k - r + n) = (m + n) + k
  OBVIOUS

\* On by d places, from one remainder to another.
LEMMA NextRemainder ==
  ASSUME NEW a \in Nat, NEW n \in Nat \ {0}, NEW k \in 0 .. (n - 1)
  PROVE  \E d \in 0 .. (n - 1) : (a + d) % n = k
  <1>1. PICK q \in Nat, r \in Nat : r < n /\ a = n * q + r
    <2>1. a % n \in 0 .. (n - 1) /\ a \div n \in Nat /\ a = n * (a \div n) + (a % n)
      BY Division
    <2>2. a % n \in Nat /\ a % n < n
      BY <2>1
    <2> QED
      BY <2>1, <2>2
  <1>2. k \in Nat /\ k < n
    OBVIOUS
  <1>3. n * q \in Nat /\ n * (q + 1) = n * q + n /\ q + 1 \in Nat
    BY <1>1
  <1>4. (n * q + k) % n = k /\ (n * (q + 1) + k) % n = k
    BY <1>1, <1>2, <1>3, Remainder
  <1>5. CASE k >= r
    <2>1. k - r \in 0 .. (n - 1) /\ a + (k - r) = n * q + k
      BY <1>1, <1>2, <1>3, <1>5, Shift
    <2> QED
      BY <1>4, <2>1
  <1>6. CASE ~ (k >= r)
    <2>1. k - r + n \in 0 .. (n - 1) /\ a + (k - r + n) = n * (q + 1) + k
      BY <1>1, <1>2, <1>3, <1>6, Shift
    <2> QED
      BY <1>4, <2>1
  <1> QED
    BY <1>5, <1>6

\* Two numbers with one remainder are n apart.
LEMMA SameRemainder ==
  ASSUME NEW a \in Nat, NEW b \in Nat, NEW n \in Nat \ {0}, a % n = b % n, a < b
  PROVE  a + n <= b
  <1> DEFINE p == a \div n
             q == b \div n
  <1>1. /\ p \in Nat /\ q \in Nat /\ a % n \in 0 .. (n - 1)
        /\ a = n * p + (a % n) /\ b = n * q + (a % n)
    BY Division
  <1>2. n * p < n * q
    BY <1>1
  <1>3. p < q
    BY <1>1, <1>2
  <1>4. q = p + 1 + (q - p - 1) /\ q - p - 1 \in Nat
    BY <1>1, <1>3
  <1>5. n * q = n * p + n + n * (q - p - 1) /\ n * (q - p - 1) \in Nat
    BY <1>1, <1>4
  <1> QED
    BY <1>1, <1>5

-----------------------------------------------------------------------------
(* compute_quorum_results *)

\* The steps of the participants of a quorum.
IsQuorum(steps) ==
  /\ DOMAIN steps \in SUBSET Nat
  /\ IsFiniteSet(DOMAIN steps)
  /\ DOMAIN steps # {}
  /\ steps = [r \in DOMAIN steps |-> steps[r]]
  /\ \A r \in DOMAIN steps : steps[r] \in Nat

LEMMA MaxStepFits ==
  ASSUME NEW steps, IsQuorum(steps)
  PROVE  /\ MaxStep(steps) \in Nat
         /\ \A r \in DOMAIN steps : steps[r] <= MaxStep(steps)
         /\ MaxParticipants(steps) \subseteq DOMAIN steps
         /\ MaxParticipants(steps) \in SUBSET Nat
         /\ IsFiniteSet(MaxParticipants(steps))
         /\ Cardinality(MaxParticipants(steps)) \in Nat \ {0}
  <1> DEFINE T == {steps[r] : r \in DOMAIN steps}
  <1>1. T \in SUBSET Nat /\ T # {}
    BY DEF IsQuorum
  <1>2. IsFiniteSet(T)
    <2>1. steps \in [DOMAIN steps -> T] /\ \A y \in T : \E r \in DOMAIN steps : steps[r] = y
      BY DEF IsQuorum
    <2>2. steps \in Surjection(DOMAIN steps, T)
      BY <2>1 DEF Surjection
    <2> QED
      BY <2>2, FS_Surjection DEF IsQuorum
  <1>3. MaxStep(steps) = Max(T)
    BY DEF MaxStep
  <1>4. MaxStep(steps) \in T /\ \A y \in T : y <= MaxStep(steps)
    BY <1>1, <1>2, <1>3, MaxIsGreatest
  <1>5. MaxParticipants(steps) \subseteq DOMAIN steps /\ MaxParticipants(steps) # {}
    BY <1>4 DEF MaxParticipants
  <1>6. /\ IsFiniteSet(MaxParticipants(steps))
        /\ Cardinality(MaxParticipants(steps)) \in Nat \ {0}
    BY <1>5, FS_Subset, FS_CardinalityType, FS_EmptySet DEF IsQuorum
  <1> QED
    BY <1>1, <1>4, <1>5, <1>6 DEF IsQuorum

LEMMA PrimaryFits ==
  ASSUME NEW steps, IsQuorum(steps), NEW g \in Nat
  PROVE  Primary(steps, g) \in MaxParticipants(steps)
  <1>1. g % Cardinality(MaxParticipants(steps))
          \in 0 .. (Cardinality(MaxParticipants(steps)) - 1)
    BY MaxStepFits, Division
  <1> QED
    BY <1>1, MaxStepFits, NthFits DEF Primary

LEMMA UpToDateFits ==
  ASSUME NEW steps, IsQuorum(steps), NEW g \in Nat, NEW init \in BOOLEAN
  PROVE  /\ Primary(steps, g) \in UpToDate(steps, g, init)
         /\ UpToDate(steps, g, init) \subseteq MaxParticipants(steps)
         /\ init /\ MaxStep(steps) = 0 => UpToDate(steps, g, init) = {Primary(steps, g)}
         /\ UpToDate(steps, g, init) \in SUBSET Nat
         /\ IsFiniteSet(UpToDate(steps, g, init))
         /\ Cardinality(UpToDate(steps, g, init)) \in Nat \ {0}
         /\ Recovering(steps, g, init) \in SUBSET Nat
         /\ Recovering(steps, g, init) \subseteq DOMAIN steps
         /\ IsFiniteSet(Recovering(steps, g, init))
         /\ Cardinality(Recovering(steps, g, init)) \in Nat
  <1>1. Primary(steps, g) \in DOMAIN steps /\ steps[Primary(steps, g)] = MaxStep(steps)
    BY PrimaryFits DEF MaxParticipants
  <1>2. /\ Primary(steps, g) \in UpToDate(steps, g, init)
        /\ UpToDate(steps, g, init) \subseteq MaxParticipants(steps)
        /\ init /\ MaxStep(steps) = 0 => UpToDate(steps, g, init) = {Primary(steps, g)}
    BY <1>1 DEF UpToDate, Recovering, MaxParticipants
  <1>3. /\ UpToDate(steps, g, init) \subseteq DOMAIN steps
        /\ Recovering(steps, g, init) \subseteq DOMAIN steps
    BY DEF UpToDate, Recovering
  <1>4. /\ IsFiniteSet(UpToDate(steps, g, init))
        /\ IsFiniteSet(Recovering(steps, g, init))
    BY <1>3, FS_Subset DEF IsQuorum
  <1> QED
    BY <1>2, <1>3, <1>4, FS_CardinalityType, FS_EmptySet DEF IsQuorum

\* The place among the sources that a recovering replica is dealt.
Dealt(steps, d, g, init) ==
  (IndexIn(Recovering(steps, g, init), d) + g) % Cardinality(UpToDate(steps, g, init))

LEMMA SourceFits ==
  ASSUME NEW steps, IsQuorum(steps), NEW g \in Nat, NEW init \in BOOLEAN,
         NEW d \in Recovering(steps, g, init)
  PROVE  /\ RecoverSrc(steps, d, g, init) \in UpToDate(steps, g, init)
         /\ IndexIn(UpToDate(steps, g, init), RecoverSrc(steps, d, g, init))
              = Dealt(steps, d, g, init)
  <1>1. IndexIn(Recovering(steps, g, init), d) \in Nat
    BY UpToDateFits, IndexType
  <1>2. Dealt(steps, d, g, init) \in 0 .. (Cardinality(UpToDate(steps, g, init)) - 1)
    <2>1. /\ IndexIn(Recovering(steps, g, init), d) + g \in Nat
          /\ Cardinality(UpToDate(steps, g, init)) \in Nat \ {0}
      BY <1>1, UpToDateFits
    <2> QED
      BY <2>1, Division DEF Dealt
  <1>3. RecoverSrc(steps, d, g, init) = Nth(UpToDate(steps, g, init), Dealt(steps, d, g, init))
    BY DEF RecoverSrc, Dealt
  <1> QED
    BY <1>2, <1>3, UpToDateFits, NthFits

\* A source's destinations are those that are dealt its place.
LEMMA DestinationsDealt ==
  ASSUME NEW steps, IsQuorum(steps), NEW g \in Nat, NEW init \in BOOLEAN,
         NEW r \in UpToDate(steps, g, init)
  PROVE  RecoverDst(steps, r, g, init) =
           {d \in Recovering(steps, g, init) :
              Dealt(steps, d, g, init) = IndexIn(UpToDate(steps, g, init), r)}
  <1>1. ASSUME NEW d \in Recovering(steps, g, init)
        PROVE  RecoverSrc(steps, d, g, init) = r
                 <=> Dealt(steps, d, g, init) = IndexIn(UpToDate(steps, g, init), r)
    BY SourceFits, UpToDateFits, IndexInjective
  <1> QED
    BY <1>1 DEF RecoverDst
-----------------------------------------------------------------------------
(* The parts of MCQuorumResults's RecoveryFits, for every quorum *)

\* A replica that is behind gets its state from an up-to-date one at the
\* quorum's greatest step.
LEMMA RecoveringHaveSources ==
  ASSUME NEW steps, IsQuorum(steps), NEW g \in Nat, NEW init \in BOOLEAN,
         NEW r \in DOMAIN steps, Reply(steps, r, g, init).heal
  PROVE  LET s == Reply(steps, r, g, init).recover_src
         IN  /\ s \in DOMAIN steps
             /\ ~ Reply(steps, s, g, init).heal
             /\ steps[s] = Reply(steps, r, g, init).max_step
  <1>1. r \in Recovering(steps, g, init)
    BY DEF Reply
  <1>2. /\ Reply(steps, r, g, init).recover_src = RecoverSrc(steps, r, g, init)
        /\ Reply(steps, r, g, init).max_step = MaxStep(steps)
    BY <1>1 DEF Reply
  <1>3. RecoverSrc(steps, r, g, init) \in UpToDate(steps, g, init)
    BY <1>1, SourceFits
  <1>4. /\ RecoverSrc(steps, r, g, init) \in DOMAIN steps
        /\ RecoverSrc(steps, r, g, init) \notin Recovering(steps, g, init)
        /\ steps[RecoverSrc(steps, r, g, init)] = MaxStep(steps)
    BY <1>3 DEF UpToDate, Recovering
  <1> QED
    BY <1>2, <1>4 DEF Reply

\* With init_sync at step 0 all but the primary recover, and from the primary.
LEMMA OneSource ==
  ASSUME NEW steps, IsQuorum(steps), NEW g \in Nat,
         MaxStep(steps) = 0
  PROVE  \A r \in DOMAIN steps \ {Primary(steps, g)} :
           /\ Reply(steps, r, g, TRUE).heal
           /\ Reply(steps, r, g, TRUE).recover_src = Primary(steps, g)
  <1> SUFFICES ASSUME NEW r \in DOMAIN steps, r # Primary(steps, g)
               PROVE  /\ Reply(steps, r, g, TRUE).heal
                      /\ Reply(steps, r, g, TRUE).recover_src = Primary(steps, g)
    OBVIOUS
  <1>1. r \in Recovering(steps, g, TRUE)
    BY DEF Recovering
  <1>2. RecoverSrc(steps, r, g, TRUE) \in {Primary(steps, g)}
    BY <1>1, SourceFits, UpToDateFits
  <1> QED
    BY <1>1, <1>2 DEF Reply

\* Between two destinations of one source is one of every other source.
LEMMA DealtBetween ==
  ASSUME NEW steps, IsQuorum(steps), NEW g \in Nat, NEW init \in BOOLEAN,
         NEW r \in UpToDate(steps, g, init), NEW s \in UpToDate(steps, g, init),
         NEW d \in RecoverDst(steps, r, g, init), NEW m \in RecoverDst(steps, r, g, init),
         d < m
  PROVE  LET R == Recovering(steps, g, init)
             c == Cardinality(UpToDate(steps, g, init))
         IN  /\ IndexIn(R, d) + c <= IndexIn(R, m)
             /\ \E e \in RecoverDst(steps, s, g, init) :
                  IndexIn(R, d) <= IndexIn(R, e) /\ IndexIn(R, e) < IndexIn(R, d) + c
  <1> DEFINE R == Recovering(steps, g, init)
             c == Cardinality(UpToDate(steps, g, init))
             a == IndexIn(R, d)
             b == IndexIn(R, m)
             k == IndexIn(UpToDate(steps, g, init), s)
  <1>1. d \in R /\ m \in R /\ Dealt(steps, d, g, init) = Dealt(steps, m, g, init)
    BY DestinationsDealt
  <1>2. c \in Nat \ {0} /\ R \in SUBSET Nat /\ IsFiniteSet(R) /\ Cardinality(R) \in Nat
    BY UpToDateFits
  <1>3. a \in 0 .. (Cardinality(R) - 1) /\ b \in 0 .. (Cardinality(R) - 1) /\ a < b
    BY <1>1, <1>2, IndexType, IndexGrows
  <1>4. k \in 0 .. (c - 1)
    BY UpToDateFits, IndexType
  <1>5. (a + g) % c = (b + g) % c
    BY <1>1 DEF Dealt
  <1>6. a + g \in Nat /\ b + g \in Nat /\ a + g < b + g
    BY <1>3
  <1> HIDE DEF a, b, c, k
  <1>7. (a + g) + c <= b + g
    BY <1>2, <1>5, <1>6, SameRemainder
  <1>8. a + c <= b
    BY <1>2, <1>3, <1>7
  <1>9. PICK x \in 0 .. (c - 1) : ((a + g) + x) % c = k
    BY <1>2, <1>4, <1>6, NextRemainder, ZenonT(30)
  <1>10. a + x \in 0 .. (Cardinality(R) - 1) /\ a <= a + x /\ a + x < a + c
    BY <1>2, <1>3, <1>8
  <1>11. PICK e \in R : IndexIn(R, e) = a + x
    BY <1>2, <1>10, NthExists
  <1>12. Dealt(steps, e, g, init) = k
    <2>1. (a + x) + g = (a + g) + x
      BY <1>2, <1>3, <1>10
    <2> QED
      BY <1>9, <1>11, <2>1 DEF Dealt, c
  <1>13. e \in RecoverDst(steps, s, g, init)
    BY <1>11, <1>12, DestinationsDealt DEF k
  <1> QED
    BY <1>8, <1>10, <1>11, <1>13 DEF a, b, c

\* No source serves two replicas more than another does.
LEMMA DestinationsBalanced ==
  ASSUME NEW steps, IsQuorum(steps), NEW g \in Nat, NEW init \in BOOLEAN,
         NEW r \in UpToDate(steps, g, init), NEW s \in UpToDate(steps, g, init)
  PROVE  Cardinality(RecoverDst(steps, r, g, init))
           <= Cardinality(RecoverDst(steps, s, g, init)) + 1
  <1> DEFINE A == RecoverDst(steps, r, g, init)
             B == RecoverDst(steps, s, g, init)
             R == Recovering(steps, g, init)
             c == Cardinality(UpToDate(steps, g, init))
  <1>1. A \in SUBSET Nat /\ A \subseteq R /\ B \subseteq R
    BY UpToDateFits DEF RecoverDst
  <1>2. /\ IsFiniteSet(A) /\ Cardinality(A) \in Nat
        /\ IsFiniteSet(B) /\ Cardinality(B) \in Nat
    BY <1>1, UpToDateFits, FS_Subset, FS_CardinalityType
  <1>3. CASE A = {}
    BY <1>2, <1>3, FS_EmptySet
  <1>4. CASE A # {}
    <2> DEFINE m == Max(A)
               D == A \ {m}
               Near(d, e) == IndexIn(R, d) <= IndexIn(R, e) /\ IndexIn(R, e) < IndexIn(R, d) + c
               h == [d \in D |-> CHOOSE e \in B : Near(d, e)]
    <2>1. m \in A /\ \A d \in A : d <= m
      BY <1>1, <1>2, <1>4, MaxIsGreatest
    <2>2. \A d \in D : d \in Nat /\ m \in Nat /\ d # m /\ d <= m
      BY <1>1, <2>1
    <2>3. \A d \in D : d < m
      BY <2>2
    <2>4. \A d \in D : \E e \in B : Near(d, e)
      BY <2>1, <2>3, DealtBetween
    <2>5. h \in [D -> B] /\ \A d \in D : Near(d, h[d])
      BY <2>4
    <2> HIDE DEF h, D, A, B, R, c
    <2>6. ASSUME NEW x \in D, NEW y \in D, x < y
          PROVE  h[x] # h[y]
      <3>1. IndexIn(R, x) + c <= IndexIn(R, y)
        BY <2>6, DealtBetween DEF D, A, R, c
      <3>2. Near(x, h[x]) /\ Near(y, h[y])
        BY <2>5
      <3>3. /\ IndexIn(R, x) \in Nat /\ IndexIn(R, y) \in Nat /\ c \in Nat
            /\ IndexIn(R, h[x]) \in Nat /\ IndexIn(R, h[y]) \in Nat
        <4>1. x \in R /\ y \in R /\ h[x] \in R /\ h[y] \in R
          BY <1>1, <2>5 DEF D
        <4>2. \A z \in R : IndexIn(R, z) \in 0 .. (Cardinality(R) - 1)
          BY UpToDateFits, IndexType DEF R
        <4>3. c \in Nat /\ Cardinality(R) \in Nat
          BY UpToDateFits DEF R, c
        <4> QED
          BY <4>1, <4>2, <4>3
      <3>4. h[x] = h[y] => IndexIn(R, h[x]) = IndexIn(R, h[y])
        OBVIOUS
      <3> QED
        BY <3>1, <3>2, <3>3, <3>4
    <2>7. \A x, y \in D : h[x] = h[y] => x = y
      <3>1. \A x, y \in D : x \in Nat /\ y \in Nat /\ (x < y \/ y < x \/ x = y)
        BY <1>1 DEF D
      <3> QED
        BY <2>6, <3>1
    <2>8. h \in Injection(D, B)
      BY <2>5, <2>7 DEF Injection, IsInjective
    <2>9. Cardinality(D) <= Cardinality(B)
      BY <1>2, <2>8, FS_Injection
    <2>10. Cardinality(D) = Cardinality(A) - 1
      BY <1>2, <2>1, FS_RemoveElement DEF D
    <2> QED
      BY <1>2, <2>9, <2>10 DEF A, B
  <1> QED
    BY <1>3, <1>4

\* The store is an up-to-date replica's, the same in every reply, and the
\* up-to-date replicas' ranks are 0 to max_world_size - 1, each held once.
LEMMA RanksFit ==
  ASSUME NEW steps, IsQuorum(steps), NEW g \in Nat, NEW init \in BOOLEAN
  PROVE  LET Answer(r) == Reply(steps, r, g, init)
             top == {r \in DOMAIN steps : Answer(r).max_rank # NoRank}
         IN  \A r \in DOMAIN steps :
               /\ Answer(r).store = Primary(steps, g)
               /\ Answer(r).store \in top
               /\ {Answer(s).max_rank : s \in top} = 0 .. (Answer(r).max_world_size - 1)
               /\ Cardinality(top) = Answer(r).max_world_size
  <1> DEFINE M == MaxParticipants(steps)
             Answer(r) == Reply(steps, r, g, init)
             top == {r \in DOMAIN steps : Answer(r).max_rank # NoRank}
  <1>1. /\ M \subseteq DOMAIN steps /\ M \in SUBSET Nat /\ IsFiniteSet(M)
        /\ Cardinality(M) \in Nat
    BY MaxStepFits
  <1>2. \A r \in M : IndexIn(M, r) \in 0 .. (Cardinality(M) - 1)
    BY <1>1, IndexType
  <1>3. \A r \in DOMAIN steps :
          /\ Answer(r).max_rank = IF r \in M THEN IndexIn(M, r) ELSE NoRank
          /\ Answer(r).store = Primary(steps, g)
          /\ Answer(r).max_world_size = Cardinality(M)
    BY DEF Reply
  <1> HIDE DEF Answer
  <1>4. top = M
    <2>1. \A r \in M : IndexIn(M, r) # NoRank
      BY <1>1, <1>2, NoRankAssumption
    <2> QED
      BY <1>1, <1>3, <2>1
  <1>5. \A k \in 0 .. (Cardinality(M) - 1) : \E r \in M : IndexIn(M, r) = k
    BY <1>1, NthExists
  <1> HIDE DEF M, top
  <1>6. {Answer(s).max_rank : s \in top} = {IndexIn(M, s) : s \in M}
    BY <1>1, <1>3, <1>4
  <1>7. {IndexIn(M, s) : s \in M} = 0 .. (Cardinality(M) - 1)
    BY <1>2, <1>5
  <1>8. Primary(steps, g) \in top
    BY <1>4, PrimaryFits DEF M
  <1>9. \A r \in DOMAIN steps :
               /\ Answer(r).store = Primary(steps, g)
               /\ Answer(r).store \in top
               /\ {Answer(s).max_rank : s \in top} = 0 .. (Answer(r).max_world_size - 1)
               /\ Cardinality(top) = Answer(r).max_world_size
    BY <1>3, <1>4, <1>6, <1>7, <1>8
  <1> QED
    BY <1>9 DEF Answer, top
====
