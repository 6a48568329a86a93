--------------------------- MODULE LocalSGDProofs ---------------------------
(***************************************************************************)
(* What LocalSGD.tla guarantees for any number of replicas, fragments,     *)
(* inner steps and faults.                                                 *)
(*                                                                         *)
(* The invariant describes the latest round: its members met at the steps  *)
(* s, those up to date with the global parameters W.  A member that heals  *)
(* gets W, and one that commits appends the round to the fragment whose    *)
(* turn it is.                                                             *)
(***************************************************************************)
EXTENDS LocalSGD, QuorumResultsProofs

PCs == {"inner", "waiting", "quorum", "heal", "prepare", "perform"}
Sent == {"posted", "done", "failed", "skipped"}
Models == [Fragments -> Seq(Nat)]
Trained == [Fragments -> [base : Seq(Nat), trained : BOOLEAN]]

TypeOK ==
  /\ algorithm \in Algorithms
  /\ pc \in [Replicas -> PCs]
  /\ localStep \in [Replicas -> Nat]
  /\ step \in [Replicas -> Nat]
  /\ original \in [Replicas -> Models]
  /\ params \in [Replicas -> Trained]
  /\ errored \in [Replicas -> BOOLEAN]
  /\ DOMAIN answer = Replicas /\ answer = [i \in Replicas |-> answer[i]]
  /\ group \in [Replicas -> {None} \cup Groups]
  /\ offer \in [Replicas -> {None} \cup [step : Nat, original : Models, params : Trained]]
  /\ DOMAIN sent = Replicas /\ sent = [i \in Replicas |-> sent[i]]
  /\ work \in [Replicas -> {"none"} \cup Sent]
  /\ round \in Nat

\* Where a replica is in a round.
PhaseAt(i) ==
  /\ group[i] = None => work[i] = "none" /\ offer[i] = None /\ pc[i] \in {"inner", "waiting"}
  /\ group[i] # None => pc[i] # "waiting"
  /\ pc[i] \in {"quorum", "heal", "prepare"} => work[i] = "none"
  /\ pc[i] = "inner" /\ group[i] = None => localStep[i] < Every - algorithm.delay
  /\ pc[i] = "inner" /\ group[i] # None => localStep[i] >= Every - algorithm.delay /\ localStep[i] < Every
  /\ pc[i] \in {"waiting", "quorum", "heal", "prepare"} => localStep[i] = Every - algorithm.delay
  /\ pc[i] = "perform" \/ (pc[i] = "inner" /\ group[i] # None) =>
       work[i] # "none" /\ sent[i] = CurrentFragment(i)
  /\ pc[i] \in {"quorum", "heal"} => ~errored[i]
  /\ work[i] \in {"posted", "done"} => ~errored[i]
  /\ work[i] \in {"failed", "skipped"} => errored[i]

Phases == \A i \in Replicas : PhaseAt(i)

\* An offer is of parameters and of what they started from.
OffersFollow ==
  \A i \in Replicas : offer[i] # None =>
    \A f \in Fragments : offer[i].params[f].base = offer[i].original[f]

\* How often it was fragment f's turn in n steps.
Turns(n, N, f) == Cardinality({t \in 0..(n - 1) : t % N = f})

\* The fragments of a model after n committed steps.
InTurn(model, n) ==
  \A f \in Fragments : Len(model[f]) = 1 + Turns(n, Cardinality(Fragments), f)

OffersInTurn ==
  \A i \in Replicas : offer[i] # None => InTurn(offer[i].original, offer[i].step)

Up(s) == UpToDate(s, 0, TRUE)

\* The global parameters after the round.
After(s, W) == [W EXCEPT ![MaxStep(s) % Cardinality(Fragments)] = Append(@, round)]

InRoundAt(i, s, W) ==
  /\ i \notin DOMAIN s => step[i] = 0 /\ group[i] = None
  /\ group[i] # None =>
       /\ group[i] = [round |-> round, members |-> DOMAIN s]
       /\ step[i] \in {s[i], MaxStep(s)}
       /\ i \in Up(s) => step[i] = MaxStep(s) /\ original[i] = W
       /\ pc[i] \notin {"quorum", "heal"} /\ ~errored[i] => step[i] = MaxStep(s) /\ original[i] = W
  /\ i \in DOMAIN s => step[i] \in {0, s[i], MaxStep(s), MaxStep(s) + 1}
  /\ MaxStep(s) > 0 /\ step[i] = MaxStep(s) => original[i] = W
  /\ step[i] = MaxStep(s) + 1 => original[i] = After(s, W)
  /\ pc[i] \in {"quorum", "heal"} => answer[i] = Reply(s, i, 0, TRUE) /\ step[i] = s[i]
  /\ pc[i] = "heal" => i \in Recovering(s, 0, TRUE)
  /\ offer[i] # None => i \in Up(s) /\ offer[i].step = MaxStep(s) /\ offer[i].original = W

Round(s, W) ==
  /\ IsQuorum(s)
  /\ DOMAIN s \subseteq Replicas
  /\ \A i \in Replicas : InRoundAt(i, s, W)

InRound == \E s, W : Round(s, W)

SGDInv ==
  /\ TypeOK /\ Phases
  /\ ParamsFollowOriginal /\ OffersFollow
  /\ EveryFragmentInTurn /\ OffersInTurn
  /\ InRound /\ SameStepSameGlobals
-----------------------------------------------------------------------------
(* Replicas and fragments *)

LEMMA ReplicasFinite ==
  /\ IsFiniteSet(Replicas) /\ Replicas \in SUBSET Nat /\ Replicas # {}
  /\ \A S \in SUBSET Replicas : IsFiniteSet(S) /\ S \in SUBSET Nat
  <1>1. NumReplicas \in Nat \ {0}
    BY ReplicasAssumption
  <1>2. IsFiniteSet(Replicas) /\ 0 \in Replicas /\ Replicas \in SUBSET Nat
    BY <1>1, FS_Interval DEF Replicas
  <1>3. \A S \in SUBSET Replicas : IsFiniteSet(S)
    BY <1>2, FS_Subset
  <1> QED
    BY <1>2, <1>3

LEMMA FragmentsFit ==
  /\ Cardinality(Fragments) \in Nat \ {0}
  /\ \A n \in Nat : n % Cardinality(Fragments) \in Fragments
  <1> DEFINE N == Cardinality(Fragments)
  <1>1. NumFragments \in Nat \ {0}
    BY ScheduleAssumption
  <1>2. N \in Nat \ {0} /\ Fragments = 0..(N - 1)
    <2>1. CASE algorithm.name = "DiLoCo"
      <3>1. Cardinality(0..(NumFragments - 1)) = NumFragments
        BY <1>1, FS_Interval
      <3> QED
        BY <1>1, <2>1, <3>1 DEF Fragments
    <2>2. CASE algorithm.name # "DiLoCo"
      <3>1. Cardinality({0}) = 1
        BY FS_Singleton
      <3>2. {0} = 0..0
        OBVIOUS
      <3> QED
        BY <2>2, <3>1, <3>2 DEF Fragments
    <2> QED
      BY <2>1, <2>2
  <1> HIDE DEF N
  <1>3. \A n \in Nat : n % N \in 0..(N - 1)
    BY <1>2
  <1> QED
    BY <1>2, <1>3 DEF N

\* One more step is one more turn of its fragment.
LEMMA TurnsCounted ==
  ASSUME NEW n \in Nat, NEW N \in Nat \ {0}, NEW f
  PROVE  /\ Turns(n + 1, N, f) \in Nat /\ Turns(n, N, f) \in Nat
         /\ Turns(n + 1, N, f) = Turns(n, N, f) + (IF n % N = f THEN 1 ELSE 0)
  <1> DEFINE A == {t \in 0..(n - 1) : t % N = f}
             B == {t \in 0..((n + 1) - 1) : t % N = f}
  <1>1. IsFiniteSet(0..(n - 1)) /\ IsFiniteSet(0..((n + 1) - 1))
    BY FS_Interval
  <1>2. A \subseteq 0..(n - 1) /\ B \subseteq 0..((n + 1) - 1)
    OBVIOUS
  <1>3. n \notin A
    OBVIOUS
  <1>4. B = IF n % N = f THEN A \cup {n} ELSE A
    <2>1. 0..((n + 1) - 1) = (0..(n - 1)) \cup {n}
      OBVIOUS
    <2> QED
      BY <2>1
  <1> HIDE DEF A, B
  <1>5. IsFiniteSet(A) /\ IsFiniteSet(B)
    BY <1>1, <1>2, FS_Subset
  <1>6. Cardinality(A) \in Nat /\ Cardinality(B) \in Nat
    BY <1>5, FS_CardinalityType
  <1>7. Cardinality(A \cup {n}) = Cardinality(A) + 1
    BY <1>3, <1>5, FS_AddElement
  <1>8. Cardinality(B) = Cardinality(A) + (IF n % N = f THEN 1 ELSE 0)
    BY <1>4, <1>6, <1>7
  <1> QED
    BY <1>6, <1>8 DEF A, B, Turns

LEMMA DelayFits ==
  ASSUME algorithm \in Algorithms
  PROVE  Every - algorithm.delay \in Nat \ {0} /\ Every - algorithm.delay <= Every /\ Every \in Nat
  BY ScheduleAssumption

-----------------------------------------------------------------------------
(* What a step leaves alone *)

Same(k) ==
  /\ pc'[k] = pc[k] /\ localStep'[k] = localStep[k] /\ step'[k] = step[k]
  /\ original'[k] = original[k] /\ params'[k] = params[k] /\ errored'[k] = errored[k]
  /\ answer'[k] = answer[k] /\ group'[k] = group[k] /\ offer'[k] = offer[k]
  /\ sent'[k] = sent[k] /\ work'[k] = work[k]

LEMMA ReplicaFrame ==
  ASSUME SGDInv, NEW i \in Replicas, Replica(i) \/ Crash(i)
  PROVE  algorithm' = algorithm /\ round' = round /\ \A k \in Replicas \ {i} : Same(k)
  <1> USE DEF SGDInv, TypeOK, Same
  <1>1. CASE InnerStep(i)
    BY <1>1 DEF InnerStep
  <1>2. CASE Configure(i)
    BY <1>2 DEF Configure
  <1>3. CASE Heal(i)
    BY <1>3 DEF Heal
  <1>4. CASE HealFails(i)
    BY <1>4 DEF HealFails
  <1>5. CASE Prepare(i)
    BY <1>5 DEF Prepare
  <1>6. CASE AverageTimesOut(i)
    BY <1>6 DEF AverageTimesOut
  <1>7. CASE Perform(i)
    BY <1>7 DEF Perform
  <1>8. CASE Crash(i)
    BY <1>8 DEF Crash
  <1> QED
    BY <1>1, <1>2, <1>3, <1>4, <1>5, <1>6, <1>7, <1>8 DEF Replica

LEMMA PhaseKept ==
  ASSUME NEW k, Same(k), algorithm' = algorithm, PhaseAt(k)
  PROVE  PhaseAt(k)'
  BY DEF Same, PhaseAt, CurrentFragment, Fragments

LEMMA RoundKept ==
  ASSUME NEW k, Same(k), algorithm' = algorithm, round' = round,
         NEW s, NEW W, InRoundAt(k, s, W)
  PROVE  InRoundAt(k, s, W)'
  <1>1. After(s, W)' = After(s, W)
    BY DEF After, Fragments
  <1> QED
    BY <1>1 DEF Same, InRoundAt

-----------------------------------------------------------------------------
(* Healing and committing *)

LEMMA StepsOfRound ==
  ASSUME NEW s, NEW W, Round(s, W)
  PROVE  /\ MaxStep(s) \in Nat /\ MaxStep(s) # MaxStep(s) + 1
         /\ \A r \in DOMAIN s : s[r] \in Nat /\ s[r] <= MaxStep(s)
         /\ DOMAIN s \subseteq Replicas
         /\ Up(s) \subseteq DOMAIN s /\ \A r \in Up(s) : s[r] = MaxStep(s)
  <1>1. IsQuorum(s) /\ DOMAIN s \subseteq Replicas
    BY DEF Round
  <1>2. MaxStep(s) \in Nat /\ \A r \in DOMAIN s : s[r] \in Nat /\ s[r] <= MaxStep(s)
    BY <1>1, MaxStepFits DEF IsQuorum
  <1>3. Up(s) \subseteq DOMAIN s /\ \A r \in Up(s) : s[r] = MaxStep(s)
    BY DEF Up, UpToDate, Recovering
  <1> QED
    BY <1>1, <1>2, <1>3

\* A replica that heals gets the parameters W at the step of the round.
LEMMA HealFits ==
  ASSUME SGDInv, NEW i \in Replicas, pc[i] = "heal", NEW s, NEW W, Round(s, W)
  PROVE  /\ Source(i) \in Replicas
         /\ answer[i].max_step = MaxStep(s)
         /\ i \in Recovering(s, 0, TRUE) /\ i \in DOMAIN s
         /\ Served(i) => offer[Source(i)] # None /\ offer[Source(i)].step = MaxStep(s)
                         /\ offer[Source(i)].original = W
  <1>1. InRoundAt(i, s, W) /\ IsQuorum(s)
    BY DEF Round
  <1>2. answer[i] = Reply(s, i, 0, TRUE) /\ i \in Recovering(s, 0, TRUE)
    BY <1>1 DEF InRoundAt
  <1>3. Source(i) = RecoverSrc(s, i, 0, TRUE) /\ answer[i].max_step = MaxStep(s)
    BY <1>2 DEF Source, Reply
  <1>4. Source(i) \in UpToDate(s, 0, TRUE)
    BY <1>1, <1>2, <1>3, SourceFits
  <1>5. Source(i) \in Replicas
    BY <1>4 DEF UpToDate, Round
  <1>6. InRoundAt(Source(i), s, W)
    BY <1>5 DEF Round
  <1>7. Served(i) => offer[Source(i)] # None /\ offer[Source(i)].step = MaxStep(s)
                         /\ offer[Source(i)].original = W
    BY <1>6 DEF Served, InRoundAt
  <1> QED
    BY <1>2, <1>3, <1>5, <1>7 DEF Recovering

\* A replica that offers its checkpoint is up to date.
LEMMA OfferFits ==
  ASSUME SGDInv, NEW i \in Replicas, pc[i] = "quorum", NEW s, NEW W, Round(s, W)
  PROVE  /\ answer[i].max_step = MaxStep(s) /\ i \in DOMAIN s
         /\ answer[i].heal <=> i \in Recovering(s, 0, TRUE)
         /\ answer[i].recover_dst # {} =>
              i \in Up(s) /\ step[i] = MaxStep(s) /\ original[i] = W
  <1>1. InRoundAt(i, s, W) /\ IsQuorum(s)
    BY DEF Round
  <1>2. answer[i] = Reply(s, i, 0, TRUE)
    BY <1>1 DEF InRoundAt
  <1>3. /\ answer[i].max_step = MaxStep(s)
        /\ answer[i].heal <=> i \in Recovering(s, 0, TRUE)
        /\ answer[i].recover_dst = RecoverDst(s, i, 0, TRUE)
    <2>1. /\ answer[i].max_step = MaxStep(s)
          /\ answer[i].recover_dst = RecoverDst(s, i, 0, TRUE)
          /\ answer[i].heal = (i \in Recovering(s, 0, TRUE))
      BY <1>2 DEF Reply
    <2>2. answer[i].heal <=> i \in Recovering(s, 0, TRUE)
      BY <2>1, Zenon
    <2> QED
      BY <2>1, <2>2
  <1>4. group[i] # None
    BY DEF SGDInv, Phases, PhaseAt
  <1>5. i \in DOMAIN s
    BY <1>1, <1>4 DEF InRoundAt
  <1>6. ASSUME answer[i].recover_dst # {}
        PROVE  i \in Up(s) /\ step[i] = MaxStep(s) /\ original[i] = W
    <2>1. PICK d \in Recovering(s, 0, TRUE) : RecoverSrc(s, d, 0, TRUE) = i
      BY <1>3, <1>6 DEF RecoverDst
    <2>2. i \in Up(s)
      BY <1>1, <2>1, SourceFits DEF Up
    <2> QED
      BY <1>1, <1>4, <2>2 DEF InRoundAt
  <1> QED
    BY <1>3, <1>5, <1>6

\* What the end of a round does.
LEMMA PerformFits ==
  ASSUME SGDInv, NEW i \in Replicas, Perform(i)
  PROVE  LET f == step[i] % Cardinality(Fragments)
             average == Append(original[i][f], group[i].round)
         IN  /\ sent[i] = f /\ f \in Fragments /\ group[i] # None /\ work[i] # "none"
             /\ Commits(i) =>
                  /\ ~errored[i] /\ work[i] = "done"
                  /\ step' = [step EXCEPT ![i] = @ + 1]
                  /\ original'[i] = [original[i] EXCEPT ![f] = average]
                  /\ original' = [original EXCEPT ![i] = original'[i]]
                  /\ params'[i] = [params[i] EXCEPT ![f] = [base |-> average, trained |-> FALSE]]
             /\ ~Commits(i) =>
                  /\ step' = step /\ original' = original
                  /\ \/ params'[i] = params[i]
                     \/ params'[i] =
                          [params[i] EXCEPT ![f] = [base |-> original[i][f], trained |-> FALSE]]
             /\ params' = [params EXCEPT ![i] = params'[i]]
  <1> DEFINE f == step[i] % Cardinality(Fragments)
             average == Append(original[i][f], group[i].round)
  <1>1. PhaseAt(i) /\ pc[i] = "perform"
    BY DEF SGDInv, Phases, Perform
  <1>2. sent[i] = f /\ f \in Fragments
    <2>1. step[i] \in Nat
      BY DEF SGDInv, TypeOK
    <2> QED
      BY <1>1, <2>1, FragmentsFit DEF PhaseAt, CurrentFragment
  <1>3. group[i] # None /\ work[i] # "none" /\ (~errored[i] => work[i] = "done")
    BY <1>1 DEF PhaseAt, Perform
  <1>4. Averaged(i, sent[i]) = average
    <2>1. params[i][f].base = original[i][f]
      BY <1>2 DEF SGDInv, ParamsFollowOriginal
    <2> QED
      BY <1>2, <2>1 DEF Averaged
  <1>5. /\ original \in [Replicas -> Models] /\ params \in [Replicas -> Trained]
    BY DEF SGDInv, TypeOK
  <1> HIDE DEF f, average
  <1>6. ASSUME Commits(i)
        PROVE  /\ ~errored[i]
               /\ step' = [step EXCEPT ![i] = @ + 1]
               /\ original'[i] = [original[i] EXCEPT ![f] = average]
               /\ original' = [original EXCEPT ![i] = original'[i]]
               /\ params'[i] = [params[i] EXCEPT ![f] = [base |-> average, trained |-> FALSE]]
               /\ params' = [params EXCEPT ![i] = params'[i]]
    <2>1. /\ step' = [step EXCEPT ![i] = @ + 1]
          /\ original' = [original EXCEPT ![i][f] = average]
          /\ params' = [params EXCEPT ![i][f] = [base |-> average, trained |-> FALSE]]
      BY <1>2, <1>4, <1>6 DEF Perform
    <2> QED
      BY <1>5, <1>6, <2>1 DEF Commits
  <1>7. ASSUME ~Commits(i)
        PROVE  /\ step' = step /\ original' = original
               /\ \/ params'[i] = params[i]
                  \/ params'[i] =
                       [params[i] EXCEPT ![f] = [base |-> original[i][f], trained |-> FALSE]]
               /\ params' = [params EXCEPT ![i] = params'[i]]
    <2>1. /\ step' = step /\ original' = original
          /\ \/ params' = [params EXCEPT ![i][f] = [base |-> original[i][f], trained |-> FALSE]]
             \/ params' = params
      BY <1>2, <1>7 DEF Perform
    <2> QED
      BY <1>5, <2>1
  <1> QED
    BY <1>2, <1>3, <1>6, <1>7 DEF f, average

-----------------------------------------------------------------------------
(* Types *)

LEMMA InitType == Init => TypeOK
  <1> SUFFICES ASSUME Init
               PROVE  TypeOK
    OBVIOUS
  <1>1. Replicas \in SUBSET Nat
    BY ReplicasFinite
  <1>2. \A i \in Replicas : Fresh(i) \in Models
    BY <1>1 DEF Fresh, Models
  <1>3. \A i \in Replicas : Untrained(Fresh(i)) \in Trained
    BY <1>2 DEF Untrained, Trained, Models
  <1> QED
    BY <1>2, <1>3 DEF Init, TypeOK, PCs

LEMMA NextType == SGDInv /\ [Next]_vars => TypeOK'
  <1> SUFFICES ASSUME SGDInv, [Next]_vars
               PROVE  TypeOK'
    OBVIOUS
  <1>0. /\ algorithm' = algorithm
        /\ Models' = Models /\ Trained' = Trained
    <2>1. algorithm' = algorithm
      BY DEF Next, Replica, FormQuorum, AverageEnds, InnerStep, Configure, Heal, HealFails,
         Prepare, AverageTimesOut, Perform, Crash, vars
    <2> QED
      BY <2>1 DEF Models, Trained, Fragments
  <1>00. TypeOK /\ InRound
    BY DEF SGDInv
  <1> USE <1>00 DEF TypeOK, PCs, Sent
  <1>1. CASE UNCHANGED vars
    BY <1>0, <1>1 DEF vars, replicaVars
  <1>2. ASSUME NEW S \in SUBSET Replicas, FormQuorum(S)
        PROVE  TypeOK'
    <2>1. /\ round' \in Nat /\ [round |-> round', members |-> S] \in Groups
          /\ UNCHANGED <<localStep, step, original, params, offer, sent, work>>
      BY <1>2 DEF FormQuorum, Groups
    <2>2. group' \in [Replicas -> {None} \cup Groups]
      BY <1>2, <2>1 DEF FormQuorum
    <2>3. errored' \in [Replicas -> BOOLEAN] /\ pc' \in [Replicas -> PCs]
      BY <1>2 DEF FormQuorum
    <2>4. DOMAIN answer' = Replicas /\ answer' = [i \in Replicas |-> answer'[i]]
      BY <1>2 DEF FormQuorum
    <2> QED
      BY <1>0, <2>1, <2>2, <2>3, <2>4
  <1>3. ASSUME NEW g \in {group[i] : i \in Replicas}, AverageEnds(g)
        PROVE  TypeOK'
    BY <1>0, <1>3 DEF AverageEnds
  <1>4. ASSUME NEW i \in Replicas, InnerStep(i)
        PROVE  TypeOK'
    <2>1. params[i] \in Trained
      OBVIOUS
    <2>2. [f \in Fragments |-> [params[i][f] EXCEPT !.trained = TRUE]] \in Trained
      <3>1. \A f \in Fragments : params[i][f] \in [base : Seq(Nat), trained : BOOLEAN]
        BY <2>1 DEF Trained
      <3>2. \A f \in Fragments :
              [params[i][f] EXCEPT !.trained = TRUE] \in [base : Seq(Nat), trained : BOOLEAN]
        BY <3>1
      <3> QED
        BY <3>2 DEF Trained
    <2> QED
      BY <1>0, <1>4, <2>2 DEF InnerStep
  <1>5. ASSUME NEW i \in Replicas, Configure(i)
        PROVE  TypeOK'
    <2>1. PICK s, W : Round(s, W)
      BY DEF InRound
    <2>2. pc[i] = "quorum"
      BY <1>5 DEF Configure
    <2>3. answer[i].max_step = MaxStep(s)
      BY <2>1, <2>2, OfferFits
    <2>4. MaxStep(s) \in Nat
      BY <2>1, StepsOfRound
    <2>5. Offer(i) \in [step : Nat, original : Models, params : Trained]
      BY <2>3, <2>4 DEF Offer
    <2>6. offer' \in [Replicas -> {None} \cup [step : Nat, original : Models, params : Trained]]
      <3>1. offer' = offer \/ offer' = [offer EXCEPT ![i] = Offer(i)]
        BY <1>5 DEF Configure
      <3> HIDE DEF Offer
      <3> QED
        BY <2>5, <3>1
    <2>7. pc' \in [Replicas -> PCs] /\ errored' \in [Replicas -> BOOLEAN]
      <3>1. pc' = [pc EXCEPT ![i] = "heal"] \/ pc' = [pc EXCEPT ![i] = "prepare"]
        BY <1>5 DEF Configure
      <3>2. errored' = errored \/ errored' = [errored EXCEPT ![i] = TRUE]
        BY <1>5 DEF Configure
      <3>3. pc \in [Replicas -> PCs] /\ errored \in [Replicas -> BOOLEAN]
        OBVIOUS
      <3> HIDE <1>00 DEF TypeOK, Sent
      <3>4. pc' \in [Replicas -> PCs]
        BY <3>1, <3>3
      <3>5. errored' \in [Replicas -> BOOLEAN]
        BY <3>2, <3>3
      <3> QED
        BY <3>4, <3>5
    <2>8. UNCHANGED <<localStep, step, original, params, answer, group, sent, work, round>>
      BY <1>5 DEF Configure
    <2> QED
      BY <1>0, <2>6, <2>7, <2>8
  <1>6. ASSUME NEW i \in Replicas, Heal(i)
        PROVE  TypeOK'
    <2>1. PICK s, W : Round(s, W)
      BY DEF InRound
    <2>2. pc[i] = "heal" /\ Served(i)
      BY <1>6 DEF Heal
    <2>5. answer[i].max_step = MaxStep(s)
      BY <2>1, <2>2, HealFits
    <2>6. MaxStep(s) \in Nat
      BY <2>1, StepsOfRound
    <2>3. /\ Source(i) \in Replicas /\ offer[Source(i)] # None
          /\ answer[i].max_step \in Nat
      BY <2>1, <2>2, <2>5, <2>6, HealFits
    <2>4. offer[Source(i)] \in [step : Nat, original : Models, params : Trained]
      BY <2>3
    <2> QED
      BY <1>0, <1>6, <2>3, <2>4 DEF Heal
  <1>7. ASSUME NEW i \in Replicas, HealFails(i)
        PROVE  TypeOK'
    BY <1>0, <1>7 DEF HealFails
  <1>8. ASSUME NEW i \in Replicas, Prepare(i)
        PROVE  TypeOK'
    BY <1>0, <1>8 DEF Prepare
  <1>9. ASSUME NEW i \in Replicas, AverageTimesOut(i)
        PROVE  TypeOK'
    BY <1>0, <1>9 DEF AverageTimesOut
  <1>10. ASSUME NEW i \in Replicas, Perform(i)
         PROVE  TypeOK'
    <2> DEFINE f == step[i] % Cardinality(Fragments)
               average == Append(original[i][f], group[i].round)
    <2>1. /\ f \in Fragments /\ group[i] \in Groups
          /\ Commits(i) =>
               /\ step' = [step EXCEPT ![i] = @ + 1]
               /\ original'[i] = [original[i] EXCEPT ![f] = average]
               /\ original' = [original EXCEPT ![i] = original'[i]]
               /\ params'[i] = [params[i] EXCEPT ![f] = [base |-> average, trained |-> FALSE]]
          /\ ~Commits(i) =>
               /\ step' = step /\ original' = original
               /\ \/ params'[i] = params[i]
                  \/ params'[i] =
                       [params[i] EXCEPT ![f] = [base |-> original[i][f], trained |-> FALSE]]
          /\ params' = [params EXCEPT ![i] = params'[i]]
      BY <1>10, PerformFits
    <2> HIDE DEF f
    <2>2. average \in Seq(Nat) /\ original[i][f] \in Seq(Nat)
      <3>1. original[i][f] \in Seq(Nat) /\ group[i].round \in Nat
        BY <2>1 DEF Models, Groups
      <3> QED
        BY <3>1
    <2> HIDE DEF average
    <2>3. original'[i] \in Models /\ params'[i] \in Trained
      <3>1. original[i] \in Models /\ params[i] \in Trained
        OBVIOUS
      <3>2. [original[i] EXCEPT ![f] = average] \in Models
        BY <2>2, <3>1 DEF Models
      <3>3. /\ [base |-> average, trained |-> FALSE] \in [base : Seq(Nat), trained : BOOLEAN]
            /\ [base |-> original[i][f], trained |-> FALSE] \in [base : Seq(Nat), trained : BOOLEAN]
        BY <2>2
      <3>4. /\ [params[i] EXCEPT ![f] = [base |-> average, trained |-> FALSE]] \in Trained
            /\ [params[i] EXCEPT ![f] = [base |-> original[i][f], trained |-> FALSE]] \in Trained
        BY <3>1, <3>3 DEF Trained
      <3> QED
        BY <2>1, <3>1, <3>2, <3>4
    <2>4. /\ step' \in [Replicas -> Nat]
          /\ original' \in [Replicas -> Models]
          /\ params' \in [Replicas -> Trained]
      BY <2>1, <2>3
    <2> QED
      BY <1>0, <1>10, <2>4 DEF Perform
  <1>11. ASSUME NEW i \in Replicas, Crash(i)
         PROVE  TypeOK'
    <2>1. Replicas \in SUBSET Nat
      BY ReplicasFinite
    <2>2. Fresh(i) \in Models
      BY <2>1 DEF Fresh, Models
    <2>3. Untrained(Fresh(i)) \in Trained
      BY <2>2 DEF Untrained, Trained, Models
    <2> QED
      BY <1>0, <1>11, <2>2, <2>3 DEF Crash
  <1> QED
    BY <1>1, <1>2, <1>3, <1>4, <1>5, <1>6, <1>7, <1>8, <1>9, <1>10, <1>11 DEF Next, Replica

-----------------------------------------------------------------------------
(* Phases *)

LEMMA NextPhases == SGDInv /\ [Next]_vars => Phases'
  <1> SUFFICES ASSUME SGDInv, [Next]_vars
               PROVE  Phases'
    OBVIOUS
  <1> USE DEF SGDInv
  <1>0. TypeOK /\ TypeOK'
    BY NextType
  <1>1. CASE UNCHANGED vars
    <2>1. \A k \in Replicas : Same(k) /\ algorithm' = algorithm
      BY <1>1 DEF vars, replicaVars, Same
    <2> QED
      BY <2>1, PhaseKept DEF Phases
  <1>2. ASSUME NEW S \in SUBSET Replicas, FormQuorum(S)
        PROVE  Phases'
    <2> SUFFICES ASSUME NEW k \in Replicas
                 PROVE  PhaseAt(k)'
      BY DEF Phases
    <2>1. PhaseAt(k)
      BY DEF Phases
    <2>2. CASE k \in S
      <3>1. pc[k] = "waiting"
        BY <1>2, <2>2 DEF FormQuorum, MayForm
      <3>2. /\ pc'[k] = "quorum" /\ group'[k] \in Groups /\ ~errored'[k]
            /\ work' = work /\ localStep' = localStep /\ algorithm' = algorithm
        BY <1>0, <1>2, <2>2 DEF FormQuorum, TypeOK, Groups
      <3> QED
        BY <2>1, <3>1, <3>2, NoneAssumption DEF PhaseAt
    <2>3. CASE k \notin S
      <3>1. Same(k) /\ algorithm' = algorithm
        BY <1>0, <1>2, <2>3 DEF FormQuorum, Same, TypeOK
      <3> QED
        BY <2>1, <3>1, PhaseKept
    <2> QED
      BY <2>2, <2>3
  <1>3. ASSUME NEW g \in {group[i] : i \in Replicas}, AverageEnds(g)
        PROVE  Phases'
    <2> SUFFICES ASSUME NEW k \in Replicas
                 PROVE  PhaseAt(k)'
      BY DEF Phases
    <2>1. PhaseAt(k)
      BY DEF Phases
    <2>2. PICK Ok \in SUBSET g.members :
            /\ work' = [i \in Replicas |-> IF i \in Ok THEN "done"
                                           ELSE IF i \in g.members THEN "failed" ELSE work[i]]
            /\ errored' = [i \in Replicas |-> errored[i] \/ i \in g.members \ Ok]
      BY <1>3 DEF AverageEnds
    <2>3. UNCHANGED <<algorithm, pc, localStep, step, offer, group, sent>>
      BY <1>3 DEF AverageEnds
    <2>4. CurrentFragment(k)' = CurrentFragment(k)
      BY <2>3 DEF CurrentFragment, Fragments
    <2>5. CASE k \in g.members
      <3>1. work[k] = "posted"
        BY <1>3, <2>5 DEF AverageEnds, Posted
      <3>2. IF k \in Ok THEN work'[k] = "done" ELSE work'[k] = "failed" /\ errored'[k]
        BY <2>2, <2>5
      <3>3. k \in Ok => (errored'[k] <=> errored[k])
        BY <2>2
      <3> QED
        BY <2>1, <2>3, <2>4, <3>1, <3>2, <3>3 DEF PhaseAt
    <2>6. CASE k \notin g.members
      <3>1. work'[k] = work[k] /\ (errored'[k] <=> errored[k])
        BY <2>2, <2>6
      <3> QED
        BY <2>1, <2>3, <2>4, <3>1 DEF PhaseAt
    <2> QED
      BY <2>5, <2>6
  <1>4. ASSUME NEW i \in Replicas, Replica(i) \/ Crash(i)
        PROVE  Phases'
    <2> SUFFICES PhaseAt(i)'
      BY <1>4, ReplicaFrame, PhaseKept DEF Phases
    <2>1. PhaseAt(i) /\ algorithm' = algorithm
      BY <1>4, ReplicaFrame DEF Phases
    <2>2. /\ Every - algorithm.delay \in Nat \ {0} /\ Every - algorithm.delay <= Every
          /\ Every \in Nat /\ localStep[i] \in Nat
      BY <1>0, DelayFits DEF TypeOK
    <2>3. step' = step => CurrentFragment(i)' = CurrentFragment(i)
      BY <2>1 DEF CurrentFragment, Fragments
    <2>4. CASE InnerStep(i)
      <3>1. /\ pc[i] = "inner" /\ localStep'[i] = localStep[i] + 1
            /\ pc'[i] = IF localStep[i] + 1 = Every - algorithm.delay THEN "waiting"
                        ELSE IF localStep[i] + 1 = Every THEN "perform" ELSE "inner"
            /\ UNCHANGED <<step, errored, group, offer, sent, work>>
        BY <1>0, <2>4 DEF InnerStep, TypeOK
      <3> QED
        BY <2>1, <2>2, <2>3, <3>1 DEF PhaseAt
    <2>5. CASE Configure(i)
      <3>1. /\ pc[i] = "quorum" /\ pc'[i] \in {"heal", "prepare"}
            /\ pc'[i] = "heal" => errored' = errored
            /\ UNCHANGED <<step, localStep, group, sent, work>>
        BY <1>0, <2>5 DEF Configure, TypeOK
      <3> QED
        BY <2>1, <3>1 DEF PhaseAt
    <2>6. CASE Heal(i)
      <3>1. /\ pc[i] = "heal" /\ pc'[i] = "prepare"
            /\ UNCHANGED <<localStep, errored, group, offer, sent, work>>
        BY <1>0, <2>6 DEF Heal, TypeOK
      <3> QED
        BY <2>1, <3>1 DEF PhaseAt
    <2>7. CASE HealFails(i)
      <3>1. /\ pc[i] = "heal" /\ pc'[i] = "prepare" /\ errored'[i]
            /\ UNCHANGED <<localStep, group, offer, sent, work>>
        BY <1>0, <2>7 DEF HealFails, TypeOK
      <3> QED
        BY <2>1, <3>1 DEF PhaseAt
    <2>8. CASE Prepare(i)
      <3>1. /\ pc[i] = "prepare"
            /\ pc'[i] = IF localStep[i] = Every THEN "perform" ELSE "inner"
            /\ work'[i] = IF errored[i] THEN "skipped" ELSE "posted"
            /\ sent'[i] = CurrentFragment(i)
            /\ UNCHANGED <<step, localStep, errored, group, offer>>
        BY <1>0, <2>8 DEF Prepare, TypeOK
      <3>2. localStep[i] = Every - algorithm.delay /\ group[i] # None
        BY <2>1, <3>1 DEF PhaseAt
      <3>3. pc'[i] = "inner" => localStep[i] < Every
        BY <2>2, <3>1, <3>2
      <3> QED
        BY <2>1, <2>2, <2>3, <3>1, <3>2, <3>3 DEF PhaseAt
    <2>9. CASE AverageTimesOut(i)
      <3>1. /\ work[i] = "posted" /\ work'[i] = "failed" /\ errored'[i]
            /\ UNCHANGED <<pc, step, localStep, group, offer, sent>>
        BY <1>0, <2>9 DEF AverageTimesOut, TypeOK
      <3> QED
        BY <2>1, <2>3, <3>1 DEF PhaseAt
    <2>10. CASE Perform(i) \/ Crash(i)
      <3>1. /\ pc'[i] = "inner" /\ localStep'[i] = 0 /\ group'[i] = None
            /\ work'[i] = "none" /\ offer'[i] = None
        BY <1>0, <2>10 DEF Perform, Crash, TypeOK
      <3> QED
        BY <2>1, <2>2, <3>1 DEF PhaseAt
    <2> QED
      BY <1>4, <2>4, <2>5, <2>6, <2>7, <2>8, <2>9, <2>10 DEF Replica
  <1> QED
    BY <1>1, <1>2, <1>3, <1>4 DEF Next

-----------------------------------------------------------------------------
(* Parameters and what they started from *)

LEMMA NextFollowed == SGDInv /\ [Next]_vars => ParamsFollowOriginal' /\ OffersFollow'
  <1> SUFFICES ASSUME SGDInv, [Next]_vars
               PROVE  ParamsFollowOriginal' /\ OffersFollow'
    OBVIOUS
  <1> DEFINE ParamsAt(k) == \A f \in Fragments : params[k][f].base = original[k][f]
             OfferAt(k) == offer[k] # None =>
                             \A f \in Fragments : offer[k].params[f].base = offer[k].original[f]
  <1>0. /\ TypeOK /\ TypeOK' /\ \A k \in Replicas : ParamsAt(k) /\ OfferAt(k)
    BY NextType DEF SGDInv, ParamsFollowOriginal, OffersFollow
  <1>00. Fragments' = Fragments
    BY DEF Next, Replica, FormQuorum, AverageEnds, InnerStep, Configure, Heal, HealFails,
       Prepare, AverageTimesOut, Perform, Crash, vars, Fragments
  <1> SUFFICES ASSUME NEW k \in Replicas
               PROVE  ParamsAt(k)' /\ OfferAt(k)'
    BY <1>00 DEF ParamsFollowOriginal, OffersFollow
  <1>1. ASSUME UNCHANGED <<original, params, offer>>
        PROVE  ParamsAt(k)' /\ OfferAt(k)'
    BY <1>0, <1>00, <1>1
  <1>2. ASSUME NEW i \in Replicas, Replica(i) \/ Crash(i), k # i
        PROVE  ParamsAt(k)' /\ OfferAt(k)'
    BY <1>0, <1>00, <1>2, ReplicaFrame DEF Same
  <1>3. CASE InnerStep(k)
    <2>1. params'[k] = [f \in Fragments |-> [params[k][f] EXCEPT !.trained = TRUE]]
      BY <1>0, <1>3 DEF InnerStep, TypeOK
    <2>2. \A f \in Fragments : params[k][f] \in [base : Seq(Nat), trained : BOOLEAN]
      BY <1>0 DEF TypeOK, Trained
    <2>3. \A f \in Fragments : params'[k][f].base = params[k][f].base
      BY <2>1, <2>2
    <2>4. original' = original /\ offer' = offer
      BY <1>3 DEF InnerStep
    <2> QED
      BY <1>0, <1>00, <2>3, <2>4
  <1>4. CASE Configure(k)
    <2>1. offer' = offer \/ offer' = [offer EXCEPT ![k] = Offer(k)]
      BY <1>4 DEF Configure
    <2>2. offer'[k] = offer[k] \/ offer'[k] = Offer(k)
      BY <1>0, <2>1 DEF TypeOK
    <2>3. original' = original /\ params' = params
      BY <1>4 DEF Configure
    <2>4. Offer(k).params = params[k] /\ Offer(k).original = original[k]
      BY DEF Offer
    <2> QED
      BY <1>0, <1>00, <2>2, <2>3, <2>4
  <1>5. CASE Heal(k)
    <2>1. PICK s, W : Round(s, W)
      BY DEF SGDInv, InRound
    <2>2. pc[k] = "heal" /\ Served(k)
      BY <1>5 DEF Heal
    <2>3. Source(k) \in Replicas /\ offer[Source(k)] # None
      BY <2>1, <2>2, HealFits
    <2>4. /\ original'[k] = offer[Source(k)].original
          /\ params'[k] = offer[Source(k)].params
          /\ offer' = offer
      BY <1>0, <1>5 DEF Heal, TypeOK
    <2>5. OfferAt(Source(k))
      BY <1>0, <2>3
    <2> QED
      BY <1>0, <1>00, <2>3, <2>4, <2>5
  <1>6. CASE Perform(k)
    <2> DEFINE f == step[k] % Cardinality(Fragments)
               average == Append(original[k][f], group[k].round)
    <2>1. /\ Commits(k) =>
               /\ original'[k] = [original[k] EXCEPT ![f] = average]
               /\ params'[k] = [params[k] EXCEPT ![f] = [base |-> average, trained |-> FALSE]]
          /\ ~Commits(k) =>
               /\ original' = original
               /\ \/ params'[k] = params[k]
                  \/ params'[k] =
                       [params[k] EXCEPT ![f] = [base |-> original[k][f], trained |-> FALSE]]
      BY <1>6, PerformFits
    <2> HIDE DEF f, average
    <2>2. offer'[k] = None
      BY <1>0, <1>6 DEF Perform, TypeOK
    <2>3. original[k] \in Models /\ params[k] \in Trained /\ ParamsAt(k)
      BY <1>0 DEF TypeOK
    <2>4. ParamsAt(k)'
      <3> SUFFICES ASSUME NEW h \in Fragments
                   PROVE  params'[k][h].base = original'[k][h]
        BY <1>00
      <3>3. DOMAIN original[k] = Fragments /\ DOMAIN params[k] = Fragments
        BY <2>3 DEF Models, Trained
      <3>4. params[k][h].base = original[k][h]
        BY <2>3
      <3> HIDE DEF ParamsAt
      <3>1. CASE Commits(k)
        <4>1. original'[k][h] = IF h = f THEN average ELSE original[k][h]
          BY <2>1, <3>1, <3>3
        <4>2. params'[k][h] = IF h = f THEN [base |-> average, trained |-> FALSE] ELSE params[k][h]
          BY <2>1, <3>1, <3>3
        <4> QED
          BY <3>4, <4>1, <4>2
      <3>2. CASE ~Commits(k)
        <4>1. original'[k] = original[k]
          BY <2>1, <3>2
        <4>2. \/ params'[k][h] = params[k][h]
              \/ h = f /\ params'[k][h] = [base |-> original[k][h], trained |-> FALSE]
          BY <2>1, <3>2, <3>3
        <4> QED
          BY <3>4, <4>1, <4>2
      <3> QED
        BY <3>1, <3>2
    <2> QED
      BY <2>2, <2>4
  <1>7. CASE Crash(k)
    <2>1. /\ original'[k] = Fresh(k) /\ params'[k] = Untrained(Fresh(k)) /\ offer'[k] = None
      BY <1>0, <1>7 DEF Crash, TypeOK
    <2>2. \A f \in Fragments : Untrained(Fresh(k))[f].base = Fresh(k)[f]
      BY DEF Untrained
    <2> QED
      BY <1>00, <2>1, <2>2
  <1>8. CASE HealFails(k) \/ Prepare(k) \/ AverageTimesOut(k)
    BY <1>1, <1>8 DEF HealFails, Prepare, AverageTimesOut
  <1>9. CASE UNCHANGED vars \/ \E S \in SUBSET Replicas : FormQuorum(S)
    BY <1>1, <1>9 DEF vars, replicaVars, FormQuorum
  <1>10. CASE \E g \in {group[i] : i \in Replicas} : AverageEnds(g)
    BY <1>1, <1>10 DEF AverageEnds
  <1>11. CASE Replica(k) \/ Crash(k)
    BY <1>3, <1>4, <1>5, <1>6, <1>7, <1>8, <1>11 DEF Replica
  <1> HIDE DEF ParamsAt, OfferAt
  <1> QED
    BY <1>2, <1>9, <1>10, <1>11 DEF Next

-----------------------------------------------------------------------------
(* Fragments in turn *)

LEMMA OneMoreTurn ==
  ASSUME NEW n \in Nat, NEW model \in Models, InTurn(model, n), NEW r \in Nat,
         NEW f, f = n % Cardinality(Fragments)
  PROVE  InTurn([model EXCEPT ![f] = Append(model[f], r)], n + 1)
  <1> DEFINE N == Cardinality(Fragments)
             after == [model EXCEPT ![f] = Append(model[f], r)]
  <1>1. N \in Nat \ {0} /\ f \in Fragments
    BY FragmentsFit
  <1> SUFFICES ASSUME NEW g \in Fragments
               PROVE  Len(after[g]) = 1 + Turns(n + 1, N, g)
    BY DEF InTurn
  <1>2. /\ Turns(n + 1, N, g) \in Nat /\ Turns(n, N, g) \in Nat
        /\ Turns(n + 1, N, g) = Turns(n, N, g) + (IF n % N = g THEN 1 ELSE 0)
    <2> HIDE DEF N
    <2> QED
      BY <1>1, TurnsCounted
  <1>3. Len(model[g]) = 1 + Turns(n, N, g) /\ model[g] \in Seq(Nat) /\ f = n % N
    BY DEF InTurn, Models
  <1>4. after[g] = IF g = f THEN Append(model[g], r) ELSE model[g]
    BY <1>1 DEF Models
  <1>5. Len(after[g]) = Len(model[g]) + (IF g = f THEN 1 ELSE 0) /\ Len(model[g]) \in Nat
    <2>1. Len(Append(model[g], r)) = Len(model[g]) + 1 /\ Len(model[g]) \in Nat
      BY <1>3
    <2> HIDE DEF after
    <2>2. CASE g = f
      BY <1>4, <2>1, <2>2
    <2>3. CASE g # f
      BY <1>4, <2>1, <2>3
    <2> QED
      BY <2>2, <2>3
  <1> HIDE DEF N, after
  <1> QED
    BY <1>2, <1>3, <1>5

LEMMA FreshInTurn ==
  ASSUME NEW i \in Replicas
  PROVE  InTurn(Fresh(i), 0)
  <1>1. Len(<<i>>) = 1
    OBVIOUS
  <1>2. \A f \in Fragments : {t \in 0..(0 - 1) : t % Cardinality(Fragments) = f} = {}
    OBVIOUS
  <1>3. Cardinality({}) = 0
    BY FS_EmptySet
  <1> QED
    BY <1>1, <1>2, <1>3 DEF InTurn, Fresh, Turns

LEMMA TurnsFollow == EveryFragmentInTurn <=> \A i \in Replicas : InTurn(original[i], step[i])
  BY DEF EveryFragmentInTurn, InTurn, Turns

LEMMA NextTurns == SGDInv /\ [Next]_vars => EveryFragmentInTurn' /\ OffersInTurn'
  <1> SUFFICES ASSUME SGDInv, [Next]_vars
               PROVE  EveryFragmentInTurn' /\ OffersInTurn'
    OBVIOUS
  <1> DEFINE TurnAt(k) == InTurn(original[k], step[k])
             OfferAt(k) == offer[k] # None => InTurn(offer[k].original, offer[k].step)
  <1>0. /\ TypeOK /\ TypeOK' /\ \A k \in Replicas : TurnAt(k) /\ OfferAt(k)
    BY NextType, TurnsFollow DEF SGDInv, OffersInTurn
  <1>00. Fragments' = Fragments
    BY DEF Next, Replica, FormQuorum, AverageEnds, InnerStep, Configure, Heal, HealFails,
       Prepare, AverageTimesOut, Perform, Crash, vars, Fragments
  <1>01. \A model, n : InTurn(model, n)' <=> InTurn(model, n)
    BY <1>00 DEF InTurn
  <1>02. ASSUME \A k \in Replicas : /\ InTurn(original'[k], step'[k])
                                    /\ offer'[k] # None => InTurn(offer'[k].original, offer'[k].step)
         PROVE  EveryFragmentInTurn' /\ OffersInTurn'
    BY <1>00, <1>02 DEF EveryFragmentInTurn, OffersInTurn, InTurn, Turns
  <1> SUFFICES ASSUME NEW k \in Replicas
               PROVE  /\ InTurn(original'[k], step'[k])
                      /\ offer'[k] # None => InTurn(offer'[k].original, offer'[k].step)
    BY <1>02
  <1> DEFINE Goal == /\ InTurn(original'[k], step'[k])
                     /\ offer'[k] # None => InTurn(offer'[k].original, offer'[k].step)
  <1>1. ASSUME original'[k] = original[k], step'[k] = step[k], offer'[k] = offer[k]
        PROVE  Goal
    BY <1>0, <1>1
  <1>2. ASSUME NEW i \in Replicas, Replica(i) \/ Crash(i), k # i
        PROVE  Goal
    BY <1>1, <1>2, ReplicaFrame DEF Same
  <1>4. CASE Configure(k)
    <2>1. PICK s, W : Round(s, W)
      BY DEF SGDInv, InRound
    <2>2. /\ pc[k] = "quorum" /\ original' = original /\ step' = step
          /\ offer' = offer \/ (answer[k].recover_dst # {} /\ offer' = [offer EXCEPT ![k] = Offer(k)])
      BY <1>4 DEF Configure
    <2>3. /\ answer[k].max_step = MaxStep(s)
          /\ answer[k].recover_dst # {} => step[k] = MaxStep(s)
      BY <2>1, <2>2, OfferFits
    <2>4. CASE offer' = offer
      BY <1>1, <2>2, <2>4
    <2>5. CASE answer[k].recover_dst # {} /\ offer' = [offer EXCEPT ![k] = Offer(k)]
      <3>1. offer'[k] = Offer(k)
        BY <1>0, <2>5 DEF TypeOK
      <3>2. Offer(k).original = original[k] /\ Offer(k).step = step[k]
        BY <2>3, <2>5 DEF Offer
      <3> QED
        BY <1>0, <2>2, <3>1, <3>2
    <2> QED
      BY <2>2, <2>4, <2>5
  <1>5. CASE Heal(k)
    <2>1. PICK s, W : Round(s, W)
      BY DEF SGDInv, InRound
    <2>2. pc[k] = "heal" /\ Served(k)
      BY <1>5 DEF Heal
    <2>3. /\ Source(k) \in Replicas /\ offer[Source(k)] # None
          /\ offer[Source(k)].step = answer[k].max_step
      BY <2>1, <2>2, HealFits
    <2>4. /\ original'[k] = offer[Source(k)].original /\ step'[k] = answer[k].max_step
          /\ offer' = offer
      BY <1>0, <1>5 DEF Heal, TypeOK
    <2>5. OfferAt(Source(k)) /\ OfferAt(k)
      BY <1>0, <2>3
    <2> QED
      BY <2>3, <2>4, <2>5
  <1>6. CASE Perform(k)
    <2> DEFINE f == step[k] % Cardinality(Fragments)
               average == Append(original[k][f], group[k].round)
    <2>1. /\ group[k] # None
          /\ Commits(k) =>
               /\ step' = [step EXCEPT ![k] = @ + 1]
               /\ original'[k] = [original[k] EXCEPT ![f] = average]
          /\ ~Commits(k) => step' = step /\ original' = original
      BY <1>6, PerformFits
    <2> HIDE DEF f
    <2>2. offer'[k] = None
      BY <1>0, <1>6 DEF Perform, TypeOK
    <2>3. original[k] \in Models /\ step[k] \in Nat /\ group[k].round \in Nat
      BY <1>0, <2>1 DEF TypeOK, Groups
    <2>4. CASE Commits(k)
      <3>1. InTurn([original[k] EXCEPT ![f] = average], step[k] + 1)
        BY <1>0, <2>3, OneMoreTurn DEF f
      <3>2. step'[k] = step[k] + 1
        BY <1>0, <2>1, <2>4 DEF TypeOK
      <3> QED
        BY <2>1, <2>2, <2>4, <3>1, <3>2
    <2>5. CASE ~Commits(k)
      BY <1>0, <2>1, <2>2, <2>5
    <2> QED
      BY <2>4, <2>5
  <1>7. CASE Crash(k)
    <2>1. original'[k] = Fresh(k) /\ step'[k] = 0 /\ offer'[k] = None
      BY <1>0, <1>7 DEF Crash, TypeOK
    <2> QED
      BY <2>1, FreshInTurn
  <1>8. CASE InnerStep(k) \/ HealFails(k) \/ Prepare(k) \/ AverageTimesOut(k)
    BY <1>1, <1>8 DEF InnerStep, HealFails, Prepare, AverageTimesOut
  <1>9. CASE UNCHANGED vars \/ \E S \in SUBSET Replicas : FormQuorum(S)
    BY <1>1, <1>9 DEF vars, replicaVars, FormQuorum
  <1>10. CASE \E g \in {group[i] : i \in Replicas} : AverageEnds(g)
    BY <1>1, <1>10 DEF AverageEnds
  <1>11. CASE Replica(k) \/ Crash(k)
    BY <1>4, <1>5, <1>6, <1>7, <1>8, <1>11 DEF Replica
  <1> HIDE DEF Goal
  <1> QED
    BY <1>2, <1>9, <1>10, <1>11 DEF Next, Goal

-----------------------------------------------------------------------------
(* Rounds *)

LEMMA FormRound ==
  ASSUME SGDInv, NEW S \in SUBSET Replicas, FormQuorum(S)
  PROVE  InRound'
  <1>1. /\ TypeOK /\ SameStepSameGlobals /\ S # {} /\ \A i \in S : pc[i] = "waiting"
        /\ \A i \in Replicas \ S : step[i] = 0 /\ group[i] = None
        /\ UNCHANGED <<step, original, offer, algorithm>>
    BY DEF SGDInv, FormQuorum, MayForm
  <1>2. PICK s : s = [j \in S |-> step[j]]
    OBVIOUS
  <1>3. DOMAIN s = S /\ IsQuorum(s)
    <2>1. IsFiniteSet(S) /\ S \in SUBSET Nat
      BY ReplicasFinite
    <2>2. \A j \in S : step[j] \in Nat
      BY <1>1 DEF TypeOK
    <2> QED
      BY <1>1, <1>2, <2>1, <2>2 DEF IsQuorum
  <1>4. MaxStep(s) \in Nat /\ \A r \in S : s[r] \in Nat /\ s[r] <= MaxStep(s) /\ s[r] = step[r]
    BY <1>2, <1>3, MaxStepFits DEF IsQuorum
  <1>5. /\ Up(s) \subseteq S /\ Up(s) # {}
        /\ \A r \in Up(s) : step[r] = MaxStep(s)
        /\ \A r \in S : MaxStep(s) > 0 /\ step[r] = MaxStep(s) => r \in Up(s)
    <2>1. Primary(s, 0) \in Up(s)
      BY <1>3, UpToDateFits DEF Up
    <2> QED
      BY <1>3, <1>4, <2>1 DEF Up, UpToDate, Recovering
  <1>6. ASSUME NEW u \in Up(s), NEW k \in Up(s)
        PROVE  original[u] = original[k]
    <2>1. step[u] = MaxStep(s) /\ step[k] = MaxStep(s) /\ u \in Replicas /\ k \in Replicas
      BY <1>5
    <2>2. CASE MaxStep(s) > 0
      BY <1>1, <2>1, <2>2 DEF SameStepSameGlobals
    <2>3. CASE ~ (MaxStep(s) > 0)
      <3>1. MaxStep(s) = 0
        BY <1>4, <2>3
      <3>2. Up(s) = {Primary(s, 0)}
        <4>1. 0 \in Nat /\ TRUE \in BOOLEAN
          OBVIOUS
        <4>2. MaxStep(s) = 0 => UpToDate(s, 0, TRUE) = {Primary(s, 0)}
          BY <1>3, <4>1, UpToDateFits
        <4> QED
          BY <3>1, <4>2 DEF Up
      <3> QED
        BY <3>2
    <2> QED
      BY <2>2, <2>3
  <1>7. \E W : \A u \in Up(s) : original[u] = W
    BY <1>5, <1>6
  <1>8. PICK W : \A u \in Up(s) : original[u] = W
    BY <1>7
  <1>9. ASSUME NEW i \in S
        PROVE  InRoundAt(i, s, W)'
    <2>1. /\ group'[i] = [round |-> round', members |-> S] /\ pc'[i] = "quorum"
          /\ answer'[i] = Reply(s, i, 0, TRUE)
      BY <1>2 DEF FormQuorum
    <2>2. offer[i] = None
      BY <1>1 DEF SGDInv, Phases, PhaseAt
    <2>3. step[i] = s[i] /\ step[i] # MaxStep(s) + 1 /\ (i \in Up(s) => original[i] = W /\ step[i] = MaxStep(s))
      BY <1>4, <1>5, <1>8
    <2>4. MaxStep(s) > 0 /\ step[i] = MaxStep(s) => original[i] = W
      BY <1>5, <2>3
    <2> QED
      BY <1>1, <1>3, <2>1, <2>2, <2>3, <2>4 DEF InRoundAt
  <1>10. ASSUME NEW i \in Replicas \ S
         PROVE  InRoundAt(i, s, W)'
    <2>1. step[i] = 0 /\ group'[i] = None /\ pc'[i] = pc[i]
      BY <1>1 DEF FormQuorum
    <2>2. offer[i] = None /\ pc[i] \in {"inner", "waiting"}
      BY <1>1 DEF SGDInv, Phases, PhaseAt
    <2>3. 0 # MaxStep(s) + 1 /\ ~ (MaxStep(s) > 0 /\ 0 = MaxStep(s))
      BY <1>4
    <2> QED
      BY <1>1, <1>3, <2>1, <2>2, <2>3 DEF InRoundAt
  <1>11. Round(s, W)'
    BY <1>3, <1>9, <1>10 DEF Round
  <1> QED
    BY <1>11 DEF InRound

LEMMA ReplicaRound ==
  ASSUME SGDInv, NEW i \in Replicas, Replica(i) \/ Crash(i), NEW s, NEW W, Round(s, W)
  PROVE  Round(s, W)'
  <1>0. /\ TypeOK /\ algorithm' = algorithm /\ round' = round
        /\ InRoundAt(i, s, W) /\ PhaseAt(i)
    BY ReplicaFrame DEF SGDInv, Round, Phases
  <1>1. After(s, W)' = After(s, W)
    BY <1>0 DEF After, Fragments
  <1>2. \A k \in Replicas \ {i} : InRoundAt(k, s, W)'
    BY <1>0, ReplicaFrame, RoundKept DEF Round
  <1>3. /\ MaxStep(s) \in Nat /\ MaxStep(s) # MaxStep(s) + 1
        /\ Up(s) \subseteq DOMAIN s
    BY StepsOfRound
  <1> SUFFICES InRoundAt(i, s, W)'
    BY <1>2 DEF Round
  <1>4. ASSUME step'[i] = step[i], original'[i] = original[i], group'[i] = group[i],
               offer'[i] = offer[i], errored'[i] \/ ~errored[i],
               answer'[i] = answer[i],
               pc'[i] \notin {"quorum", "heal"} \/ pc'[i] = pc[i],
               pc[i] \notin {"quorum", "heal"} \/ pc'[i] = pc[i] \/ errored'[i]
        PROVE  InRoundAt(i, s, W)'
    BY <1>0, <1>1, <1>4 DEF InRoundAt
  <1>5. CASE InnerStep(i)
    <2>1. /\ pc[i] = "inner" /\ pc'[i] \in {"waiting", "perform", "inner"}
          /\ UNCHANGED <<step, original, group, offer, errored, answer>>
      BY <1>0, <1>5 DEF InnerStep, TypeOK
    <2> QED
      BY <1>0, <1>1, <2>1 DEF InRoundAt
  <1>6. CASE Configure(i)
    <2>1. /\ pc[i] = "quorum" /\ UNCHANGED <<step, original, group, answer>>
      BY <1>6 DEF Configure
    <2>2. /\ i \in DOMAIN s
          /\ answer[i].heal <=> i \in Recovering(s, 0, TRUE)
          /\ answer[i].recover_dst # {} =>
               i \in Up(s) /\ step[i] = MaxStep(s) /\ original[i] = W
          /\ answer[i].max_step = MaxStep(s)
      BY <2>1, OfferFits
    <2>3. offer'[i] # None =>
            i \in Up(s) /\ offer'[i].step = MaxStep(s) /\ offer'[i].original = W
      <3>1. offer[i] # None =>
              i \in Up(s) /\ offer[i].step = MaxStep(s) /\ offer[i].original = W
        BY <1>0 DEF InRoundAt
      <3>2. CASE offer' = offer
        BY <3>1, <3>2
      <3>3. CASE answer[i].recover_dst # {} /\ offer' = [offer EXCEPT ![i] = Offer(i)]
        <4>1. offer'[i] = Offer(i)
          BY <1>0, <3>3 DEF TypeOK
        <4>2. Offer(i).step = MaxStep(s) /\ Offer(i).original = original[i]
          BY <2>2 DEF Offer
        <4> QED
          BY <2>2, <3>3, <4>1, <4>2
      <3> QED
        BY <1>6, <3>2, <3>3 DEF Configure
    <2>4. /\ pc'[i] # "quorum"
          /\ pc'[i] = "heal" => answer[i].heal
          /\ pc'[i] # "heal" => errored'[i] \/ ~answer[i].heal
      BY <1>0, <1>6 DEF Configure, TypeOK
    <2>5. pc'[i] \notin {"quorum", "heal"} /\ ~errored'[i] =>
            step[i] = MaxStep(s) /\ original[i] = W
      <3>1. ASSUME pc'[i] \notin {"quorum", "heal"}, ~errored'[i]
            PROVE  i \in Up(s)
        BY <2>2, <2>4, <3>1 DEF Up, UpToDate
      <3>2. group[i] # None
        BY <1>0, <2>1 DEF PhaseAt
      <3> QED
        BY <1>0, <3>1, <3>2 DEF InRoundAt
    <2> QED
      BY <1>0, <1>1, <2>1, <2>2, <2>3, <2>4, <2>5 DEF InRoundAt
  <1>7. CASE Heal(i)
    <2>1. pc[i] = "heal" /\ Served(i)
      BY <1>7 DEF Heal
    <2>2. /\ answer[i].max_step = MaxStep(s) /\ i \in DOMAIN s
          /\ offer[Source(i)].original = W
      BY <2>1, HealFits
    <2>3. /\ step'[i] = MaxStep(s) /\ original'[i] = W /\ pc'[i] = "prepare"
          /\ group' = group /\ offer' = offer
      BY <1>0, <1>7, <2>2 DEF Heal, TypeOK
    <2> QED
      BY <1>0, <1>1, <1>3, <2>2, <2>3 DEF InRoundAt
  <1>8. CASE HealFails(i)
    <2>1. /\ pc[i] = "heal" /\ pc'[i] = "prepare" /\ errored'[i]
          /\ UNCHANGED <<step, original, group, offer, answer>>
      BY <1>0, <1>8 DEF HealFails, TypeOK
    <2> QED
      BY <1>4, <2>1
  <1>9. CASE Prepare(i)
    <2>1. /\ pc[i] = "prepare" /\ pc'[i] \in {"perform", "inner"}
          /\ UNCHANGED <<step, original, group, offer, errored, answer>>
      BY <1>0, <1>9 DEF Prepare, TypeOK
    <2> QED
      BY <1>4, <2>1
  <1>10. CASE AverageTimesOut(i)
    <2>1. /\ errored'[i] /\ UNCHANGED <<pc, step, original, group, offer, answer>>
      BY <1>0, <1>10 DEF AverageTimesOut, TypeOK
    <2> QED
      BY <1>4, <2>1
  <1>11. CASE Perform(i)
    <2>1. pc[i] = "perform" /\ pc'[i] = "inner" /\ group'[i] = None /\ offer'[i] = None
      BY <1>0, <1>11 DEF Perform, TypeOK
    <2>2. group[i] # None
      BY <1>11, PerformFits
    <2>3. group[i] = [round |-> round, members |-> DOMAIN s] /\ i \in DOMAIN s
      BY <1>0, <2>2 DEF InRoundAt
    <2>4. CASE Commits(i)
      <3> DEFINE f == step[i] % Cardinality(Fragments)
      <3>1. /\ ~errored[i] /\ step' = [step EXCEPT ![i] = @ + 1]
            /\ original'[i] = [original[i] EXCEPT ![f] = Append(original[i][f], group[i].round)]
        BY <1>11, <2>4, PerformFits
      <3>2. step[i] = MaxStep(s) /\ original[i] = W
        BY <1>0, <2>1, <2>2, <3>1 DEF InRoundAt
      <3>3. step'[i] = MaxStep(s) + 1
        BY <1>0, <3>1, <3>2 DEF TypeOK
      <3>4. original'[i] = After(s, W)
        <4>1. group[i].round = round
          BY <2>3
        <4> QED
          BY <3>1, <3>2, <4>1 DEF After
      <3> QED
        BY <1>1, <1>3, <2>1, <2>3, <3>3, <3>4 DEF InRoundAt
    <2>5. CASE ~Commits(i)
      <3>1. step' = step /\ original' = original
        BY <1>11, <2>5, PerformFits
      <3> QED
        BY <1>0, <1>1, <2>1, <2>3, <3>1 DEF InRoundAt
    <2> QED
      BY <2>4, <2>5
  <1>12. CASE Crash(i)
    <2>1. pc'[i] = "inner" /\ group'[i] = None /\ offer'[i] = None /\ step'[i] = 0
      BY <1>0, <1>12 DEF Crash, TypeOK
    <2>2. 0 # MaxStep(s) + 1 /\ ~ (MaxStep(s) > 0 /\ 0 = MaxStep(s))
      BY <1>3
    <2> QED
      BY <2>1, <2>2 DEF InRoundAt
  <1> QED
    BY <1>5, <1>6, <1>7, <1>8, <1>9, <1>10, <1>11, <1>12 DEF Replica

LEMMA AverageRound ==
  ASSUME SGDInv, NEW g \in {group[i] : i \in Replicas}, AverageEnds(g), NEW s, NEW W, Round(s, W)
  PROVE  Round(s, W)'
  <1>1. PICK Ok \in SUBSET g.members :
          errored' = [i \in Replicas |-> errored[i] \/ i \in g.members \ Ok]
    BY DEF AverageEnds
  <1>2. UNCHANGED <<algorithm, pc, step, original, answer, group, offer, round>>
    BY DEF AverageEnds
  <1>3. After(s, W)' = After(s, W)
    BY <1>2 DEF After, Fragments
  <1>4. ASSUME NEW k \in Replicas
        PROVE  InRoundAt(k, s, W)'
    <2>1. InRoundAt(k, s, W)
      BY DEF Round
    <2>2. ~errored'[k] => ~errored[k]
      BY <1>1
    <2> QED
      BY <1>2, <1>3, <2>1, <2>2 DEF InRoundAt
  <1> QED
    BY <1>4 DEF Round

-----------------------------------------------------------------------------
(* The invariant holds *)

LEMMA InitSGD == Init => SGDInv
  <1> SUFFICES ASSUME Init
               PROVE  SGDInv
    OBVIOUS
  <1>1. TypeOK
    BY InitType
  <1>2. Phases
    <2>1. Every - algorithm.delay \in Nat \ {0}
      BY DelayFits DEF Init
    <2>2. 0 < Every - algorithm.delay
      BY <2>1
    <2> QED
      BY <2>2 DEF Init, Phases, PhaseAt
  <1>3. ParamsFollowOriginal
    BY DEF Init, ParamsFollowOriginal, Untrained
  <1>4. OffersFollow /\ OffersInTurn /\ SameStepSameGlobals
    BY DEF Init, OffersFollow, OffersInTurn, SameStepSameGlobals
  <1>5. EveryFragmentInTurn
    BY FreshInTurn, TurnsFollow DEF Init
  <1>6. InRound
    <2>1. PICK s : s = [i \in Replicas |-> 0]
      OBVIOUS
    <2>2. DOMAIN s = Replicas /\ IsQuorum(s)
      BY <2>1, ReplicasFinite DEF IsQuorum
    <2>3. MaxStep(s) = 0
      <3>1. MaxStep(s) \in Nat /\ MaxParticipants(s) # {}
        BY <2>2, PrimaryFits, MaxStepFits
      <3> QED
        BY <2>1, <3>1 DEF MaxParticipants
    <2>4. \A i \in Replicas : InRoundAt(i, s, <<>>)
      BY <2>1, <2>2, <2>3 DEF Init, InRoundAt
    <2> QED
      BY <2>2, <2>4 DEF InRound, Round
  <1> QED
    BY <1>1, <1>2, <1>3, <1>4, <1>5, <1>6 DEF SGDInv

LEMMA NextInRound == SGDInv /\ [Next]_vars => InRound'
  <1> SUFFICES ASSUME SGDInv, [Next]_vars
               PROVE  InRound'
    OBVIOUS
  <1>1. PICK s, W : Round(s, W)
    BY DEF SGDInv, InRound
  <1>2. CASE UNCHANGED vars
    <2>1. \A k \in Replicas : Same(k) /\ algorithm' = algorithm /\ round' = round
      BY <1>2 DEF vars, replicaVars, Same
    <2>2. Round(s, W)'
      BY <1>1, <1>2, <2>1, RoundKept DEF Round, vars
    <2> QED
      BY <2>2 DEF InRound
  <1>3. CASE \E S \in SUBSET Replicas : FormQuorum(S)
    BY <1>3, FormRound
  <1>4. CASE \E g \in {group[i] : i \in Replicas} : AverageEnds(g)
    <2>1. Round(s, W)'
      BY <1>1, <1>4, AverageRound
    <2> QED
      BY <2>1 DEF InRound
  <1>5. CASE \E i \in Replicas : Replica(i) \/ Crash(i)
    <2>1. Round(s, W)'
      BY <1>1, <1>5, ReplicaRound
    <2> QED
      BY <2>1 DEF InRound
  <1> QED
    BY <1>2, <1>3, <1>4, <1>5 DEF Next

LEMMA NextSameGlobals == SGDInv /\ [Next]_vars => SameStepSameGlobals'
  <1> SUFFICES ASSUME SGDInv, [Next]_vars
               PROVE  SameStepSameGlobals'
    OBVIOUS
  <1>0. TypeOK /\ SameStepSameGlobals
    BY DEF SGDInv
  <1>1. ASSUME step' = step, original' = original
        PROVE  SameStepSameGlobals'
    BY <1>0, <1>1 DEF SameStepSameGlobals
  <1>2. ASSUME NEW i \in Replicas, Replica(i) \/ Crash(i)
        PROVE  SameStepSameGlobals'
    <2>1. \A k \in Replicas \ {i} : step'[k] = step[k] /\ original'[k] = original[k]
      BY <1>2, ReplicaFrame DEF Same
    <2>2. PICK s, W : Round(s, W)
      BY DEF SGDInv, InRound
    <2>3. Round(s, W)'
      BY <1>2, <2>2, ReplicaRound
    <2>4. MaxStep(s) \in Nat
      BY <2>2, StepsOfRound
    <2>5. CASE Heal(i) \/ (Perform(i) /\ Commits(i))
      <3>1. step'[i] = MaxStep(s) \/ step'[i] = MaxStep(s) + 1
        <4>1. CASE Heal(i)
          <5>1. pc[i] = "heal"
            BY <4>1 DEF Heal
          <5>2. answer[i].max_step = MaxStep(s)
            BY <2>2, <5>1, HealFits
          <5> QED
            BY <1>0, <4>1, <5>2 DEF Heal, TypeOK
        <4>2. CASE Perform(i) /\ Commits(i)
          <5>1. ~errored[i] /\ step' = [step EXCEPT ![i] = @ + 1] /\ group[i] # None
            BY <4>2, PerformFits
          <5>2. pc[i] = "perform" /\ InRoundAt(i, s, W)
            BY <2>2, <4>2 DEF Perform, Round
          <5>3. step[i] = MaxStep(s)
            BY <5>1, <5>2 DEF InRoundAt
          <5> QED
            BY <1>0, <5>1, <5>3 DEF TypeOK
        <4> QED
          BY <2>5, <4>1, <4>2
      <3>2. ASSUME NEW k \in Replicas, step'[k] = step'[i], step'[k] > 0
            PROVE  original'[k] = original'[i]
        <4>1. InRoundAt(i, s, W)' /\ InRoundAt(k, s, W)'
          BY <2>3 DEF Round
        <4>2. CASE step'[i] = MaxStep(s)
          BY <3>2, <4>1, <4>2 DEF InRoundAt
        <4>3. CASE step'[i] = MaxStep(s) + 1
          BY <3>2, <4>1, <4>3 DEF InRoundAt
        <4> QED
          BY <3>1, <4>2, <4>3
      <3>3. ASSUME NEW j \in Replicas, NEW k \in Replicas, j # i, k # i,
                   step'[j] = step'[k], step'[j] > 0
            PROVE  original'[j] = original'[k]
        BY <1>0, <2>1, <3>3 DEF SameStepSameGlobals
      <3> QED
        BY <3>2, <3>3 DEF SameStepSameGlobals
    <2>6. CASE Crash(i)
      <3>1. step'[i] = 0
        BY <1>0, <2>6 DEF Crash, TypeOK
      <3>2. ASSUME NEW j \in Replicas, NEW k \in Replicas, step'[j] = step'[k], step'[j] > 0
            PROVE  original'[j] = original'[k]
        <4>1. j # i /\ k # i
          BY <3>1, <3>2
        <4> QED
          BY <1>0, <2>1, <3>2, <4>1 DEF SameStepSameGlobals
      <3> QED
        BY <3>2 DEF SameStepSameGlobals
    <2>7. CASE Perform(i) /\ ~Commits(i)
      BY <1>1, <2>7, PerformFits
    <2>8. CASE InnerStep(i) \/ Configure(i) \/ HealFails(i) \/ Prepare(i) \/ AverageTimesOut(i)
      BY <1>1, <2>8 DEF InnerStep, Configure, HealFails, Prepare, AverageTimesOut
    <2> QED
      BY <1>2, <2>5, <2>6, <2>7, <2>8 DEF Replica
  <1>3. CASE \/ UNCHANGED vars
             \/ \E S \in SUBSET Replicas : FormQuorum(S)
             \/ \E g \in {group[i] : i \in Replicas} : AverageEnds(g)
    BY <1>1, <1>3 DEF vars, replicaVars, FormQuorum, AverageEnds
  <1> QED
    BY <1>2, <1>3 DEF Next

LEMMA SGDInvHolds == Spec => []SGDInv
  <1>1. SGDInv /\ [Next]_vars => SGDInv'
    BY NextType, NextPhases, NextFollowed, NextTurns, NextInRound, NextSameGlobals DEF SGDInv
  <1> QED
    BY <1>1, InitSGD, PTL DEF Spec

-----------------------------------------------------------------------------
(* Theorems *)

\* "We need to make sure all nodes send the same fragments in order"
\* (local_sgd.py:749): replicas that average together send the same fragment and
\* differences to the same parameters, and those at one step have the same
\* global parameters, whatever crashes, lost messages and failed averages.
THEOREM ReplicasAgreeAlways == Spec => []ReplicasAgree
  <1>1. SGDInv => ReplicasAgree
    <2> SUFFICES ASSUME SGDInv, NEW i \in Replicas, NEW j \in Replicas,
                        group[i] = group[j], work[i] = "posted", work[j] = "posted"
                 PROVE  sent[i] = sent[j] /\ original[i][sent[i]] = original[j][sent[j]]
      BY DEF SGDInv, ReplicasAgree, SameFragmentSameBase
    <2>1. PICK s, W : Round(s, W)
      BY DEF SGDInv, InRound
    <2>2. ASSUME NEW k \in Replicas, work[k] = "posted"
          PROVE  sent[k] = MaxStep(s) % Cardinality(Fragments) /\ original[k] = W
      <3>1. PhaseAt(k) /\ InRoundAt(k, s, W) /\ pc[k] \in PCs
        BY <2>1 DEF SGDInv, Phases, Round, TypeOK
      <3>2. group[k] # None /\ ~errored[k] /\ pc[k] \in {"inner", "perform"}
        BY <2>2, <3>1 DEF PhaseAt, PCs
      <3>3. step[k] = MaxStep(s) /\ original[k] = W
        BY <3>1, <3>2 DEF InRoundAt
      <3> QED
        BY <3>1, <3>2, <3>3 DEF PhaseAt, CurrentFragment
    <2> QED
      BY <2>2
  <1> QED
    BY <1>1, SGDInvHolds, PTL

\* The pseudogradient is the difference of the parameters to what they started
\* from: the two are versions of the same fragment, also after a heal, a crash
\* or a discarded round (_save_grads and restore_parameters, local_sgd.py).
THEOREM ParamsFollow == Spec => []ParamsFollowOriginal
  <1>1. SGDInv => ParamsFollowOriginal
    BY DEF SGDInv
  <1> QED
    BY <1>1, SGDInvHolds, PTL

\* Every committed step averaged one fragment, in turn (_current_fragment,
\* local_sgd.py): none is skipped or repeated, whoever was there.
THEOREM FragmentsInTurn == Spec => []EveryFragmentInTurn
  <1>1. SGDInv => EveryFragmentInTurn
    BY DEF SGDInv
  <1> QED
    BY <1>1, SGDInvHolds, PTL

\* A step counts only an average that has arrived, and a group is not configured anew
\* while the average asked of it is out (perform_sync waits for its allreduces before
\* should_commit, and start_quorum comes once in a round, before them; local_sgd.py).
THEOREM CommitsArrived == Spec => CommitsArrivedAverage
  <1>1. ASSUME SGDInv, Next, NEW i \in Replicas, pc[i] = "perform", step'[i] > step[i]
        PROVE  work[i] = "done"
    <2>1. TypeOK /\ step[i] \in Nat
      BY <1>1 DEF SGDInv, TypeOK
    <2>2. step'[i] # step[i]
      BY <1>1, <2>1
    <2>3. PICK k \in Replicas : Replica(k) \/ Crash(k)
      BY <1>1, <2>2 DEF Next, FormQuorum, AverageEnds
    <2>4. k = i
      BY <1>1, <2>2, <2>3, ReplicaFrame DEF Same
    <2>5. ~Crash(i)
      BY <1>1, <2>1 DEF Crash, TypeOK
    <2>6. Perform(i)
      BY <1>1, <2>2, <2>3, <2>4, <2>5 DEF Replica, InnerStep, Configure, Heal, HealFails, Prepare,
         AverageTimesOut
    <2> QED
      BY <1>1, <2>2, <2>6, PerformFits
  <1>2. ASSUME SGDInv, Next, NEW i \in Replicas, group'[i] # group[i], group'[i] # None
        PROVE  work[i] = "none"
    <2>1. TypeOK
      BY <1>2 DEF SGDInv
    <2>2. ASSUME NEW k \in Replicas, Replica(k) \/ Crash(k) PROVE FALSE
      <3>1. group' = group \/ group' = [group EXCEPT ![k] = None]
        BY <2>2 DEF Replica, InnerStep, Configure, Heal, HealFails, Prepare, AverageTimesOut, Perform,
           Crash
      <3> QED
        BY <1>2, <2>1, <3>1 DEF TypeOK
    <2>3. PICK S \in SUBSET Replicas : FormQuorum(S)
      BY <1>2, <2>2 DEF Next, AverageEnds
    <2>4. i \in S /\ pc[i] = "waiting"
      BY <1>2, <2>3 DEF FormQuorum, MayForm
    <2> QED
      BY <1>2, <2>4 DEF SGDInv, Phases, PhaseAt
  <1>3. SGDInv /\ [Next]_vars =>
          [\A i \in Replicas :
             /\ pc[i] = "perform" /\ step'[i] > step[i] => work[i] = "done"
             /\ group'[i] # group[i] /\ group'[i] # None => work[i] = "none"]_vars
    BY <1>1, <1>2
  <1> QED
    BY <1>3, SGDInvHolds, PTL DEF Spec, CommitsArrivedAverage

=============================================================================
