--------------------------- MODULE TrainingProofs ---------------------------
(***************************************************************************)
(* What TrainingProtocol.tla guarantees for any number of replicas, lives, *)
(* steps and faults.                                                       *)
(*                                                                         *)
(* Answered holds whatever happens: those that work on a quorum of the     *)
(* same members have their answers from one quorum.  GroupInv is about     *)
(* process groups: a replica whose quorum id is the lighthouse's has the   *)
(* group of the lighthouse's members, or has failed and will say so; it    *)
(* holds as long as the lighthouse does not restart.                       *)
(*                                                                         *)
(* Without stragglers, Everybody holds even so: a collective ends only if  *)
(* it is one of all that are alive, and then of the latest quorum.         *)
(* WeightsInv adds the round: the members of that quorum started at the    *)
(* steps s, those up to date with the weights W, and commit the average    *)
(* of R.                                                                   *)
(*                                                                         *)
(* With stragglers, EpochInv tells the states before and after a restart   *)
(* of the lighthouse apart, and HistoryInv says that the weights have one  *)
(* history, because a step is made by a majority or by nobody.  The quorum *)
(* results themselves are in QuorumResultsProofs.tla.                      *)
(***************************************************************************)
EXTENDS TrainingProtocol, QuorumResultsProofs

PCs == {"unborn", "dead", "start", "waiting", "quorum", "recover", "heal", "ready", "posted", "reduced"}

\* Working on an answer of the lighthouse.
Active == {"quorum", "recover", "heal", "ready", "posted", "reduced"}

\* The incarnation after i, if there is one.
LEMMA NextLife ==
  ASSUME NEW i \in Ids, i % Lives # Lives - 1
  PROVE  i + 1 \in Ids /\ (i + 1) % Lives # 0 /\ i + 1 # i
  <1> DEFINE q == i \div Lives
             r == i % Lives
  <1>1. /\ i \in Nat /\ Lives \in Nat \ {0} /\ Slots \in Nat \ {0}
        /\ Slots * Lives \in Nat /\ i < Slots * Lives
    BY SlotsAssumption DEF Ids
  <1>2. r \in 0 .. (Lives - 1) /\ q \in Nat /\ i = Lives * q + r
    BY <1>1, Division
  <1>3. r # Lives - 1
    OBVIOUS
  <1> HIDE DEF q, r
  <1>4. r \in Nat /\ r + 1 \in Nat /\ r + 1 < Lives /\ r + 1 # 0
    BY <1>1, <1>2, <1>3
  <1>5. Lives * q \in Nat /\ i + 1 = Lives * q + (r + 1)
    BY <1>1, <1>2, <1>4
  <1>6. (i + 1) % Lives = r + 1
    BY <1>1, <1>2, <1>4, <1>5, Remainder
  <1>7. i + 1 # Slots * Lives
    <2>1. Slots * Lives = Lives * Slots + 0
      BY <1>1
    <2>2. (Slots * Lives) % Lives = 0
      BY <1>1, <2>1, Remainder
    <2> QED
      BY <1>4, <1>6, <2>2
  <1> QED
    BY <1>1, <1>4, <1>6, <1>7 DEF Ids

LEMMA IdsFinite == IsFiniteSet(Ids) /\ Ids \in SUBSET Nat
  <1>1. Slots * Lives - 1 \in Int
    BY SlotsAssumption
  <1> QED
    BY <1>1, FS_Interval DEF Ids

-----------------------------------------------------------------------------
(* The answers *)

\* The steps of the members of S in their requests.
StepsOf(S) == [j \in S |-> lighthouse.requests[j].step]

\* Replica i's answer for a quorum at the steps s.
AnswerTo(i, s) ==
  /\ i \in DOMAIN s
  /\ quorum[i].members = DOMAIN s
  /\ quorum[i].max_step = MaxStep(s)
  /\ quorum[i].heal <=> i \in Recovering(s, 0, InitSync)
  /\ quorum[i].heal => quorum[i].recover_src = RecoverSrc(s, i, 0, InitSync)
  /\ quorum[i].recover_dst = RecoverDst(s, i, 0, InitSync)
  /\ quorum[i].store = Primary(s, 0)
  /\ quorum[i].max_world_size = Cardinality(MaxParticipants(s))
  /\ quorum[i].max_rank = IF i \in MaxParticipants(s)
                          THEN IndexIn(MaxParticipants(s), i) ELSE NoRank

Typed(q) ==
  /\ q.id \in Nat
  /\ q.members \in SUBSET Ids
  /\ q.heal \in BOOLEAN
  /\ q.heal => q.recover_src \in Ids
  /\ q.store \in Nat
  /\ q.max_step \in Nat
  /\ q.max_world_size \in Nat

TypeOK ==
  /\ lighthouse \in [id : Nat, prev : {None} \cup SUBSET Ids,
                     requests : [Ids -> {None} \cup [step : Nat, failed : BOOLEAN]]]
  /\ pc \in [Ids -> PCs]
  /\ step \in [Ids -> Nat]
  /\ weights \in [Ids -> Weights]
  /\ quorumId \in [Ids -> Nat \cup {-1}]
  /\ failures \in [Ids -> BOOLEAN]
  /\ errored \in [Ids -> BOOLEAN]
  /\ healing \in [Ids -> BOOLEAN]
  /\ pending \in [Ids -> Weights \cup {None}]
  /\ serving \in [Ids -> [step : Nat, weights : Weights] \cup {None}]
  /\ pg \in [Ids -> Groups \cup {None}]
  /\ reduced \in [Ids -> {None} \cup SUBSET Ids]
  /\ \A i \in Ids : pc[i] \in Active => Typed(quorum[i])
  /\ \A i \in Ids : pc[i] = "heal" => quorum[i].heal

LEMMA StepsOfQuorum ==
  ASSUME TypeOK, NEW S, MayForm(S)
  PROVE  /\ S \in SUBSET Ids
         /\ IsQuorum(StepsOf(S))
         /\ StepsOf(S) \in [S -> Nat]
         /\ DOMAIN StepsOf(S) = S
  <1>1. S \subseteq Registered /\ S # {}
    BY DEF MayForm
  <1>2. S \in SUBSET Ids /\ S \in SUBSET Nat
    BY <1>1, IdsFinite DEF Registered
  <1>3. IsFiniteSet(S)
    BY <1>2, IdsFinite, FS_Subset
  <1>4. \A j \in S : lighthouse.requests[j].step \in Nat
    BY <1>1, <1>2 DEF Registered, TypeOK
  <1> QED
    BY <1>1, <1>2, <1>3, <1>4 DEF IsQuorum, StepsOf

\* The fields of an answer.
LEMMA AnswerFields ==
  ASSUME NEW S, NEW i
  PROVE  LET q == Answer(S, i)
             p == Reply(StepsOf(S), i, 0, InitSync)
         IN  /\ q.id = QuorumIdFor(S)
             /\ q.members = S
             /\ q.heal = p.heal /\ q.recover_src = p.recover_src
             /\ q.recover_dst = p.recover_dst /\ q.store = p.store
             /\ q.max_step = p.max_step /\ q.max_rank = p.max_rank
             /\ q.max_world_size = p.max_world_size
  <1> DEFINE p == Reply(StepsOf(S), i, 0, InitSync)
  <1>1. Answer(S, i) = [x \in {"id", "members"} \cup DOMAIN p |->
                          CASE x = "id" -> QuorumIdFor(S)
                            [] x = "members" -> S
                            [] OTHER -> p[x]]
    BY DEF Answer, StepsOf
  <1>3. DOMAIN p = {"heal", "recover_src", "recover_dst", "store", "max_step", "max_rank",
                    "max_world_size", "replica_rank", "replica_world_size"}
    BY DEF Reply
  <1> HIDE DEF p
  <1> QED
    BY <1>1, <1>3 DEF p

\* What a new quorum tells its members.
LEMMA AnswersFit ==
  ASSUME TypeOK, NEW S, FormQuorum(S), NEW s, s = StepsOf(S), NEW i \in S \cap Alive
  PROVE  /\ quorum'[i].id = QuorumIdFor(S)
         /\ AnswerTo(i, s)'
         /\ Typed(quorum'[i])
  <1>1. MayForm(S) /\ i \in Ids /\ i \in S
    BY DEF FormQuorum, Alive
  <1>2. quorum'[i] = Answer(S, i)
    BY <1>1 DEF FormQuorum
  <1>3. IsQuorum(s) /\ DOMAIN s = S /\ S \in SUBSET Ids
    BY <1>1, StepsOfQuorum
  <1>4. InitSync \in BOOLEAN /\ 0 \in Nat
    BY ProtocolAssumption
  <1>5. /\ quorum'[i].id = QuorumIdFor(S) /\ quorum'[i].members = S
        /\ quorum'[i].heal = Reply(s, i, 0, InitSync).heal
        /\ quorum'[i].recover_src = Reply(s, i, 0, InitSync).recover_src
        /\ quorum'[i].recover_dst = Reply(s, i, 0, InitSync).recover_dst
        /\ quorum'[i].store = Reply(s, i, 0, InitSync).store
        /\ quorum'[i].max_step = Reply(s, i, 0, InitSync).max_step
        /\ quorum'[i].max_rank = Reply(s, i, 0, InitSync).max_rank
        /\ quorum'[i].max_world_size = Reply(s, i, 0, InitSync).max_world_size
    BY <1>2, AnswerFields
  <1>6. /\ Reply(s, i, 0, InitSync).heal \in BOOLEAN
        /\ Reply(s, i, 0, InitSync).heal <=> i \in Recovering(s, 0, InitSync)
        /\ Reply(s, i, 0, InitSync).heal =>
             Reply(s, i, 0, InitSync).recover_src = RecoverSrc(s, i, 0, InitSync)
        /\ Reply(s, i, 0, InitSync).recover_dst = RecoverDst(s, i, 0, InitSync)
        /\ Reply(s, i, 0, InitSync).store = Primary(s, 0)
        /\ Reply(s, i, 0, InitSync).max_step = MaxStep(s)
        /\ Reply(s, i, 0, InitSync).max_world_size = Cardinality(MaxParticipants(s))
        /\ Reply(s, i, 0, InitSync).max_rank =
             IF i \in MaxParticipants(s) THEN IndexIn(MaxParticipants(s), i) ELSE NoRank
    <2>1. Reply(s, i, 0, InitSync).heal = (i \in Recovering(s, 0, InitSync))
      BY DEF Reply
    <2>2. Reply(s, i, 0, InitSync).heal \in BOOLEAN
      <3>1. CASE i \in Recovering(s, 0, InitSync)
        BY <2>1, <3>1, Zenon
      <3>2. CASE i \notin Recovering(s, 0, InitSync)
        <4>1. (i \in Recovering(s, 0, InitSync)) = FALSE
          BY <3>2
        <4> QED
          BY <2>1, <4>1, Zenon
      <3> QED
        BY <3>1, <3>2
    <2> QED
      BY <2>1, <2>2 DEF Reply
  <1>7. AnswerTo(i, s)'
    BY <1>1, <1>3, <1>5, <1>6 DEF AnswerTo
  <1>8. Typed(quorum'[i])
    <2>1. QuorumIdFor(S) \in Nat
      BY DEF QuorumIdFor, TypeOK
    <2>2. i \in Recovering(s, 0, InitSync) => RecoverSrc(s, i, 0, InitSync) \in Ids
      BY <1>3, <1>4, SourceFits, UpToDateFits, MaxStepFits
    <2>3. Primary(s, 0) \in Nat /\ MaxStep(s) \in Nat /\ Cardinality(MaxParticipants(s)) \in Nat
      BY <1>3, <1>4, PrimaryFits, MaxStepFits
    <2> QED
      BY <1>3, <1>5, <1>6, <2>1, <2>2, <2>3 DEF Typed
  <1> QED
    BY <1>5, <1>7, <1>8

LEMMA InitType == Init => TypeOK
  <1> SUFFICES ASSUME Init
               PROVE  TypeOK
    OBVIOUS
  <1>1. \A i \in Ids : SlotOf(i) \in Nat
    <2>1. \A i \in Ids : i \in Nat /\ Lives \in Nat \ {0}
      BY IdsFinite, SlotsAssumption
    <2> QED
      BY <2>1, Division DEF SlotOf
  <1>2. \A i \in Ids : <<SlotOf(i)>> \in Weights /\ <<>> \in Weights
    BY <1>1 DEF Weights
  <1>3. weights \in [Ids -> Weights]
    BY <1>2 DEF Init
  <1>4. pc \in [Ids -> PCs] /\ \A i \in Ids : pc[i] \notin Active /\ pc[i] # "heal"
    BY DEF Init, PCs, Active
  <1>5. lighthouse \in [id : Nat, prev : {None} \cup SUBSET Ids,
                        requests : [Ids -> {None} \cup [step : Nat, failed : BOOLEAN]]]
    BY DEF Init
  <1> QED
    BY <1>3, <1>4, <1>5 DEF Init, TypeOK

LEMMA NextType == TypeOK /\ [Next]_vars => TypeOK'
  <1> SUFFICES ASSUME TypeOK, [Next]_vars
               PROVE  TypeOK'
    OBVIOUS
  <1>1. CASE UNCHANGED vars
    BY <1>1 DEF TypeOK, vars, local, Typed
  <1>2. ASSUME NEW S \in SUBSET Registered, FormQuorum(S)
        PROVE  TypeOK'
    <2>1. MayForm(S) /\ S \in SUBSET Ids /\ QuorumIdFor(S) \in Nat
      BY <1>2 DEF FormQuorum, Registered, QuorumIdFor, TypeOK
    <2>2. lighthouse' \in [id : Nat, prev : {None} \cup SUBSET Ids,
                           requests : [Ids -> {None} \cup [step : Nat, failed : BOOLEAN]]]
      BY <1>2, <2>1 DEF FormQuorum
    <2>3. pc' \in [Ids -> PCs] /\ \A i \in Ids : pc'[i] = IF i \in S \cap Alive THEN "quorum" ELSE pc[i]
      BY <1>2 DEF FormQuorum, TypeOK, PCs
    <2>4. \A i \in Ids : i \notin S \cap Alive => quorum'[i] = quorum[i]
      BY <1>2 DEF FormQuorum
    <2>5. \A i \in Ids : pc'[i] \in Active => Typed(quorum'[i])
      BY <1>2, <2>3, <2>4, AnswersFit DEF TypeOK
    <2>6. \A i \in Ids : pc'[i] = "heal" => quorum'[i].heal
      BY <2>3, <2>4 DEF TypeOK
    <2> QED
      BY <1>2, <2>2, <2>3, <2>5, <2>6 DEF FormQuorum, local, TypeOK
  <1>3. CASE RestartLighthouse
    BY <1>3 DEF RestartLighthouse, local, TypeOK, Typed
  <1>4. ASSUME NEW G \in {pg[i] : i \in Ids}, CollectiveEnds(G)
        PROVE  TypeOK'
    <2>1. PICK Ok \in SUBSET G.members :
            /\ errored' = [i \in Ids |-> IF i \in G.members \ Ok THEN TRUE ELSE errored[i]]
            /\ reduced' = [i \in Ids |-> IF i \in Ok THEN {m \in G.members : Participating(m)}
                                         ELSE reduced[i]]
      BY <1>4 DEF CollectiveEnds
    <2>2. G.members \in SUBSET Ids
      BY <1>4 DEF CollectiveEnds, TypeOK, Groups
    <2>3. errored' \in [Ids -> BOOLEAN] /\ reduced' \in [Ids -> {None} \cup SUBSET Ids]
      BY <2>1, <2>2 DEF TypeOK
    <2>4. /\ pc' \in [Ids -> PCs]
          /\ \A i \in Ids : pc'[i] = "heal" => pc[i] = "heal"
          /\ \A i \in Ids : pc'[i] \in Active => pc[i] \in Active
      BY <1>4 DEF CollectiveEnds, TypeOK, PCs, Active
    <2> QED
      BY <1>4, <2>3, <2>4 DEF CollectiveEnds, TypeOK
  <1>5. ASSUME NEW i \in Ids, Replica(i)
        PROVE  TypeOK'
    <2>1. Request(i) \in [id : Nat, prev : {None} \cup SUBSET Ids,
                          requests : [Ids -> {None} \cup [step : Nat, failed : BOOLEAN]]]
      BY DEF Request, TypeOK
    <2>2. CASE StartQuorum(i)
      BY <2>1, <2>2 DEF StartQuorum, TypeOK, PCs, Active
    <2>3. CASE RetryQuorum(i)
      BY <2>1, <2>3 DEF RetryQuorum, local, TypeOK
    <2>4. CASE MissQuorum(i)
      BY <2>1, <2>4 DEF MissQuorum, local, TypeOK, PCs, Active
    <2>5. CASE Configure(i)
      <3>1. Typed(quorum[i])
        BY <2>5 DEF Configure, TypeOK, Active
      <3>2. Group(i) \in Groups /\ quorum[i].id \in Nat
        BY <3>1 DEF Typed, Group, Groups
      <3>3. quorumId' \in [Ids -> Nat \cup {-1}]
        BY <2>5, <3>2 DEF Configure, TypeOK
      <3>4. pg' \in [Ids -> Groups \cup {None}]
        BY <2>5, <3>2 DEF Configure, TypeOK
      <3>5. errored' \in [Ids -> BOOLEAN]
        BY <2>5 DEF Configure, TypeOK
      <3>6. /\ pc' \in [Ids -> PCs]
            /\ \A k \in Ids : pc'[k] = "heal" => pc[k] = "heal"
            /\ \A k \in Ids : pc'[k] \in Active => pc[k] \in Active
        BY <2>5 DEF Configure, TypeOK, PCs, Active
      <3> QED
        BY <2>5, <3>3, <3>4, <3>5, <3>6 DEF Configure, TypeOK
    <2>6. CASE Recover(i)
      <3>1. Typed(quorum[i])
        BY <2>6 DEF Recover, TypeOK, Active
      <3>2. quorum[i].heal \in BOOLEAN /\ quorum[i].max_step \in Nat
        BY <3>1 DEF Typed
      <3>3. serving' \in [Ids -> [step : Nat, weights : Weights] \cup {None}]
        BY <2>6, <3>2 DEF Recover, TypeOK
      <3>4. healing' \in [Ids -> BOOLEAN]
        BY <2>6, <3>2 DEF Recover, TypeOK
      <3>5. /\ pc' \in [Ids -> PCs]
            /\ \A k \in Ids : pc'[k] = "heal" => quorum[k].heal
            /\ \A k \in Ids : pc'[k] \in Active => pc[k] \in Active
        BY <2>6 DEF Recover, TypeOK, PCs, Active
      <3> QED
        BY <2>6, <3>3, <3>4, <3>5 DEF Recover, TypeOK
    <2>7. CASE ReceiveCheckpoint(i)
      <3>1. Typed(quorum[i]) /\ quorum[i].heal
        BY <2>7 DEF ReceiveCheckpoint, TypeOK, Active
      <3>2. quorum[i].recover_src \in Ids /\ quorum[i].max_step \in Nat
        BY <3>1 DEF Typed
      <3>3. serving[quorum[i].recover_src] # None
        BY <2>7 DEF ReceiveCheckpoint, Served
      <3>4. serving[quorum[i].recover_src].weights \in Weights
        BY <3>2, <3>3 DEF TypeOK
      <3> QED
        BY <2>7, <3>2, <3>4 DEF ReceiveCheckpoint, TypeOK, PCs, Active
    <2>8. CASE HealFails(i)
      BY <2>8 DEF HealFails, TypeOK, PCs, Active
    <2>9. CASE Allreduce(i)
      BY <2>9 DEF Allreduce, local, TypeOK, PCs, Active
    <2>10. CASE CollectiveTimesOut(i)
      BY <2>10 DEF CollectiveTimesOut, TypeOK, PCs, Active
    <2>11. CASE ShouldCommit(i)
      <3>1. Typed(quorum[i])
        BY <2>11 DEF ShouldCommit, TypeOK, Active
      <3>2. NumParticipants(i) \in Nat
        BY <3>1, ProtocolAssumption DEF Typed, NumParticipants
      <3>3. Restored(i) \in Weights
        BY DEF Restored, TypeOK
      <3>4. Append(Restored(i), <<reduced[i], NumParticipants(i)>>) \in Weights
        BY <3>2, <3>3 DEF Weights, TypeOK
      <3>5. weights' \in [Ids -> Weights] /\ step' \in [Ids -> Nat] /\ failures' \in [Ids -> BOOLEAN]
        <4>1. CASE ~errored[i] /\ NumParticipants(i) >= MinReplicas
          <5> DEFINE new == Append(Restored(i), <<reduced[i], NumParticipants(i)>>)
          <5>1. weights' = [weights EXCEPT ![i] = new] /\ new \in Weights
            BY <2>11, <3>4, <4>1 DEF ShouldCommit
          <5> HIDE DEF new
          <5>2. weights' \in [Ids -> Weights]
            BY <5>1 DEF TypeOK
          <5>3. step' = [step EXCEPT ![i] = step[i] + 1] /\ failures' = [failures EXCEPT ![i] = FALSE]
            BY <2>11, <4>1, Zenon DEF ShouldCommit
          <5>4. step' \in [Ids -> Nat] /\ failures' \in [Ids -> BOOLEAN]
            BY <5>3 DEF TypeOK
          <5> QED
            BY <5>2, <5>4
        <4>2. CASE ~ (~errored[i] /\ NumParticipants(i) >= MinReplicas)
          <5>1. step' = step /\ failures' = [failures EXCEPT ![i] = TRUE]
            BY <2>11, <4>2, Zenon DEF ShouldCommit
          <5>2. weights' = weights \/ weights' = [weights EXCEPT ![i] = Restored(i)]
            BY <2>11, <4>2, Zenon DEF ShouldCommit
          <5>3. weights' \in [Ids -> Weights]
            BY <3>3, <5>2 DEF TypeOK
          <5> QED
            BY <5>1, <5>3 DEF TypeOK
        <4> QED
          BY <4>1, <4>2
      <3> QED
        BY <2>11, <3>5 DEF ShouldCommit, TypeOK, PCs, Active
    <2> QED
      BY <1>5, <2>2, <2>3, <2>4, <2>5, <2>6, <2>7, <2>8, <2>9, <2>10, <2>11 DEF Replica
  <1>6. ASSUME NEW i \in Ids, Crash(i)
        PROVE  TypeOK'
    <2>1. i + 1 \in Ids
      BY <1>6, NextLife DEF Crash
    <2> QED
      BY <1>6, <2>1 DEF Crash, TypeOK, PCs, Active
  <1> QED
    BY <1>1, <1>2, <1>3, <1>4, <1>5, <1>6 DEF Next

-----------------------------------------------------------------------------
(* What a step leaves alone *)

SameLighthouse == lighthouse'.id = lighthouse.id /\ lighthouse'.prev = lighthouse.prev

\* Nothing of replica k changes.
Same(k) ==
  /\ lighthouse'.requests[k] = lighthouse.requests[k]
  /\ pc'[k] = pc[k]
  /\ step'[k] = step[k]
  /\ weights'[k] = weights[k]
  /\ quorumId'[k] = quorumId[k]
  /\ failures'[k] = failures[k]
  /\ errored'[k] = errored[k]
  /\ healing'[k] = healing[k]
  /\ pending'[k] = pending[k]
  /\ serving'[k] = serving[k]
  /\ quorum'[k] = quorum[k]
  /\ pg'[k] = pg[k]
  /\ reduced'[k] = reduced[k]

LEMMA ReplicaFrame ==
  ASSUME TypeOK, NEW i \in Ids, Replica(i)
  PROVE  SameLighthouse /\ quorum' = quorum /\ \A k \in Ids \ {i} : Same(k)
  <1> USE DEF TypeOK, SameLighthouse, Same
  <1>0. /\ Request(i).id = lighthouse.id /\ Request(i).prev = lighthouse.prev
        /\ \A k \in Ids \ {i} : Request(i).requests[k] = lighthouse.requests[k]
    BY DEF Request
  <1>1. CASE StartQuorum(i)
    BY <1>0, <1>1 DEF StartQuorum
  <1>2. CASE RetryQuorum(i)
    BY <1>0, <1>2 DEF RetryQuorum, local
  <1>3. CASE MissQuorum(i)
    BY <1>0, <1>3 DEF MissQuorum, local
  <1>4. CASE Configure(i)
    BY <1>4 DEF Configure
  <1>5. CASE Recover(i)
    BY <1>5 DEF Recover
  <1>6. CASE ReceiveCheckpoint(i)
    BY <1>6 DEF ReceiveCheckpoint
  <1>7. CASE HealFails(i)
    BY <1>7 DEF HealFails
  <1>8. CASE Allreduce(i)
    BY <1>8 DEF Allreduce, local
  <1>9. CASE CollectiveTimesOut(i)
    BY <1>9 DEF CollectiveTimesOut
  <1>10. CASE ShouldCommit(i)
    <2>1. weights' = [weights EXCEPT ![i] = weights'[i]]
      <3>1. CASE ~errored[i] /\ NumParticipants(i) >= MinReplicas
        BY <1>10, <3>1 DEF ShouldCommit
      <3>2. CASE ~ (~errored[i] /\ NumParticipants(i) >= MinReplicas)
        BY <1>10, <3>2 DEF ShouldCommit
      <3> QED
        BY <3>1, <3>2
    <2>2. \A k \in Ids \ {i} : step'[k] = step[k] /\ failures'[k] = failures[k]
      BY <1>10 DEF ShouldCommit
    <2> QED
      BY <1>10, <2>1, <2>2 DEF ShouldCommit
  <1> QED
    BY <1>1, <1>2, <1>3, <1>4, <1>5, <1>6, <1>7, <1>8, <1>9, <1>10 DEF Replica

\* Replicas live and die in crashes only.
LEMMA ReplicaLives ==
  ASSUME TypeOK, NEW i \in Ids, Replica(i)
  PROVE  /\ i \in Alive /\ pc'[i] \notin {"unborn", "dead"} /\ Alive' = Alive
         /\ pc'[i] \in Active => pc[i] \in Active
         /\ \A k \in Ids : pc'[k] \in {"unborn", "dead"} => pc'[k] = pc[k]
  <1>1. /\ pc[i] \notin {"unborn", "dead"} /\ pc'[i] \notin {"unborn", "dead"}
        /\ pc'[i] \in Active => pc[i] \in Active
    BY DEF Replica, TypeOK, StartQuorum, RetryQuorum, MissQuorum, Configure, Recover,
           ReceiveCheckpoint, HealFails, Allreduce, CollectiveTimesOut, ShouldCommit, Active
  <1>2. \A k \in Ids \ {i} : pc'[k] = pc[k]
    BY ReplicaFrame DEF Same
  <1> QED
    BY <1>1, <1>2 DEF Alive

LEMMA FormLives ==
  ASSUME TypeOK, NEW S, FormQuorum(S)
  PROVE  /\ Alive' = Alive
         /\ \A k \in Ids : pc'[k] \in {"unborn", "dead"} => pc'[k] = pc[k]
  BY DEF FormQuorum, Alive

LEMMA CollectiveLives ==
  ASSUME TypeOK, NEW G, CollectiveEnds(G)
  PROVE  /\ Alive' = Alive
         /\ \A k \in Ids : pc'[k] \in {"unborn", "dead"} => pc'[k] = pc[k]
  BY DEF CollectiveEnds, Alive

LEMMA CrashFrame ==
  ASSUME TypeOK, NEW i \in Ids, Crash(i)
  PROVE  /\ i + 1 \in Ids /\ i + 1 # i /\ i \in Alive
         /\ pc'[i] = "dead" /\ pc'[i + 1] = "start" /\ serving'[i] = None
         /\ \A k \in Ids \ {i, i + 1} : Same(k)
         /\ lighthouse' = lighthouse /\ step' = step /\ weights' = weights
         /\ quorumId' = quorumId /\ failures' = failures /\ errored' = errored
         /\ healing' = healing /\ pending' = pending /\ quorum' = quorum /\ pg' = pg
         /\ reduced' = reduced
         /\ \A k \in Ids \ {i} : serving'[k] = serving[k]
         /\ Alive' = (Alive \ {i}) \cup {i + 1}
  <1>1. i + 1 \in Ids /\ i + 1 # i /\ i \in Alive
    BY NextLife DEF Crash
  <1>2. pc'[i] = "dead" /\ pc'[i + 1] = "start" /\ \A k \in Ids \ {i, i + 1} : pc'[k] = pc[k]
    BY <1>1 DEF Crash, TypeOK
  <1>3. Alive' = (Alive \ {i}) \cup {i + 1}
    BY <1>1, <1>2 DEF Alive
  <1> QED
    BY <1>1, <1>2, <1>3 DEF Crash, TypeOK, Same

-----------------------------------------------------------------------------
(* Groups *)

\* Incarnations come one after the other.
Lineage ==
  \A i \in Ids : i % Lives # Lives - 1 /\ pc[i] # "dead" => pc[i + 1] = "unborn"

\* The state a new process starts from.
Unborn ==
  \A i \in Ids : pc[i] = "unborn" =>
    /\ step[i] = 0 /\ quorumId[i] = -1 /\ ~failures[i] /\ ~healing[i]
    /\ pending[i] = None /\ serving[i] = None /\ pg[i] = None
    /\ ~InitSync => weights[i] = <<>>
    /\ lighthouse.requests[i] = None
    /\ lighthouse.prev # None => i \notin lighthouse.prev

\* A live replica that is registered waits, and the request is as it is.
Requested ==
  \A i \in Alive : lighthouse.requests[i] # None =>
    /\ pc[i] = "waiting"
    /\ lighthouse.requests[i].step = step[i]
    /\ lighthouse.requests[i].failed = failures[i]

InOwnGroup == \A i \in Ids : pg[i] # None => i \in pg[i].members

\* Who works on a quorum is a member of it, and has had no error at first.
OwnQuorum ==
  \A i \in Alive :
    /\ pc[i] \in {"waiting", "quorum", "recover", "heal", "posted"} => ~errored[i]
    /\ pc[i] \in Active => i \in quorum[i].members

Standing == TypeOK /\ Lineage /\ Unborn /\ Requested /\ InOwnGroup /\ OwnQuorum

\* The group is that of the previous quorum, or there was an error that will
\* be told to the lighthouse.
Good(i) == pg[i] # None /\ pg[i].members = lighthouse.prev

WillFail(i) ==
  \/ pc[i] \in {"start", "waiting"} /\ failures[i]
  \/ pc[i] \in {"ready", "reduced"} /\ errored[i]

\* The group is that of the replica's own quorum.
Fits(i) == pg[i] # None /\ pg[i].members = quorum[i].members

GroupedAt(i) ==
  /\ pc[i] \in {"waiting", "quorum", "recover", "heal", "posted"} => ~errored[i]
  /\ pc[i] \in {"recover", "heal", "ready", "posted"} /\ ~errored[i] => Fits(i)
  /\ pc[i] = "quorum" /\ quorumId[i] = quorum[i].id => Fits(i)
  /\ quorumId[i] <= lighthouse.id
  /\ quorumId[i] = lighthouse.id => Good(i) \/ WillFail(i)
  /\ pc[i] \in Active =>
       /\ quorum[i].id <= lighthouse.id
       /\ quorum[i].id = lighthouse.id => quorum[i].members = lighthouse.prev
       /\ i \in quorum[i].members

Grouped == \A i \in Alive : GroupedAt(i)

GroupInv == Standing /\ Grouped

LEMMA InitGroup == Init => GroupInv
  <1> SUFFICES ASSUME Init
               PROVE  GroupInv
    OBVIOUS
  <1>1. Lineage
    BY NextLife DEF Init, Lineage
  <1>2. Requested /\ InOwnGroup
    BY DEF Init, Requested, InOwnGroup, Alive
  <1>4. Unborn
    <2>1. \A i \in Ids : ~InitSync => weights[i] = <<>>
      BY DEF Init
    <2> QED
      BY <2>1 DEF Init, Unborn
  <1>3. Grouped /\ OwnQuorum
    BY DEF Init, Grouped, GroupedAt, OwnQuorum, Alive, Active
  <1> QED
    BY <1>1, <1>2, <1>3, <1>4, InitType DEF GroupInv, Standing

LEMMA NextLineage ==
  ASSUME Standing, Next
  PROVE  Lineage'
  <1> USE DEF Standing
  <1>0. ASSUME \A k \in Ids : pc'[k] \in {"unborn", "dead"} => pc'[k] = pc[k],
               \A k \in Ids : pc[k] \in {"unborn", "dead"} => pc'[k] = pc[k]
        PROVE  Lineage'
    BY <1>0, NextLife DEF Lineage
  <1>1. ASSUME NEW S \in SUBSET Registered, FormQuorum(S)
        PROVE  Lineage'
    BY <1>0, <1>1, FormLives DEF FormQuorum, Alive
  <1>2. CASE RestartLighthouse
    BY <1>0, <1>2 DEF RestartLighthouse
  <1>3. ASSUME NEW G \in {pg[i] : i \in Ids}, CollectiveEnds(G)
        PROVE  Lineage'
    BY <1>0, <1>3, CollectiveLives DEF CollectiveEnds
  <1>4. ASSUME NEW i \in Ids, Replica(i)
        PROVE  Lineage'
    <2>1. \A k \in Ids \ {i} : pc'[k] = pc[k]
      BY <1>4, ReplicaFrame DEF Same
    <2>2. pc[i] \notin {"unborn", "dead"}
      BY <1>4, ReplicaLives DEF Alive
    <2> QED
      BY <1>0, <1>4, <2>1, <2>2, ReplicaLives
  <1>5. ASSUME NEW i \in Ids, Crash(i)
        PROVE  Lineage'
    <2>1. /\ i + 1 \in Ids /\ pc'[i] = "dead" /\ i % Lives # Lives - 1
          /\ pc[i] # "dead" /\ pc[i] # "unborn" /\ pc[i + 1] = "unborn"
          /\ \A k \in Ids \ {i, i + 1} : pc'[k] = pc[k]
      <3>1. /\ i + 1 \in Ids /\ pc'[i] = "dead" /\ i \in Alive
            /\ \A k \in Ids \ {i, i + 1} : Same(k)
        BY <1>5, CrashFrame
      <3>2. i % Lives # Lives - 1
        BY <1>5 DEF Crash
      <3> QED
        BY <3>1, <3>2 DEF Alive, Lineage, Same
    <2> SUFFICES ASSUME NEW k \in Ids, k % Lives # Lives - 1, pc'[k] # "dead"
                 PROVE  pc'[k + 1] = "unborn"
      BY DEF Lineage
    <2>2. k # i /\ pc[k] # "dead"
      BY <2>1
    <2>3. pc[k + 1] = "unborn" /\ k + 1 \in Ids
      BY <2>2, NextLife DEF Lineage
    <2>4. k + 1 # i
      BY <2>1, <2>3
    <2>5. k + 1 # i + 1
      BY <2>2, IdsFinite
    <2> QED
      BY <2>1, <2>3, <2>4, <2>5
  <1> QED
    BY <1>1, <1>2, <1>3, <1>4, <1>5 DEF Next

LEMMA NextUnborn ==
  ASSUME Standing, Next
  PROVE  Unborn'
  <1> USE DEF Standing
  <1>1. ASSUME NEW S \in SUBSET Registered, FormQuorum(S)
        PROVE  Unborn'
    <2> SUFFICES ASSUME NEW k \in Ids, pc'[k] = "unborn"
                 PROVE  /\ step'[k] = 0 /\ quorumId'[k] = -1 /\ ~failures'[k] /\ ~healing'[k]
                        /\ pending'[k] = None /\ serving'[k] = None /\ pg'[k] = None
                        /\ ~InitSync => weights'[k] = <<>>
                        /\ lighthouse'.requests[k] = None
                        /\ lighthouse'.prev # None => k \notin lighthouse'.prev
      BY DEF Unborn
    <2>1. pc[k] = "unborn"
      BY <1>1, FormLives
    <2>2. k \notin S
      BY <2>1 DEF Unborn, Registered
    <2>3. lighthouse'.requests[k] = None /\ lighthouse'.prev = S
      BY <1>1 DEF FormQuorum
    <2> QED
      BY <1>1, <2>1, <2>2, <2>3 DEF FormQuorum, local, Unborn
  <1>2. CASE RestartLighthouse
    BY <1>2 DEF RestartLighthouse, local, Unborn
  <1>3. ASSUME NEW G \in {pg[i] : i \in Ids}, CollectiveEnds(G)
        PROVE  Unborn'
    BY <1>3, CollectiveLives DEF CollectiveEnds, Unborn
  <1>4. ASSUME NEW i \in Ids, Replica(i)
        PROVE  Unborn'
    <2>1. pc'[i] # "unborn"
      BY <1>4, ReplicaLives
    <2>2. SameLighthouse /\ \A k \in Ids \ {i} : Same(k)
      BY <1>4, ReplicaFrame
    <2> QED
      BY <2>1, <2>2 DEF Same, SameLighthouse, Unborn
  <1>5. ASSUME NEW i \in Ids, Crash(i)
        PROVE  Unborn'
    <2>1. /\ pc'[i] # "unborn" /\ i + 1 \in Ids /\ pc'[i + 1] # "unborn"
          /\ lighthouse' = lighthouse
          /\ \A k \in Ids \ {i, i + 1} : Same(k)
      BY <1>5, CrashFrame
    <2> QED
      BY <2>1 DEF Same, Unborn
  <1> QED
    BY <1>1, <1>2, <1>3, <1>4, <1>5 DEF Next

LEMMA NextRequested ==
  ASSUME Standing, Next
  PROVE  Requested'
  <1> USE DEF Standing
  <1>1. ASSUME NEW S \in SUBSET Registered, FormQuorum(S)
        PROVE  Requested'
    BY <1>1, FormLives DEF FormQuorum, Requested, Alive
  <1>2. CASE RestartLighthouse
    BY <1>2 DEF RestartLighthouse, Requested, Alive
  <1>3. ASSUME NEW G \in {pg[i] : i \in Ids}, CollectiveEnds(G)
        PROVE  Requested'
    <2>1. \A m \in G.members : pc[m] = "posted"
      BY <1>3 DEF CollectiveEnds
    <2>2. \A k \in Ids : pc[k] = "waiting" => pc'[k] = "waiting"
      BY <1>3, <2>1 DEF CollectiveEnds
    <2> QED
      BY <1>3, <2>2, CollectiveLives DEF CollectiveEnds, Requested, Alive
  <1>4. ASSUME NEW i \in Ids, Replica(i)
        PROVE  Requested'
    <2>1. \A k \in Alive \ {i} : Same(k)
      BY <1>4, ReplicaFrame DEF Alive
    <2>2. lighthouse'.requests[i] # None =>
            /\ pc'[i] = "waiting"
            /\ lighthouse'.requests[i].step = step'[i]
            /\ lighthouse'.requests[i].failed = failures'[i]
      <3>1. i \in Alive
        BY <1>4, ReplicaLives
      <3>2. /\ pc[i] # "waiting" => lighthouse.requests[i] = None
            /\ Request(i).requests[i] = [step |-> step[i], failed |-> failures[i]]
        BY <3>1 DEF Requested, Request, TypeOK
      <3>3. CASE StartQuorum(i) \/ RetryQuorum(i) \/ MissQuorum(i)
        BY <3>2, <3>3 DEF StartQuorum, RetryQuorum, MissQuorum, local, TypeOK
      <3>4. CASE Configure(i) \/ Recover(i) \/ ReceiveCheckpoint(i) \/ HealFails(i) \/ Allreduce(i)
        BY <3>2, <3>4 DEF Configure, Recover, ReceiveCheckpoint, HealFails, Allreduce
      <3>5. CASE CollectiveTimesOut(i) \/ ShouldCommit(i)
        BY <3>2, <3>5 DEF CollectiveTimesOut, ShouldCommit
      <3> QED
        BY <1>4, <3>3, <3>4, <3>5 DEF Replica
    <2> QED
      BY <1>4, <2>1, <2>2, ReplicaLives DEF Same, Requested
  <1>5. ASSUME NEW i \in Ids, Crash(i)
        PROVE  Requested'
    <2>1. pc[i + 1] = "unborn" /\ i + 1 \in Ids
      BY <1>5, CrashFrame DEF Crash, Lineage, Alive
    <2>2. lighthouse'.requests[i + 1] = None
      BY <1>5, <2>1, CrashFrame DEF Unborn
    <2>3. /\ Alive' = (Alive \ {i}) \cup {i + 1} /\ Alive \subseteq Ids
          /\ \A k \in Ids \ {i, i + 1} : Same(k)
      BY <1>5, CrashFrame DEF Alive
    <2>4. \A k \in Alive \ {i, i + 1} : Same(k)
      BY <2>3
    <2>5. \A k \in Alive' : k = i + 1 \/ k \in Alive \ {i, i + 1}
      BY <2>3
    <2> SUFFICES ASSUME NEW k \in Alive', lighthouse'.requests[k] # None
                 PROVE  /\ pc'[k] = "waiting"
                        /\ lighthouse'.requests[k].step = step'[k]
                        /\ lighthouse'.requests[k].failed = failures'[k]
      BY DEF Requested
    <2>6. k \in Alive /\ Same(k)
      BY <2>2, <2>4, <2>5
    <2> QED
      BY <2>6 DEF Same, Requested
  <1> QED
    BY <1>1, <1>2, <1>3, <1>4, <1>5 DEF Next

LEMMA NextInOwnGroup ==
  ASSUME Standing, Next
  PROVE  InOwnGroup'
  <1> USE DEF Standing
  <1>1. CASE UNCHANGED pg
    BY <1>1 DEF InOwnGroup
  <1>2. ASSUME NEW i \in Ids, Configure(i)
        PROVE  InOwnGroup'
    <2>1. i \in quorum[i].members
      BY <1>2 DEF Configure, OwnQuorum, Alive, Active
    <2>2. \/ pg' = pg \/ pg' = [pg EXCEPT ![i] = Group(i)] \/ pg' = [pg EXCEPT ![i] = None]
      BY <1>2 DEF Configure
    <2>3. Group(i).members = quorum[i].members
      BY DEF Group
    <2> QED
      BY <2>1, <2>2, <2>3 DEF InOwnGroup, TypeOK
  <1>3. CASE \E i \in Ids : Crash(i) \/ (Replica(i) /\ ~Configure(i))
    BY <1>1, <1>3 DEF Crash, Replica, StartQuorum, RetryQuorum, MissQuorum, Recover,
         ReceiveCheckpoint, HealFails, Allreduce, CollectiveTimesOut, ShouldCommit, local
  <1>4. CASE \/ \E S \in SUBSET Registered : FormQuorum(S)
             \/ RestartLighthouse
             \/ \E G \in {pg[i] : i \in Ids} : CollectiveEnds(G)
    BY <1>1, <1>4 DEF FormQuorum, RestartLighthouse, CollectiveEnds, local
  <1> QED
    BY <1>2, <1>3, <1>4 DEF Next, Replica

LEMMA NextOwnQuorum ==
  ASSUME Standing, Next
  PROVE  OwnQuorum'
  <1> USE DEF Standing
  <1> DEFINE At(k) ==
        /\ pc[k] \in {"waiting", "quorum", "recover", "heal", "posted"} => ~errored[k]
        /\ pc[k] \in Active => k \in quorum[k].members
  <1>0. (\A k \in Alive : At(k)) /\ Alive \subseteq Ids
    BY DEF OwnQuorum, Alive
  <1>a. ASSUME NEW k \in Alive, Same(k)
        PROVE  At(k)'
    BY <1>0, <1>a DEF Same
  <1>b. ASSUME \A k \in Alive' : At(k)'
        PROVE  OwnQuorum'
    BY <1>b DEF OwnQuorum
  <1>1. ASSUME NEW S \in SUBSET Registered, FormQuorum(S)
        PROVE  OwnQuorum'
    <2>1. /\ Alive' = Alive /\ errored' = errored
          /\ \A k \in Ids : pc'[k] = IF k \in S \cap Alive THEN "quorum" ELSE pc[k]
          /\ \A k \in Ids \ (S \cap Alive) : quorum'[k] = quorum[k]
      BY <1>1, FormLives DEF FormQuorum, local
    <2>2. ASSUME NEW k \in S \cap Alive
          PROVE  At(k)'
      <3>1. /\ \A s : s = StepsOf(S) => quorum'[k].members = DOMAIN s
            /\ DOMAIN StepsOf(S) = S
        BY <1>1, AnswersFit DEF AnswerTo, StepsOf
      <3>2. quorum'[k].members = S
        BY <3>1
      <3>3. pc[k] = "waiting"
        BY <1>0, <1>1 DEF Registered, Requested
      <3>4. ~errored[k]
        BY <1>0, <3>3
      <3> QED
        BY <1>0, <2>1, <3>2, <3>4
    <2>3. ASSUME NEW k \in Alive, k \notin S
          PROVE  At(k)'
      BY <1>0, <2>1, <2>3
    <2> QED
      BY <1>b, <2>1, <2>2, <2>3
  <1>2. CASE RestartLighthouse
    BY <1>2 DEF RestartLighthouse, OwnQuorum, Alive, local
  <1>3. ASSUME NEW G \in {pg[i] : i \in Ids}, CollectiveEnds(G)
        PROVE  OwnQuorum'
    <2>1. /\ quorum' = quorum /\ Alive' = Alive
          /\ \A m \in G.members : pc[m] = "posted"
          /\ \A k \in Ids : pc'[k] = IF k \in G.members THEN "reduced" ELSE pc[k]
      BY <1>3, CollectiveLives DEF CollectiveEnds
    <2>2. \A k \in Ids : k \notin G.members => errored'[k] = errored[k]
      BY <1>3 DEF CollectiveEnds
    <2>3. ASSUME NEW k \in Alive
          PROVE  At(k)'
      BY <1>0, <2>1, <2>2 DEF Active
    <2> QED
      BY <1>b, <2>1, <2>3
  <1>4. ASSUME NEW i \in Ids, Replica(i)
        PROVE  OwnQuorum'
    <2>1. /\ Alive' = Alive /\ i \in Alive /\ quorum' = quorum
          /\ pc'[i] \in Active => pc[i] \in Active
          /\ \A k \in Ids \ {i} : Same(k)
      BY <1>4, ReplicaFrame, ReplicaLives
    <2>2. pc'[i] \in {"waiting", "quorum", "recover", "heal", "posted"} => ~errored'[i]
      <3>1. pc[i] \in {"waiting", "quorum", "recover", "heal", "posted"} => ~errored[i]
        BY <1>0, <2>1
      <3> QED
        BY <1>4, <3>1 DEF Replica, StartQuorum, RetryQuorum, MissQuorum, Configure, Recover,
           ReceiveCheckpoint, HealFails, Allreduce, CollectiveTimesOut, ShouldCommit, TypeOK, local
    <2>3. At(i)'
      BY <1>0, <2>1, <2>2
    <2>4. ASSUME NEW k \in Alive, k # i
          PROVE  At(k)'
      BY <1>0, <1>a, <2>1, <2>4
    <2> QED
      BY <1>b, <2>1, <2>3, <2>4
  <1>5. ASSUME NEW i \in Ids, Crash(i)
        PROVE  OwnQuorum'
    <2>1. /\ pc'[i + 1] = "start" /\ Alive' = (Alive \ {i}) \cup {i + 1}
          /\ \A k \in Ids \ {i, i + 1} : Same(k)
      BY <1>5, CrashFrame
    <2>2. At(i + 1)'
      BY <2>1 DEF Active
    <2>3. ASSUME NEW k \in Alive, k \notin {i, i + 1}
          PROVE  At(k)'
      BY <1>0, <1>a, <2>1, <2>3
    <2> QED
      BY <1>b, <2>1, <2>2, <2>3
  <1> QED
    BY <1>1, <1>2, <1>3, <1>4, <1>5 DEF Next

LEMMA NextStanding ==
  ASSUME Standing, [Next]_vars
  PROVE  Standing'
  <1>1. CASE UNCHANGED vars
    BY <1>1, NextType DEF Standing, vars, local, Lineage, Unborn, Requested, InOwnGroup, OwnQuorum, Alive
  <1>2. CASE Next
    BY <1>2, NextType, NextLineage, NextUnborn, NextRequested, NextInOwnGroup, NextOwnQuorum DEF Standing
  <1> QED
    BY <1>1, <1>2

\* A member's group fits, when the id of the new quorum is the one it has.
LEMMA KeepsGroup ==
  ASSUME GroupInv, NEW S, FormQuorum(S), NEW k \in S \cap Alive, quorumId[k] = QuorumIdFor(S)
  PROVE  pg[k] # None /\ pg[k].members = S
  <1> USE DEF GroupInv, Standing
  <1>1. k \in Ids /\ k \in S /\ lighthouse.requests[k] # None
    BY DEF FormQuorum, MayForm, Registered, Alive
  <1>2. pc[k] = "waiting" /\ lighthouse.requests[k].failed = failures[k]
    BY <1>1 DEF Requested
  <1>3. GroupedAt(k)
    BY DEF Grouped
  <1>4. lighthouse.id \in Nat /\ quorumId[k] <= lighthouse.id /\ quorumId[k] \in Int
    BY <1>1, <1>3 DEF TypeOK, GroupedAt
  <1>5. QuorumIdFor(S) # lighthouse.id + 1
    BY <1>4
  <1>6. /\ lighthouse.prev = S /\ QuorumIdFor(S) = lighthouse.id
        /\ ~ lighthouse.requests[k].failed
    BY <1>1, <1>5 DEF QuorumIdFor
  <1>7. ~WillFail(k)
    BY <1>2, <1>6 DEF WillFail
  <1> QED
    BY <1>3, <1>6, <1>7 DEF GroupedAt, Good

LEMMA FormGrouped ==
  ASSUME GroupInv, NEW S, FormQuorum(S)
  PROVE  Grouped'
  <1> USE DEF GroupInv, Standing
  <1>0. MayForm(S) /\ S \in SUBSET Ids /\ S \subseteq Registered
    BY DEF FormQuorum, MayForm, Registered
  <1>1. /\ lighthouse'.id = QuorumIdFor(S) /\ lighthouse'.prev = S
        /\ UNCHANGED local /\ Alive' = Alive /\ Alive \subseteq Ids
        /\ \A k \in Ids : pc'[k] = IF k \in S \cap Alive THEN "quorum" ELSE pc[k]
        /\ \A k \in Ids \ (S \cap Alive) : quorum'[k] = quorum[k]
    BY FormLives DEF FormQuorum, Alive
  <1>2. lighthouse.id \in Nat /\ QuorumIdFor(S) \in Nat /\ lighthouse.id <= QuorumIdFor(S)
    BY DEF TypeOK, QuorumIdFor
  <1>3. QuorumIdFor(S) = lighthouse.id => lighthouse.prev = S
    BY <1>2 DEF QuorumIdFor
  <1> SUFFICES ASSUME NEW k \in Alive
               PROVE  GroupedAt(k)'
    BY <1>1 DEF Grouped
  <1>4. GroupedAt(k) /\ k \in Ids
    BY <1>1 DEF Grouped
  <1>5. quorumId[k] \in Int /\ quorumId[k] <= lighthouse.id /\ quorumId[k] <= QuorumIdFor(S)
    BY <1>2, <1>4 DEF GroupedAt, TypeOK
  <1>6. CASE k \in S
    <2>1. /\ quorum'[k].id = QuorumIdFor(S)
          /\ quorum'[k].members = S
      <3>1. \A s : s = StepsOf(S) =>
              quorum'[k].id = QuorumIdFor(S) /\ quorum'[k].members = DOMAIN s
        BY <1>6, AnswersFit DEF AnswerTo
      <3>2. DOMAIN StepsOf(S) = S
        BY DEF StepsOf
      <3> QED
        BY <3>1, <3>2
    <2>2. quorumId[k] = QuorumIdFor(S) => pg[k] # None /\ pg[k].members = S
      BY <1>6, KeepsGroup
    <2>3. ~errored[k]
      BY <1>0, <1>4, <1>6 DEF Registered, Requested, GroupedAt
    <2>4. pc'[k] = "quorum"
      BY <1>1, <1>4, <1>6
    <2> QED
      BY <1>1, <1>2, <1>4, <1>5, <1>6, <2>1, <2>2, <2>3, <2>4
      DEF GroupedAt, Good, Fits, local
  <1>7. CASE k \notin S
    <2>1. pc'[k] = pc[k] /\ quorum'[k] = quorum[k]
      BY <1>1, <1>4, <1>7
    <2>2. quorumId[k] = QuorumIdFor(S) => quorumId[k] = lighthouse.id /\ lighthouse.prev = S
      BY <1>2, <1>3, <1>5
    <2>3. pc[k] \in Active =>
            /\ quorum[k].id <= QuorumIdFor(S)
            /\ quorum[k].id = QuorumIdFor(S) => quorum[k].members = S
            /\ k \in quorum[k].members
      <3>1. pc[k] \in Active => quorum[k].id \in Nat
        BY <1>4 DEF TypeOK, Typed
      <3>2. pc[k] \in Active =>
               /\ quorum[k].id <= lighthouse.id
               /\ quorum[k].id = lighthouse.id => quorum[k].members = lighthouse.prev
               /\ k \in quorum[k].members
        BY <1>4 DEF GroupedAt
      <3> QED
        BY <1>2, <1>3, <3>1, <3>2
    <2> QED
      BY <1>1, <1>4, <1>5, <2>1, <2>2, <2>3 DEF GroupedAt, Good, WillFail, Fits, local
  <1> QED
    BY <1>6, <1>7

LEMMA CollectiveGrouped ==
  ASSUME GroupInv, NEW G, CollectiveEnds(G)
  PROVE  Grouped'
  <1> USE DEF GroupInv, Standing
  <1>1. /\ \A m \in G.members : pc[m] = "posted"
        /\ lighthouse' = lighthouse /\ quorum' = quorum /\ pg' = pg /\ quorumId' = quorumId
        /\ failures' = failures /\ Alive' = Alive /\ Alive \subseteq Ids
        /\ \A k \in Ids : pc'[k] = IF k \in G.members THEN "reduced" ELSE pc[k]
        /\ \A k \in Ids \ G.members : errored'[k] = errored[k]
    <2>1. PICK Ok \in SUBSET G.members :
            errored' = [k \in Ids |-> IF k \in G.members \ Ok THEN TRUE ELSE errored[k]]
      BY DEF CollectiveEnds
    <2>2. \A k \in Ids \ G.members : errored'[k] = errored[k]
      BY <2>1
    <2> QED
      BY <2>2, CollectiveLives DEF CollectiveEnds, Alive
  <1> SUFFICES ASSUME NEW k \in Alive
               PROVE  GroupedAt(k)'
    BY <1>1 DEF Grouped
  <1>2. GroupedAt(k) /\ k \in Ids
    BY <1>1 DEF Grouped
  <1>3. CASE k \in G.members
    <2>1. pc[k] = "posted" /\ pc'[k] = "reduced"
      BY <1>1, <1>2, <1>3
    <2> QED
      BY <1>1, <1>2, <2>1 DEF GroupedAt, Good, WillFail, Active
  <1>4. CASE k \notin G.members
    BY <1>1, <1>2, <1>4 DEF GroupedAt, Good, WillFail, Fits
  <1> QED
    BY <1>3, <1>4

LEMMA ReplicaGrouped ==
  ASSUME GroupInv, NEW i \in Ids, Replica(i)
  PROVE  Grouped'
  <1> USE DEF GroupInv, Standing
  <1>1. SameLighthouse /\ quorum' = quorum /\ \A k \in Ids \ {i} : Same(k)
    BY ReplicaFrame
  <1>2. Alive' = Alive /\ i \in Alive /\ Alive \subseteq Ids
    BY ReplicaLives DEF Alive
  <1>3. ASSUME NEW k \in Alive, k # i
        PROVE  GroupedAt(k)'
    <2>1. GroupedAt(k) /\ Same(k)
      BY <1>1, <1>2, <1>3 DEF Grouped
    <2> QED
      BY <1>1, <2>1 DEF GroupedAt, Same, SameLighthouse, Good, WillFail, Fits
  <1>4. GroupedAt(i)
    BY <1>2 DEF Grouped
  <1>5. GroupedAt(i)'
    <2> USE <1>1, <1>4
    <2> USE DEF GroupedAt, Good, WillFail, Fits, SameLighthouse, Active, TypeOK
    <2>1. CASE StartQuorum(i)
      BY <2>1 DEF StartQuorum
    <2>2. CASE RetryQuorum(i)
      BY <2>2 DEF RetryQuorum, local
    <2>3. CASE MissQuorum(i)
      BY <2>3 DEF MissQuorum, local
    <2>4. CASE Configure(i)
      <3>1. quorum[i].id \in Nat /\ quorum[i].members \in SUBSET Ids /\ quorum[i].store \in Nat
        BY <2>4 DEF Configure, Typed
      <3>2. Group(i) # None /\ Group(i).members = quorum[i].members
        BY <3>1, NoneAssumption DEF Group, Groups
      <3>3. CASE /\ quorum[i].id = quorumId[i]
                 /\ pc' = [pc EXCEPT ![i] = "recover"]
                 /\ UNCHANGED <<quorumId, pg, errored, faults>>
        BY <2>4, <3>3 DEF Configure
      <3>4. CASE /\ quorum[i].id # quorumId[i]
                 /\ quorumId' = [quorumId EXCEPT ![i] = quorum[i].id]
                 /\ pg' = [pg EXCEPT ![i] = Group(i)]
                 /\ pc' = [pc EXCEPT ![i] = "recover"]
                 /\ UNCHANGED <<errored, faults>>
        <4>1. quorumId'[i] = quorum[i].id /\ pg'[i] = Group(i) /\ pc'[i] = "recover" /\ errored' = errored
          BY <3>4
        <4>2. pc[i] = "quorum" /\ failures' = failures
          BY <2>4 DEF Configure
        <4> QED
          BY <3>1, <3>2, <4>1, <4>2
      <3>5. CASE /\ quorum[i].id # quorumId[i]
                 /\ Fault
                 /\ quorumId' = [quorumId EXCEPT ![i] = quorum[i].id]
                 /\ pg' = [pg EXCEPT ![i] = None]
                 /\ errored' = [errored EXCEPT ![i] = TRUE]
                 /\ pc' = [pc EXCEPT ![i] = "ready"]
        BY <2>4, <3>1, <3>5 DEF Configure
      <3> QED
        BY <2>4, <3>3, <3>4, <3>5 DEF Configure
    <2>5. CASE Recover(i)
      BY <2>5 DEF Recover
    <2>6. CASE ReceiveCheckpoint(i)
      BY <2>6 DEF ReceiveCheckpoint
    <2>7. CASE HealFails(i)
      BY <2>7 DEF HealFails
    <2>8. CASE Allreduce(i)
      BY <2>8 DEF Allreduce, local
    <2>9. CASE CollectiveTimesOut(i)
      BY <2>9 DEF CollectiveTimesOut
    <2>10. CASE ShouldCommit(i)
      BY <2>10 DEF ShouldCommit
    <2> QED
      BY <2>1, <2>2, <2>3, <2>4, <2>5, <2>6, <2>7, <2>8, <2>9, <2>10 DEF Replica
  <1> QED
    BY <1>2, <1>3, <1>5 DEF Grouped

LEMMA CrashGrouped ==
  ASSUME GroupInv, NEW i \in Ids, Crash(i)
  PROVE  Grouped'
  <1> USE DEF GroupInv, Standing
  <1>1. /\ i + 1 \in Ids /\ pc[i + 1] = "unborn" /\ pc'[i + 1] = "start"
        /\ lighthouse' = lighthouse /\ quorumId' = quorumId
        /\ \A k \in Ids \ {i, i + 1} : Same(k)
        /\ Alive' = (Alive \ {i}) \cup {i + 1}
    <2>1. pc[i + 1] = "unborn"
      BY CrashFrame DEF Crash, Lineage, Alive
    <2> QED
      BY <2>1, CrashFrame
  <1>2. lighthouse.id \in Nat
    BY DEF TypeOK
  <1>3. GroupedAt(i + 1)'
    <2>1. quorumId[i + 1] = -1
      BY <1>1 DEF Unborn
    <2> QED
      BY <1>1, <1>2, <2>1 DEF GroupedAt, Active
  <1>4. ASSUME NEW k \in Alive, k \notin {i, i + 1}
        PROVE  GroupedAt(k)'
    <2>1. GroupedAt(k) /\ Same(k)
      BY <1>1, <1>4 DEF Grouped, Alive
    <2> QED
      BY <1>1, <2>1 DEF GroupedAt, Same, Good, WillFail, Fits
  <1> QED
    BY <1>1, <1>3, <1>4 DEF Grouped

LEMMA NextGroup ==
  ASSUME GroupInv, [Next]_vars, ~RestartLighthouse
  PROVE  GroupInv'
  <1>1. CASE UNCHANGED vars
    BY <1>1, NextStanding DEF GroupInv, vars, local, Grouped, GroupedAt, Good, WillFail, Fits, Alive
  <1>2. CASE Next
    <2>1. Grouped'
      BY <1>2, FormGrouped, CollectiveGrouped, ReplicaGrouped, CrashGrouped DEF Next
    <2> QED
      BY <1>2, <2>1, NextStanding DEF GroupInv
  <1> QED
    BY <1>1, <1>2

LEMMA GroupInvSuffices == GroupInv => GroupIsQuorum
  BY DEF GroupInv, Grouped, GroupedAt, GroupIsQuorum, Fits

\* "ProcessGroup will be in a healthy state after this returns" (manager.py:622):
\* unless it reported an error, a replica reduces in a group of the members of
\* its quorum, and of nobody else.
THEOREM GroupsFollowQuorums ==
  ASSUME ~LighthouseFaults
  PROVE  Spec => []GroupIsQuorum
  <1>1. GroupInv /\ [Next]_vars => GroupInv'
    BY NextGroup DEF RestartLighthouse
  <1> QED
    BY <1>1, InitGroup, GroupInvSuffices, PTL DEF Spec

-----------------------------------------------------------------------------
(* Averages *)

\* So many replicas are at the first k places.
LEMMA FirstPlaces ==
  ASSUME NEW T \in SUBSET Nat, IsFiniteSet(T), NEW k \in Nat
  PROVE  Cardinality({m \in T : IndexIn(T, m) < k})
           = IF Cardinality(T) > k THEN k ELSE Cardinality(T)
  <1> DEFINE c == Cardinality(T)
             A == {m \in T : IndexIn(T, m) < k}
             n == IF c > k THEN k ELSE c
             f == [m \in A |-> IndexIn(T, m)]
  <1>1. c \in Nat /\ IsFiniteSet(A)
    BY FS_CardinalityType, FS_Subset
  <1>2. \A m \in T : IndexIn(T, m) \in 0 .. (c - 1)
    BY IndexType
  <1>3. n \in Nat /\ \A x \in 0 .. (c - 1) : x < k <=> x \in 0 .. (n - 1)
    BY <1>1
  <1> HIDE DEF c, n
  <1>4. f \in [A -> 0 .. (n - 1)]
    BY <1>2, <1>3
  <1>5. \A x, y \in A : f[x] = f[y] => x = y
    BY IndexInjective
  <1>6. \A x \in 0 .. (n - 1) : \E m \in A : f[m] = x
    <2> SUFFICES ASSUME NEW x \in 0 .. (n - 1)
                 PROVE  \E m \in A : f[m] = x
      OBVIOUS
    <2>1. x \in 0 .. (c - 1) /\ x < k
      <3>1. n <= c /\ n <= k
        BY <1>1 DEF n
      <3> QED
        BY <1>1, <1>3, <3>1
    <2>2. PICK m \in T : IndexIn(T, m) = x
      BY <2>1, NthExists DEF c
    <2> QED
      BY <2>1, <2>2
  <1>7. f \in Bijection(A, 0 .. (n - 1))
    <2> HIDE DEF f, A
    <2> QED
      BY <1>4, <1>5, <1>6 DEF Bijection, Injection, Surjection, IsInjective
  <1>8. Cardinality(0 .. (n - 1)) = Cardinality(A)
    <2> HIDE DEF f, A
    <2> QED
      BY <1>1, <1>7, FS_Bijection DEF ExistsBijection
  <1>9. Cardinality(0 .. (n - 1)) = n
    <2>1. CASE n = 0
      <3>1. 0 .. (n - 1) = {}
        BY <2>1
      <3> QED
        BY <2>1, <3>1, FS_EmptySet
    <2>2. CASE n # 0
      BY <1>3, <2>2, FS_Interval
    <2> QED
      BY <2>1, <2>2
  <1> QED
    BY <1>8, <1>9 DEF c, n

\* The number of participants, in every answer to a quorum at the steps s.
Size(s) ==
  IF FixedWithSpares /\ Cardinality(MaxParticipants(s)) > MinReplicas
  THEN MinReplicas ELSE Cardinality(MaxParticipants(s))

LEMMA SizeFits ==
  ASSUME NEW s, NEW i, AnswerTo(i, s)
  PROVE  NumParticipants(i) = Size(s)
  BY DEF AnswerTo, NumParticipants, Size

\* Without init_sync, those that take part are as many as all divide by, in any
\* group that has those up to date.
LEMMA ParticipantsCounted ==
  ASSUME ~InitSync, NEW s, IsQuorum(s), NEW S, MaxParticipants(s) \subseteq S, S \subseteq DOMAIN s,
         \A m \in S : AnswerTo(m, s) /\ (healing[m] <=> quorum[m].heal)
  PROVE  Cardinality({m \in S : Participating(m)}) = Size(s)
  <1> DEFINE T == MaxParticipants(s)
  <1>1. T \subseteq S /\ T \in SUBSET Nat /\ IsFiniteSet(T) /\ Cardinality(T) \in Nat
    BY MaxStepFits
  <1>2. \A m \in T : IndexIn(T, m) \in 0 .. (Cardinality(T) - 1)
    BY <1>1, IndexType
  <1>3. \A m \in DOMAIN s : m \in Recovering(s, 0, InitSync) <=> m \notin T
    BY DEF Recovering, MaxParticipants
  <1>4. \A m \in S : quorum[m].max_rank = IF m \in T THEN IndexIn(T, m) ELSE NoRank
    BY DEF AnswerTo
  <1>5. \A m \in S : healing[m] <=> m \notin T
    BY <1>3 DEF AnswerTo
  <1> HIDE DEF T
  <1>6. \A m \in T : IndexIn(T, m) # NoRank
    BY <1>1, <1>2, NoRankAssumption
  <1>7. \A m \in S : Participating(m) <=> m \in T /\ (FixedWithSpares => IndexIn(T, m) < MinReplicas)
    BY <1>1, <1>4, <1>5, <1>6 DEF Participating, HasRank
  <1>8. CASE FixedWithSpares
    <2>1. {m \in S : Participating(m)} = {m \in T : IndexIn(T, m) < MinReplicas}
      BY <1>1, <1>7, <1>8
    <2>2. MinReplicas \in Nat
      BY ProtocolAssumption
    <2> QED
      BY <1>1, <1>8, <2>1, <2>2, FirstPlaces DEF Size, T
  <1>9. CASE ~FixedWithSpares
    <2>1. {m \in S : Participating(m)} = T
      BY <1>1, <1>7, <1>9
    <2> QED
      BY <1>9, <2>1 DEF Size, T
  <1> QED
    BY <1>8, <1>9

\* All that work on a quorum of the same members have their answers from one
\* and the same quorum.
OneAnswer ==
  \A S : \E s : \A i \in Alive :
    pc[i] \in Active /\ quorum[i].members = S => IsQuorum(s) /\ AnswerTo(i, s)

HealingFits ==
  \A i \in Alive :
    /\ pc[i] \in {"waiting", "quorum", "recover"} => ~healing[i]
    /\ pc[i] \in {"heal", "posted"} => (healing[i] <=> quorum[i].heal)
    /\ pc[i] = "ready" /\ ~errored[i] => (healing[i] <=> quorum[i].heal)

Answered == Standing /\ OneAnswer /\ HealingFits

LEMMA InitAnswer == Init => OneAnswer /\ HealingFits
  BY DEF Init, OneAnswer, HealingFits, Active, Alive

LEMMA NextOneAnswer ==
  ASSUME Answered, Next
  PROVE  OneAnswer'
  <1> USE DEF Answered, Standing
  <1>0. ASSUME quorum' = quorum,
               \A i \in Alive' : pc'[i] \in Active => i \in Alive /\ pc[i] \in Active
        PROVE  OneAnswer'
    <2> SUFFICES ASSUME NEW S
                 PROVE  \E s : \A i \in Alive' :
                          pc'[i] \in Active /\ quorum'[i].members = S => IsQuorum(s) /\ AnswerTo(i, s)'
      BY DEF OneAnswer
    <2>1. PICK s : \A i \in Alive :
            pc[i] \in Active /\ quorum[i].members = S => IsQuorum(s) /\ AnswerTo(i, s)
      BY DEF OneAnswer
    <2>2. \A i : AnswerTo(i, s)' <=> AnswerTo(i, s)
      BY <1>0 DEF AnswerTo
    <2>3. \A i \in Alive' :
            pc'[i] \in Active /\ quorum'[i].members = S => IsQuorum(s) /\ AnswerTo(i, s)'
      BY <1>0, <2>1, <2>2
    <2> QED
      BY <2>3
  <1>1. ASSUME NEW T \in SUBSET Registered, FormQuorum(T)
        PROVE  OneAnswer'
    <2>1. /\ MayForm(T) /\ Alive' = Alive /\ Alive \subseteq Ids
          /\ \A k \in Ids : pc'[k] = IF k \in T \cap Alive THEN "quorum" ELSE pc[k]
          /\ \A k \in Ids \ (T \cap Alive) : quorum'[k] = quorum[k]
      BY <1>1, FormLives DEF FormQuorum, Alive
    <2>2. IsQuorum(StepsOf(T)) /\ DOMAIN StepsOf(T) = T
      BY <2>1, StepsOfQuorum
    <2>3. \A s : s = StepsOf(T) => \A i \in T \cap Alive : AnswerTo(i, s)'
      BY <1>1, AnswersFit
    <2> SUFFICES ASSUME NEW S
                 PROVE  \E s : \A i \in Alive :
                          pc'[i] \in Active /\ quorum'[i].members = S => IsQuorum(s) /\ AnswerTo(i, s)'
      BY <2>1 DEF OneAnswer
    <2>4. CASE S = T
      <3>1. ASSUME NEW i \in Alive, pc'[i] \in Active, quorum'[i].members = S
            PROVE  i \in T
        <4> SUFFICES ASSUME i \notin T
                     PROVE  FALSE
          OBVIOUS
        <4>1. pc[i] \in Active /\ quorum[i].members = S
          BY <2>1, <3>1
        <4>2. i \in S
          BY <4>1 DEF OwnQuorum
        <4> QED
          BY <2>4, <4>2
      <3> QED
        BY <2>2, <2>3, <2>4, <3>1
    <2>5. CASE S # T
      <3>1. PICK s : \A i \in Alive :
              pc[i] \in Active /\ quorum[i].members = S => IsQuorum(s) /\ AnswerTo(i, s)
        BY DEF OneAnswer
      <3>2. ASSUME NEW i \in Alive, pc'[i] \in Active, quorum'[i].members = S
            PROVE  i \notin T
        <4> SUFFICES ASSUME i \in T
                     PROVE  FALSE
          OBVIOUS
        <4>1. \A x : x = StepsOf(T) => quorum'[i].members = DOMAIN x
          BY <2>3 DEF AnswerTo
        <4>2. quorum'[i].members = T
          BY <2>2, <4>1
        <4> QED
          BY <2>5, <3>2, <4>2
      <3>3. ASSUME NEW i \in Alive, pc'[i] \in Active, quorum'[i].members = S
            PROVE  IsQuorum(s) /\ AnswerTo(i, s)'
        <4>1. pc[i] \in Active /\ quorum'[i] = quorum[i]
          BY <2>1, <3>2, <3>3
        <4> QED
          BY <3>1, <3>3, <4>1 DEF AnswerTo
      <3> QED
        BY <3>3
    <2> QED
      BY <2>4, <2>5
  <1>2. CASE RestartLighthouse
    BY <1>0, <1>2 DEF RestartLighthouse, Alive
  <1>3. ASSUME NEW G \in {pg[i] : i \in Ids}, CollectiveEnds(G)
        PROVE  OneAnswer'
    <2>1. quorum' = quorum /\ Alive' = Alive
      BY <1>3, CollectiveLives DEF CollectiveEnds
    <2>2. \A i \in Ids : pc'[i] \in Active => pc[i] \in Active
      BY <1>3 DEF CollectiveEnds, Active
    <2> QED
      BY <1>0, <2>1, <2>2 DEF Alive
  <1>4. ASSUME NEW i \in Ids, Replica(i)
        PROVE  OneAnswer'
    <2>1. quorum' = quorum /\ Alive' = Alive
      BY <1>4, ReplicaFrame, ReplicaLives
    <2>2. \A k \in Ids : pc'[k] \in Active => pc[k] \in Active
      BY <1>4, ReplicaFrame, ReplicaLives DEF Same
    <2> QED
      BY <1>0, <2>1, <2>2 DEF Alive
  <1>5. ASSUME NEW i \in Ids, Crash(i)
        PROVE  OneAnswer'
    <2>1. /\ quorum' = quorum /\ pc'[i + 1] = "start" /\ Alive' = (Alive \ {i}) \cup {i + 1}
          /\ \A k \in Ids \ {i, i + 1} : pc'[k] = pc[k]
      BY <1>5, CrashFrame DEF Same
    <2>2. \A k \in Alive' : pc'[k] \in Active => k \in Alive /\ pc[k] \in Active
      BY <2>1 DEF Active, Alive
    <2> QED
      BY <1>0, <2>1, <2>2
  <1> QED
    BY <1>1, <1>2, <1>3, <1>4, <1>5 DEF Next

LEMMA NextHealing ==
  ASSUME Answered, Next
  PROVE  HealingFits'
  <1> USE DEF Answered, Standing
  <1>1. ASSUME NEW T \in SUBSET Registered, FormQuorum(T)
        PROVE  HealingFits'
    <2>1. /\ Alive' = Alive /\ Alive \subseteq Ids /\ healing' = healing /\ errored' = errored
          /\ \A k \in Ids : pc'[k] = IF k \in T \cap Alive THEN "quorum" ELSE pc[k]
          /\ \A k \in Ids \ (T \cap Alive) : quorum'[k] = quorum[k]
      BY <1>1, FormLives DEF FormQuorum, Alive, local
    <2>2. \A k \in T \cap Alive : pc[k] = "waiting"
      BY <1>1 DEF Requested, Registered
    <2> QED
      BY <2>1, <2>2 DEF HealingFits
  <1>2. CASE RestartLighthouse
    BY <1>2 DEF RestartLighthouse, HealingFits, Alive, local
  <1>3. ASSUME NEW G \in {pg[i] : i \in Ids}, CollectiveEnds(G)
        PROVE  HealingFits'
    <2>1. /\ quorum' = quorum /\ Alive' = Alive /\ healing' = healing /\ Alive \subseteq Ids
          /\ \A k \in Ids : pc'[k] = IF k \in G.members THEN "reduced" ELSE pc[k]
      BY <1>3, CollectiveLives DEF CollectiveEnds, Alive
    <2>2. \A k \in Ids : k \notin G.members => errored'[k] = errored[k]
      BY <1>3 DEF CollectiveEnds
    <2> QED
      BY <2>1, <2>2 DEF HealingFits
  <1>4. ASSUME NEW i \in Ids, Replica(i)
        PROVE  HealingFits'
    <2>1. /\ quorum' = quorum /\ Alive' = Alive /\ i \in Alive /\ Alive \subseteq Ids
          /\ \A k \in Ids \ {i} : Same(k)
      BY <1>4, ReplicaFrame, ReplicaLives DEF Alive
    <2>2. /\ pc'[i] \in {"waiting", "quorum", "recover"} => ~healing'[i]
          /\ pc'[i] \in {"heal", "posted"} => (healing'[i] <=> quorum[i].heal)
          /\ pc'[i] = "ready" /\ ~errored'[i] => (healing'[i] <=> quorum[i].heal)
      <3>1. /\ pc[i] \in {"waiting", "quorum", "recover"} => ~healing[i]
            /\ pc[i] \in {"heal", "posted"} => (healing[i] <=> quorum[i].heal)
            /\ pc[i] = "ready" /\ ~errored[i] => (healing[i] <=> quorum[i].heal)
        BY <2>1 DEF HealingFits
      <3>2. pc[i] \in Active => quorum[i].heal \in BOOLEAN
        BY DEF TypeOK, Typed
      <3> USE DEF TypeOK, Active
      <3>3. CASE StartQuorum(i) \/ RetryQuorum(i) \/ MissQuorum(i)
        BY <3>1, <3>3 DEF StartQuorum, RetryQuorum, MissQuorum, local
      <3>4. CASE Configure(i)
        BY <3>1, <3>4 DEF Configure
      <3>5. CASE Recover(i)
        <4>1. healing'[i] = quorum[i].heal
          BY <3>5 DEF Recover
        <4>2. pc'[i] \in {"heal", "ready"}
          BY <3>5 DEF Recover
        <4> QED
          BY <4>1, <4>2
      <3>6. CASE ReceiveCheckpoint(i) \/ HealFails(i) \/ Allreduce(i)
        BY <3>1, <3>6 DEF ReceiveCheckpoint, HealFails, Allreduce, local, OwnQuorum
      <3>7. CASE CollectiveTimesOut(i) \/ ShouldCommit(i)
        BY <3>1, <3>7 DEF CollectiveTimesOut, ShouldCommit
      <3> QED
        BY <1>4, <3>3, <3>4, <3>5, <3>6, <3>7 DEF Replica
    <2> QED
      BY <2>1, <2>2 DEF HealingFits, Same
  <1>5. ASSUME NEW i \in Ids, Crash(i)
        PROVE  HealingFits'
    <2>1. /\ quorum' = quorum /\ pc'[i + 1] = "start" /\ Alive' = (Alive \ {i}) \cup {i + 1}
          /\ \A k \in Ids \ {i, i + 1} : Same(k)
      BY <1>5, CrashFrame
    <2>2. \A k \in Alive' : k = i + 1 \/ (k \in Alive /\ Same(k))
      BY <2>1 DEF Alive
    <2> QED
      BY <2>1, <2>2 DEF HealingFits, Same
  <1> QED
    BY <1>1, <1>2, <1>3, <1>4, <1>5 DEF Next

LEMMA NextAnswered ==
  ASSUME Answered, [Next]_vars
  PROVE  Answered'
  <1>1. Standing'
    BY NextStanding DEF Answered
  <1>2. CASE UNCHANGED vars
    <2>1. HealingFits'
      BY <1>2 DEF Answered, HealingFits, Alive, vars, local
    <2>2. quorum' = quorum /\ pc' = pc /\ Alive' = Alive
      BY <1>2 DEF vars, Alive
    <2>3. \A i, s : AnswerTo(i, s)' <=> AnswerTo(i, s)
      BY <2>2 DEF AnswerTo
    <2>4. OneAnswer'
      BY <2>2, <2>3, Zenon DEF Answered, OneAnswer
    <2> QED
      BY <1>1, <2>1, <2>4 DEF Answered
  <1>3. CASE Next
    BY <1>1, <1>3, NextOneAnswer, NextHealing DEF Answered
  <1> QED
    BY <1>2, <1>3

\* A group all of whose members have their answers from one quorum, and that
\* has all that are up to date.
OneQuorum(G, s) ==
  /\ IsQuorum(s)
  /\ G.members \subseteq DOMAIN s
  /\ \A m \in G.members : AnswerTo(m, s)

WholeGroup(G, s) == OneQuorum(G, s) /\ MaxParticipants(s) \subseteq G.members

\* As long as the lighthouse does not restart, a collective that ends is one
\* of the members of a quorum.
LEMMA EndedGroup ==
  ASSUME Answered, Grouped, NEW G \in {pg[i] : i \in Ids}, CollectiveEnds(G)
  PROVE  \E s : WholeGroup(G, s)
  <1> USE DEF Answered, Standing
  <1>1. \A m \in G.members : pc[m] = "posted" /\ pg[m] = G
    BY DEF CollectiveEnds
  <1>2. G.members \subseteq Alive
    <2>1. G \in Groups
      BY DEF TypeOK, CollectiveEnds
    <2> QED
      BY <1>1, <2>1 DEF Alive, Groups
  <1>3. \A m \in G.members : pc[m] \in Active /\ quorum[m].members = G.members
    BY <1>1, <1>2 DEF Grouped, GroupedAt, Fits, Active
  <1>4. PICK s : \A i \in Alive :
          pc[i] \in Active /\ quorum[i].members = G.members => IsQuorum(s) /\ AnswerTo(i, s)
    BY DEF OneAnswer
  <1>5. G.members # {}
    BY DEF CollectiveEnds, InOwnGroup
  <1>6. IsQuorum(s) /\ DOMAIN s = G.members /\ \A m \in G.members : AnswerTo(m, s)
    BY <1>2, <1>3, <1>4, <1>5 DEF AnswerTo
  <1>7. MaxParticipants(s) \subseteq G.members
    BY <1>6 DEF MaxParticipants
  <1> QED
    BY <1>6, <1>7 DEF WholeGroup, OneQuorum

LEMMA NextAverages ==
  ASSUME ~InitSync, Answered, AveragesParticipants, Next,
         \A G \in {pg[i] : i \in Ids} : CollectiveEnds(G) => \E s : WholeGroup(G, s)
  PROVE  AveragesParticipants'
  <1> USE DEF Answered, Standing
  <1> DEFINE At(k) == pc[k] = "reduced" /\ ~errored[k] => NumParticipants(k) = Cardinality(reduced[k])
  <1>0. \A k \in Alive : At(k)
    BY DEF AveragesParticipants
  <1>1. ASSUME NEW k \in Ids, k \in Alive, Same(k)
        PROVE  At(k)'
    <2>1. NumParticipants(k)' = NumParticipants(k)
      BY <1>1 DEF Same, NumParticipants
    <2> QED
      BY <1>0, <1>1, <2>1 DEF Same
  <1>2. ASSUME NEW k \in Ids, pc'[k] # "reduced" \/ errored'[k]
        PROVE  At(k)'
    BY <1>2
  <1>3. ASSUME \A k \in Alive' : At(k)'
        PROVE  AveragesParticipants'
    BY <1>3 DEF AveragesParticipants
  <1> HIDE DEF At
  <1>4. ASSUME NEW T \in SUBSET Registered, FormQuorum(T)
        PROVE  AveragesParticipants'
    <2>1. /\ Alive' = Alive /\ Alive \subseteq Ids /\ errored' = errored /\ reduced' = reduced
          /\ \A k \in Ids : pc'[k] = IF k \in T \cap Alive THEN "quorum" ELSE pc[k]
          /\ \A k \in Ids \ (T \cap Alive) : quorum'[k] = quorum[k]
      BY <1>4, FormLives DEF FormQuorum, Alive, local
    <2>2. ASSUME NEW k \in Alive, k \notin T
          PROVE  At(k)'
      <3>1. pc'[k] = pc[k] /\ quorum'[k] = quorum[k] /\ k \in Ids
        BY <2>1, <2>2
      <3>2. NumParticipants(k)' = NumParticipants(k)
        BY <3>1 DEF NumParticipants
      <3> QED
        BY <1>0, <2>1, <3>1, <3>2 DEF At
    <2>3. ASSUME NEW k \in Alive, k \in T
          PROVE  At(k)'
      BY <1>2, <2>1, <2>3
    <2> QED
      BY <1>3, <2>1, <2>2, <2>3
  <1>5. CASE RestartLighthouse
    <2>1. UNCHANGED <<pc, quorum, local>> /\ Alive' = Alive
      BY <1>5 DEF RestartLighthouse, Alive
    <2>2. \A k : NumParticipants(k)' = NumParticipants(k)
      BY <2>1 DEF NumParticipants
    <2> QED
      BY <1>0, <1>3, <2>1, <2>2 DEF At, local
  <1>6. ASSUME NEW G \in {pg[i] : i \in Ids}, CollectiveEnds(G)
        PROVE  AveragesParticipants'
    <2>1. /\ quorum' = quorum /\ Alive' = Alive /\ Alive \subseteq Ids
          /\ \A k \in Ids : pc'[k] = IF k \in G.members THEN "reduced" ELSE pc[k]
          /\ \A m \in G.members : pc[m] = "posted" /\ pg[m] = G
          /\ G # None
      BY <1>6, CollectiveLives DEF CollectiveEnds, Alive
    <2>2. PICK Ok \in SUBSET G.members :
            /\ errored' = [i \in Ids |-> IF i \in G.members \ Ok THEN TRUE ELSE errored[i]]
            /\ reduced' = [i \in Ids |-> IF i \in Ok THEN {m \in G.members : Participating(m)}
                                         ELSE reduced[i]]
      BY <1>6 DEF CollectiveEnds
    <2>3. G.members \subseteq Alive
      BY <1>6, <2>1 DEF Alive, TypeOK, Groups
    <2>4. PICK s : WholeGroup(G, s)
      BY <1>6
    <2>5. \A m \in G.members : AnswerTo(m, s) /\ (healing[m] <=> quorum[m].heal)
      BY <2>1, <2>3, <2>4 DEF WholeGroup, OneQuorum, HealingFits
    <2>7. \A k : NumParticipants(k)' = NumParticipants(k)
      BY <2>1 DEF NumParticipants
    <2>8. ASSUME NEW k \in Ok
          PROVE  At(k)'
      <3>1. k \in G.members
        BY <2>8
      <3>2. Cardinality({m \in G.members : Participating(m)}) = Size(s)
        BY <2>4, <2>5, ParticipantsCounted DEF WholeGroup, OneQuorum
      <3>3. NumParticipants(k) = Size(s)
        BY <2>5, <3>1, SizeFits
      <3>4. reduced'[k] = {m \in G.members : Participating(m)}
        BY <2>1, <2>2, <2>3, <3>1
      <3> QED
        BY <2>7, <3>2, <3>3, <3>4 DEF At
    <2>9. ASSUME NEW k \in G.members \ Ok
          PROVE  At(k)'
      BY <1>2, <2>1, <2>2, <2>3, <2>9
    <2>10. ASSUME NEW k \in Alive, k \notin G.members
           PROVE  At(k)'
      <3>1. pc'[k] = pc[k] /\ errored'[k] = errored[k] /\ reduced'[k] = reduced[k]
        BY <2>1, <2>2, <2>10
      <3> QED
        BY <1>0, <2>7, <3>1 DEF At
    <2> QED
      BY <1>3, <2>1, <2>8, <2>9, <2>10
  <1>7. ASSUME NEW i \in Ids, Replica(i)
        PROVE  AveragesParticipants'
    <2>1. /\ Alive' = Alive /\ i \in Alive /\ Alive \subseteq Ids
          /\ \A k \in Ids \ {i} : Same(k)
      BY <1>7, ReplicaFrame, ReplicaLives DEF Alive
    <2>2. \/ pc'[i] # "reduced" \/ errored'[i]
      BY <1>7 DEF Replica, StartQuorum, RetryQuorum, MissQuorum, Configure, Recover,
         ReceiveCheckpoint, HealFails, Allreduce, CollectiveTimesOut, ShouldCommit, TypeOK, local
    <2> QED
      BY <1>1, <1>2, <1>3, <2>1, <2>2
  <1>8. ASSUME NEW i \in Ids, Crash(i)
        PROVE  AveragesParticipants'
    <2>1. /\ pc'[i + 1] = "start" /\ Alive' = (Alive \ {i}) \cup {i + 1} /\ i + 1 \in Ids
          /\ \A k \in Ids \ {i, i + 1} : Same(k)
      BY <1>8, CrashFrame
    <2>2. \A k \in Alive' : k = i + 1 \/ (k \in Alive /\ k \in Ids /\ Same(k))
      BY <2>1 DEF Alive
    <2>3. At(i + 1)'
      BY <1>2, <2>1
    <2> QED
      BY <1>1, <1>3, <2>2, <2>3
  <1> QED
    BY <1>4, <1>5, <1>6, <1>7, <1>8 DEF Next

-----------------------------------------------------------------------------
(* Everybody: without stragglers nobody is left out of a quorum *)

\* The members S were everybody, and one of them has died since or they still are.
Covering(S) == Alive \subseteq S \/ \E j \in S : pc[j] = "dead"

Born(S) == S \subseteq Ids /\ \A j \in S : pc[j] # "unborn"

\* Those that the latest quorum does not have, none has had.
Newcomers(P) == \A i \in Alive \ P : pc[i] \in {"start", "waiting"} /\ step[i] = 0

\* P has the members of the latest quorum, which may have formed before the
\* lighthouse restarted; there are none before the first.  A group of all that
\* are alive is of its members, for nobody has been born since.
Everybody(P) ==
  /\ lighthouse.prev # None => lighthouse.prev = P /\ P # {}
  /\ Born(P)
  /\ P # {} => Covering(P)
  /\ Newcomers(P)
  /\ \A i \in Alive : pc[i] \in Active => quorum[i].members = P
  /\ (\E j \in Registered : pc[j] = "dead") => P # Alive
  /\ \A i \in Ids : pg[i] # None =>
       /\ Born(pg[i].members) /\ Covering(pg[i].members)
       /\ pg[i].members = Alive => P = Alive

LEMMA InitEverybody == Init => Everybody({})
  <1> SUFFICES ASSUME Init
               PROVE  Everybody({})
    OBVIOUS
  <1>1. Newcomers({}) /\ \A i \in Alive : pc[i] \notin Active
    BY DEF Init, Newcomers, Alive, Active
  <1>2. lighthouse.prev = None /\ Registered = {} /\ \A i \in Ids : pg[i] = None
    BY DEF Init, Registered
  <1> QED
    BY <1>1, <1>2 DEF Everybody, Born

\* All of them wait when a new quorum forms.
LEMMA NobodyLeftOut ==
  ASSUME ~Stragglers, Standing, NEW P, Everybody(P), NEW S, FormQuorum(S)
  PROVE  /\ P \subseteq S \/ Alive \subseteq S
         /\ \A i \in Alive : /\ pc[i] \in {"start", "waiting"}
                             /\ i \in S => pc[i] = "waiting" /\ lighthouse.requests[i].step = step[i]
                             /\ i \notin S => step[i] = 0
  <1> USE DEF Standing
  <1>1. S \subseteq Registered /\ (P \subseteq S \/ Alive \subseteq S)
    BY DEF FormQuorum, MayForm, Everybody
  <1>2. ASSUME NEW i \in Alive, i \in S
        PROVE  pc[i] = "waiting" /\ lighthouse.requests[i].step = step[i]
    BY <1>1, <1>2 DEF Registered, Requested
  <1>3. ASSUME NEW i \in Alive, i \notin S
        PROVE  pc[i] \in {"start", "waiting"} /\ step[i] = 0
    BY <1>1, <1>3 DEF Everybody, Newcomers
  <1> QED
    BY <1>1, <1>2, <1>3

\* Whether a set covers depends on who lives and who is dead.
LEMMA CoveringKept ==
  ASSUME NEW S, Born(S), Alive' = Alive,
         \A k \in Ids : (pc'[k] = "unborn" <=> pc[k] = "unborn") /\ (pc'[k] = "dead" <=> pc[k] = "dead")
  PROVE  Born(S)' /\ (Covering(S) => Covering(S)')
  BY DEF Born, Covering

LEMMA FormEverybody ==
  ASSUME ~Stragglers, Standing, NEW P, Everybody(P), NEW S, FormQuorum(S)
  PROVE  Everybody(S)'
  <1> USE DEF Standing
  <1>1. /\ Alive' = Alive /\ Alive \subseteq Ids /\ UNCHANGED local
        /\ lighthouse'.prev = S /\ S # {} /\ S \subseteq Registered /\ Registered \subseteq Ids
        /\ \A k \in Ids : pc'[k] = IF k \in S \cap Alive THEN "quorum" ELSE pc[k]
        /\ \A k \in Ids \ (S \cap Alive) : quorum'[k] = quorum[k]
        /\ \A k \in Ids : lighthouse'.requests[k] = None
    BY FormLives DEF FormQuorum, MayForm, Registered, Alive
  <1>2. \A k \in Ids : (pc'[k] = "unborn" <=> pc[k] = "unborn") /\ (pc'[k] = "dead" <=> pc[k] = "dead")
    BY <1>1 DEF Alive
  <1>3. P \subseteq S \/ Alive \subseteq S
    BY NobodyLeftOut
  <1>4. Born(S)
    BY <1>1 DEF Registered, Unborn, Born
  <1>5. Covering(S)
    <2>1. CASE Alive \subseteq S
      BY <2>1 DEF Covering
    <2>2. CASE ~(Alive \subseteq S)
      <3>1. lighthouse.prev # None /\ lighthouse.prev \subseteq S
        BY <2>2 DEF FormQuorum, MayForm
      <3> QED
        BY <3>1 DEF Everybody, Covering
    <2> QED
      BY <2>1, <2>2
  <1>6. Born(S)' /\ Covering(S)'
    BY <1>1, <1>2, <1>4, <1>5, CoveringKept
  <1>7. Newcomers(S)'
    BY <1>1, NobodyLeftOut DEF Newcomers, local
  <1>8. ASSUME NEW i \in Alive, pc'[i] \in Active
        PROVE  quorum'[i].members = S
    <2>1. i \in S
      <3>1. pc[i] \in {"start", "waiting"}
        BY NobodyLeftOut
      <3> QED
        BY <1>1, <1>8, <3>1 DEF Active
    <2>2. PICK s : s = StepsOf(S)
      OBVIOUS
    <2>3. AnswerTo(i, s)' /\ DOMAIN s = S
      BY <2>1, <2>2, AnswersFit DEF StepsOf
    <2> QED
      BY <2>3 DEF AnswerTo
  <1>9. Registered' = {}
    BY <1>1 DEF Registered
  <1>10. ASSUME NEW i \in Ids, pg[i] # None
         PROVE  /\ Born(pg[i].members)' /\ Covering(pg[i].members)'
                /\ pg[i].members = Alive => S = Alive
    <2>1. PICK T : T = pg[i].members
      OBVIOUS
    <2>2. Born(T) /\ Covering(T) /\ (T = Alive => P = Alive)
      BY <1>10, <2>1 DEF Everybody
    <2>3. Born(T)' /\ Covering(T)'
      BY <1>1, <1>2, <2>2, CoveringKept
    <2>4. T = Alive => S = Alive
      <3> SUFFICES ASSUME T = Alive
                   PROVE  S = Alive
        OBVIOUS
      <3>1. \A j \in S : pc[j] # "dead"
        BY <1>1, <2>2 DEF Everybody
      <3>2. S \subseteq Alive
        BY <1>1, <1>4, <3>1 DEF Born, Alive
      <3> QED
        BY <1>3, <2>2, <3>2
    <2>5. pg'[i] = pg[i]
      BY <1>1 DEF local
    <2> QED
      BY <2>1, <2>3, <2>4, <2>5
  <1>11. pg' = pg
    BY <1>1 DEF local
  <1> QED
    BY <1>1, <1>6, <1>7, <1>8, <1>9, <1>10, <1>11 DEF Everybody

LEMMA ReplicaEverybody ==
  ASSUME Standing, NEW P, Everybody(P), NEW i \in Ids, Replica(i)
  PROVE  Everybody(P)'
  <1> USE DEF Standing
  <1>1. /\ Alive' = Alive /\ i \in Alive /\ Alive \subseteq Ids /\ quorum' = quorum
        /\ pc'[i] \in Active => pc[i] \in Active
        /\ pc'[i] \notin {"unborn", "dead"} /\ pc[i] \notin {"unborn", "dead"}
        /\ \A k \in Ids \ {i} : Same(k)
        /\ lighthouse'.prev = lighthouse.prev
    BY ReplicaFrame, ReplicaLives DEF Alive, SameLighthouse
  <1>2. \A k \in Ids : (pc'[k] = "unborn" <=> pc[k] = "unborn") /\ (pc'[k] = "dead" <=> pc[k] = "dead")
    BY <1>1 DEF Same
  <1>3. Born(P) /\ (P # {} => Covering(P))
    BY DEF Everybody
  <1>4. Born(P)' /\ (P # {} => Covering(P)')
    BY <1>1, <1>2, <1>3, CoveringKept
  <1>5. Newcomers(P)'
    <2>1. ASSUME i \notin P
          PROVE  pc'[i] \in {"start", "waiting"} /\ step'[i] = 0
      <3>1. pc[i] \in {"start", "waiting"} /\ step[i] = 0
        BY <1>1, <2>1 DEF Everybody, Newcomers
      <3>2. StartQuorum(i) \/ RetryQuorum(i)
        BY <3>1 DEF Replica, StartQuorum, RetryQuorum, MissQuorum, Configure, Recover,
             ReceiveCheckpoint, HealFails, Allreduce, CollectiveTimesOut, ShouldCommit
      <3> QED
        BY <3>1, <3>2 DEF StartQuorum, RetryQuorum, TypeOK, local
    <2>2. \A k \in Alive \ P : k # i => pc'[k] \in {"start", "waiting"} /\ step'[k] = 0
      BY <1>1 DEF Everybody, Newcomers, Same
    <2> QED
      BY <1>1, <2>1, <2>2 DEF Newcomers
  <1>6. \A k \in Alive : pc'[k] \in Active => quorum'[k].members = P
    BY <1>1 DEF Everybody, Same
  <1>7. (\E j \in Registered' : pc'[j] = "dead") => P # Alive
    <2>1. \A j \in Registered' : pc'[j] = "dead" => j \in Registered /\ pc[j] = "dead"
      BY <1>1 DEF Registered, Same
    <2> QED
      BY <2>1 DEF Everybody
  <1>8. ASSUME NEW k \in Ids, pg'[k] # None
        PROVE  /\ Born(pg[k].members)' /\ Covering(pg[k].members)'
               /\ pg'[k].members = Alive => P = Alive
    <2>1. PICK T : T = pg'[k].members
      OBVIOUS
    <2>2. Born(T) /\ Covering(T) /\ (T = Alive => P = Alive)
      <3>1. CASE pg'[k] = pg[k]
        BY <1>8, <2>1, <3>1 DEF Everybody
      <3>2. CASE pg'[k] # pg[k]
        <4>1. k = i
          BY <1>1, <3>2 DEF Same
        <4>2. Configure(i)
          BY <3>2, <4>1 DEF Replica, StartQuorum, RetryQuorum, MissQuorum, Recover,
             ReceiveCheckpoint, HealFails, Allreduce, CollectiveTimesOut, ShouldCommit, local
        <4>3. pc[i] = "quorum" /\ pg'[i] = Group(i)
          BY <1>8, <3>2, <4>1, <4>2 DEF Configure, TypeOK
        <4>4. quorum[i].members = P /\ i \in P
          BY <1>1, <4>3 DEF Everybody, OwnQuorum, Active
        <4>5. T = P
          BY <2>1, <4>1, <4>3, <4>4 DEF Group
        <4> QED
          BY <1>3, <4>4, <4>5
      <3> QED
        BY <3>1, <3>2
    <2>3. Born(T)' /\ Covering(T)'
      BY <1>1, <1>2, <2>2, CoveringKept
    <2> QED
      BY <2>1, <2>2, <2>3
  <1> QED
    BY <1>1, <1>4, <1>5, <1>6, <1>7, <1>8 DEF Everybody

LEMMA CollectiveEverybody ==
  ASSUME Standing, NEW P, Everybody(P), NEW G, CollectiveEnds(G)
  PROVE  Everybody(P)'
  <1> USE DEF Standing
  <1>1. /\ Alive' = Alive /\ Alive \subseteq Ids /\ lighthouse' = lighthouse
        /\ quorum' = quorum /\ step' = step /\ pg' = pg
        /\ \A k \in Ids : pc'[k] = IF k \in G.members THEN "reduced" ELSE pc[k]
        /\ \A m \in G.members : pc[m] = "posted"
    BY CollectiveLives DEF CollectiveEnds, Alive
  <1>2. \A k \in Ids : (pc'[k] = "unborn" <=> pc[k] = "unborn") /\ (pc'[k] = "dead" <=> pc[k] = "dead")
    BY <1>1
  <1>3. Born(P)' /\ (P # {} => Covering(P)')
    BY <1>1, <1>2, CoveringKept DEF Everybody
  <1>4. Newcomers(P)'
    BY <1>1 DEF Everybody, Newcomers
  <1>5. \A k \in Alive : pc'[k] \in Active => quorum'[k].members = P
    BY <1>1 DEF Everybody, Active
  <1>6. (\E j \in Registered' : pc'[j] = "dead") => P # Alive
    BY <1>1, <1>2 DEF Everybody, Registered
  <1>7. ASSUME NEW k \in Ids, pg[k] # None
        PROVE  /\ Born(pg[k].members)' /\ Covering(pg[k].members)'
               /\ pg[k].members = Alive => P = Alive
    <2>1. PICK T : T = pg[k].members
      OBVIOUS
    <2>2. Born(T) /\ Covering(T) /\ (T = Alive => P = Alive)
      BY <1>7, <2>1 DEF Everybody
    <2>3. Born(T)' /\ Covering(T)'
      BY <1>1, <1>2, <2>2, CoveringKept
    <2> QED
      BY <1>1, <2>1, <2>2, <2>3
  <1> QED
    BY <1>1, <1>3, <1>4, <1>5, <1>6, <1>7 DEF Everybody

\* A new process is in no group yet: none of them has everybody.
LEMMA CrashEverybody ==
  ASSUME Standing, NEW P, Everybody(P), NEW i \in Ids, Crash(i)
  PROVE  Everybody(P)'
  <1> USE DEF Standing
  <1>1. /\ i + 1 \in Ids /\ i + 1 # i /\ i \in Alive /\ pc'[i + 1] = "start" /\ pc'[i] = "dead"
        /\ \A k \in Ids \ {i, i + 1} : Same(k)
        /\ lighthouse' = lighthouse /\ step' = step /\ quorum' = quorum /\ pg' = pg
        /\ Alive' = (Alive \ {i}) \cup {i + 1} /\ Alive \subseteq Ids
    BY CrashFrame DEF Alive
  <1>2. pc[i + 1] = "unborn"
    BY <1>1 DEF Crash, Alive, Lineage
  <1>3. step[i + 1] = 0 /\ i + 1 \notin Registered
    BY <1>1, <1>2 DEF Unborn, Registered
  <1>4. ASSUME NEW S, Born(S), Covering(S)
        PROVE  Born(S)' /\ Covering(S)' /\ S # Alive'
    <2>1. i + 1 \notin S
      BY <1>2, <1>4 DEF Born
    <2>2. Born(S)' /\ S # Alive'
      BY <1>1, <1>4, <2>1 DEF Born, Same
    <2>3. \A j \in S : pc[j] = "dead" => pc'[j] = "dead"
      BY <1>1, <1>4, <2>1 DEF Born, Same
    <2> QED
      BY <1>1, <1>4, <2>2, <2>3 DEF Covering
  <1>5. Born(P)' /\ (P # {} => Covering(P)') /\ P # Alive'
    <2>1. CASE P = {}
      BY <1>1, <2>1 DEF Born
    <2>2. CASE P # {}
      BY <1>4, <2>2 DEF Everybody
    <2> QED
      BY <2>1, <2>2
  <1>6. Newcomers(P)'
    <2>1. \A k \in Alive' : k = i + 1 \/ (k \in Alive /\ Same(k))
      BY <1>1
    <2> QED
      BY <1>1, <1>3, <2>1 DEF Everybody, Newcomers, Same
  <1>7. \A k \in Alive' : pc'[k] \in Active => quorum'[k].members = P
    BY <1>1 DEF Everybody, Active, Same
  <1>8. ASSUME NEW k \in Ids, pg[k] # None
        PROVE  Born(pg[k].members)' /\ Covering(pg[k].members)' /\ pg[k].members # Alive'
    <2>1. PICK T : T = pg[k].members
      OBVIOUS
    <2>2. Born(T) /\ Covering(T)
      BY <1>8, <2>1 DEF Everybody
    <2> QED
      BY <1>1, <1>4, <2>1, <2>2
  <1> QED
    BY <1>1, <1>5, <1>6, <1>7, <1>8 DEF Everybody

LEMMA EverybodyStays ==
  ASSUME UNCHANGED vars, NEW P, Everybody(P)
  PROVE  Everybody(P)'
  <1>1. Alive' = Alive /\ Registered' = Registered
    BY DEF Alive, Registered, vars
  <1>2. \A S : (Born(S)' <=> Born(S)) /\ (Covering(S)' <=> Covering(S))
    BY <1>1 DEF Born, Covering, vars
  <1> QED
    BY <1>1, <1>2 DEF Everybody, Newcomers, vars, local

LEMMA RestartEverybody ==
  ASSUME RestartLighthouse, NEW P, Everybody(P)
  PROVE  Everybody(P)'
  <1>1. Alive' = Alive /\ Registered' = {} /\ lighthouse'.prev = None
    BY DEF Alive, Registered, RestartLighthouse
  <1>2. \A S : (Born(S)' <=> Born(S)) /\ (Covering(S)' <=> Covering(S))
    BY <1>1 DEF Born, Covering, RestartLighthouse
  <1> QED
    BY <1>1, <1>2 DEF Everybody, Newcomers, RestartLighthouse, local

LEMMA NextEverybody ==
  ASSUME ~Stragglers, Standing, NEW P, Everybody(P), [Next]_vars
  PROVE  \E Q : Everybody(Q)'
  <1>1. ASSUME NEW S, FormQuorum(S)
        PROVE  \E Q : Everybody(Q)'
    BY <1>1, FormEverybody
  <1>2. ASSUME ~ \E S : FormQuorum(S)
        PROVE  Everybody(P)'
    BY <1>2, RestartEverybody, EverybodyStays, CollectiveEverybody, ReplicaEverybody, CrashEverybody
    DEF Next
  <1> QED
    BY <1>1, <1>2

\* Whatever groups are left from before a restart, a collective that ends is one
\* of all members of the latest quorum.
LEMMA EndedEverybody ==
  ASSUME Answered, NEW P, Everybody(P), NEW G \in {pg[i] : i \in Ids}, CollectiveEnds(G)
  PROVE  G.members = P /\ \E s : WholeGroup(G, s)
  <1> USE DEF Answered, Standing
  <1>1. PICK i \in Ids : G = pg[i]
    OBVIOUS
  <1>2. \A m \in G.members : pc[m] = "posted" /\ pg[m] = G
    BY DEF CollectiveEnds
  <1>3. Born(G.members) /\ Covering(G.members) /\ (G.members = Alive => P = Alive)
    BY <1>1 DEF Everybody, CollectiveEnds
  <1>4. G.members = Alive
    BY <1>2, <1>3 DEF Born, Covering, Alive
  <1>5. G.members = P
    BY <1>3, <1>4
  <1>6. \A m \in G.members : m \in Alive /\ pc[m] \in Active /\ quorum[m].members = G.members
    BY <1>2, <1>4, <1>5 DEF Everybody, Active
  <1>7. PICK s : \A m \in Alive :
          pc[m] \in Active /\ quorum[m].members = G.members => IsQuorum(s) /\ AnswerTo(m, s)
    BY DEF OneAnswer
  <1>8. G.members # {}
    BY DEF CollectiveEnds, InOwnGroup
  <1>9. IsQuorum(s) /\ DOMAIN s = G.members /\ \A m \in G.members : AnswerTo(m, s)
    BY <1>6, <1>7, <1>8 DEF AnswerTo
  <1>10. MaxParticipants(s) \subseteq G.members
    BY <1>9 DEF MaxParticipants
  <1> QED
    BY <1>5, <1>9, <1>10 DEF WholeGroup, OneQuorum

-----------------------------------------------------------------------------
(* Weights *)

Pendings ==
  \A i \in Alive : pending[i] # None =>
    pc[i] \in {"ready", "posted", "reduced"} /\ healing[i]

\* A checkpoint is offered by an up-to-date replica for the current step only.
Servings ==
  \A i \in Ids : serving[i] # None =>
    /\ pc[i] \in {"ready", "posted", "reduced"}
    /\ serving[i].weights = weights[i]
    /\ ~quorum[i].heal

AtStart == \A i \in Alive : ~InitSync /\ step[i] = 0 => Restored(i) = <<>>

\* Member i of the latest quorum, formed at the steps s.  The up-to-date and the
\* healed ones have the weights W, until they commit the average of R.
InRoundAt(i, s, W, R) ==
  /\ pc[i] \in Active => AnswerTo(i, s)
  /\ step[i] \in {s[i], MaxStep(s), MaxStep(s) + 1}
  /\ step[i] = MaxStep(s) + 1 =>
       pc[i] \in {"start", "waiting"} /\ weights[i] = Append(W, <<R, Size(s)>>)
  /\ /\ step[i] # MaxStep(s) + 1
     /\ i \in UpToDate(s, 0, InitSync) \/ step[i] # s[i] \/ pending[i] # None
     => Restored(i) = W /\ step[i] = MaxStep(s)
  /\ pc[i] \in {"ready", "posted", "reduced"} /\ ~errored[i] =>
       i \in UpToDate(s, 0, InitSync) \/ pending[i] # None
  /\ pc[i] = "reduced" /\ ~errored[i] => reduced[i] = R
  /\ pending[i] # None => i \in Recovering(s, 0, InitSync)

Round(P, s, W, R) ==
  /\ IsQuorum(s)
  /\ DOMAIN s = P
  /\ W \in Weights
  /\ \A i \in DOMAIN s \cap Alive : InRoundAt(i, s, W, R)

InRound(P) == P # {} => \E s, W, R : Round(P, s, W, R)

WeightsAt(P) ==
  /\ Answered /\ Everybody(P) /\ InRound(P)
  /\ Pendings /\ Servings /\ AtStart /\ SameStepSameWeights

WeightsInv == \E P : WeightsAt(P)

LEMMA InitWeights == Init => WeightsInv
  <1> SUFFICES ASSUME Init
               PROVE  WeightsAt({})
    BY DEF WeightsInv
  <1>1. Answered /\ Everybody({}) /\ InRound({})
    BY InitGroup, InitAnswer, InitEverybody DEF Answered, GroupInv, InRound
  <1>2. \A i \in Ids : step[i] = 0 /\ ~healing[i] /\ (~InitSync => weights[i] = <<>>)
    BY DEF Init
  <1>3. Pendings /\ Servings
    BY DEF Init, Pendings, Servings, Alive
  <1>4. AtStart /\ SameStepSameWeights
    BY <1>2 DEF AtStart, SameStepSameWeights, Restored, Alive
  <1> QED
    BY <1>1, <1>3, <1>4 DEF WeightsAt

LEMMA FormRound ==
  ASSUME ~Stragglers, NEW P, WeightsAt(P), NEW S, FormQuorum(S)
  PROVE  InRound(S)'
  <1> USE DEF WeightsAt, Answered, Standing
  <1>1. /\ MayForm(S) /\ Alive' = Alive /\ Alive \subseteq Ids
        /\ UNCHANGED local
        /\ \A k \in S \cap Alive : pc'[k] = "quorum"
    BY FormLives DEF FormQuorum, Alive
  <1>2. PICK s : s = StepsOf(S)
    OBVIOUS
  <1>3. IsQuorum(s) /\ DOMAIN s = S /\ S \in SUBSET Ids
    BY <1>1, <1>2, StepsOfQuorum
  <1>4. MaxStep(s) \in Nat /\ \A r \in S : s[r] \in Nat /\ s[r] <= MaxStep(s)
    BY <1>3, MaxStepFits DEF IsQuorum
  <1>5. \A k \in S \cap Alive :
          /\ step[k] = s[k] /\ pc[k] = "waiting" /\ pending[k] = None /\ Restored(k) = weights[k]
    <2>1. \A k \in S \cap Alive : pc[k] = "waiting" /\ lighthouse.requests[k].step = step[k]
      BY NobodyLeftOut
    <2> QED
      BY <1>2, <2>1 DEF StepsOf, Pendings, Restored
  <1> DEFINE U == UpToDate(s, 0, InitSync) \cap Alive
  <1>6. InitSync \in BOOLEAN /\ 0 \in Nat
    BY ProtocolAssumption
  <1>7. UpToDate(s, 0, InitSync) \subseteq S /\ \A k \in U : s[k] = MaxStep(s)
    BY <1>3, <1>6, UpToDateFits, MaxStepFits DEF MaxParticipants
  <1>8. ASSUME NEW u \in U, NEW k \in U
        PROVE  weights[u] = weights[k]
    <2>1. /\ u \in S \cap Alive /\ k \in S \cap Alive
          /\ step[u] = MaxStep(s) /\ step[k] = MaxStep(s)
          /\ Restored(u) = weights[u] /\ Restored(k) = weights[k]
      BY <1>5, <1>7
    <2>2. CASE MaxStep(s) > 0
      BY <2>1, <2>2 DEF SameStepSameWeights
    <2>3. CASE ~ (MaxStep(s) > 0)
      <3>1. MaxStep(s) = 0
        BY <1>4, <2>3
      <3>2. CASE InitSync
        <4>1. UpToDate(s, 0, InitSync) = {Primary(s, 0)}
          BY <1>3, <1>6, <3>1, <3>2, UpToDateFits
        <4>2. u \in UpToDate(s, 0, InitSync) /\ k \in UpToDate(s, 0, InitSync)
          OBVIOUS
        <4>3. u = k
          BY <4>1, <4>2
        <4> QED
          BY <4>3
      <3>3. CASE ~InitSync
        BY <2>1, <3>1, <3>3 DEF AtStart
      <3> QED
        BY <3>2, <3>3
    <2> QED
      BY <2>2, <2>3
  <1>9. \E W \in Weights : \A k \in U : weights[k] = W
    <2>1. CASE U = {}
      <3>1. <<>> \in Weights
        BY DEF Weights
      <3> HIDE DEF U
      <3> QED
        BY <2>1, <3>1
    <2>2. CASE U # {}
      <3>1. PICK u \in U : TRUE
        BY <2>2
      <3>2. weights[u] \in Weights
        BY <1>1 DEF TypeOK
      <3> QED
        BY <1>8, <3>1, <3>2
    <2> QED
      BY <2>1, <2>2
  <1>10. PICK W \in Weights : \A k \in U : weights[k] = W
    BY <1>9
  <1>11. \A k \in S \cap Alive : AnswerTo(k, s)'
    BY <1>2, AnswersFit
  <1>12. ASSUME NEW k \in S \cap Alive
         PROVE  InRoundAt(k, s, W, {})'
    <2>1. /\ step'[k] = s[k] /\ s[k] # MaxStep(s) + 1 /\ pending'[k] = None /\ pc'[k] = "quorum"
      BY <1>1, <1>4, <1>5 DEF local
    <2>2. Restored(k)' = weights[k]
      BY <1>1, <1>5, <2>1 DEF local, Restored
    <2>3. k \in UpToDate(s, 0, InitSync) => weights[k] = W /\ s[k] = MaxStep(s)
      BY <1>7, <1>10
    <2> QED
      BY <1>11, <2>1, <2>2, <2>3 DEF InRoundAt
  <1>13. Round(S, s, W, {})'
    BY <1>1, <1>3, <1>12 DEF Round
  <1> QED
    BY <1>13 DEF InRound

LEMMA FormWeights ==
  ASSUME ~Stragglers, NEW P, WeightsAt(P), NEW S \in SUBSET Registered, FormQuorum(S)
  PROVE  WeightsAt(S)'
  <1> USE DEF WeightsAt, Answered, Standing
  <1>1. /\ Alive' = Alive /\ Alive \subseteq Ids
        /\ UNCHANGED local
        /\ \A k \in Ids : pc'[k] = IF k \in S \cap Alive THEN "quorum" ELSE pc[k]
        /\ \A k \in Ids \ (S \cap Alive) : quorum'[k] = quorum[k]
    BY FormLives DEF FormQuorum, Alive
  <1>2. Answered'
    BY NextAnswered DEF Next
  <1>3. InRound(S)' /\ Everybody(S)'
    BY FormRound, FormEverybody
  <1>4. \A k : Restored(k)' = Restored(k)
    BY <1>1 DEF Restored, local
  <1>6. Pendings'
    <2>1. \A k \in Alive : pending[k] = None
      BY NobodyLeftOut DEF Pendings
    <2> QED
      BY <1>1, <2>1 DEF Pendings, local
  <1>7. Servings'
    <2>1. \A k \in Ids : serving[k] # None => k \in Alive
      BY DEF Servings, Alive
    <2>2. \A k \in Ids : serving[k] = None
      BY <2>1, NobodyLeftOut DEF Servings
    <2> QED
      BY <1>1, <2>2 DEF Servings, local
  <1>8. AtStart' /\ SameStepSameWeights'
    BY <1>1, <1>4 DEF AtStart, SameStepSameWeights, local
  <1> QED
    BY <1>2, <1>3, <1>6, <1>7, <1>8

\* The replicas of the latest round agree.
Agreed(P) ==
  \A s, W, R : Round(P, s, W, R) =>
    \A i, j \in Alive :
      step[i] = step[j] /\ step[i] > 0 /\ step[i] >= MaxStep(s) => Restored(i) = Restored(j)

LEMMA AgreeNow ==
  ASSUME NEW P
  PROVE  TypeOK /\ Newcomers(P) /\ Pendings => Agreed(P)
  <1> SUFFICES ASSUME TypeOK, Newcomers(P), Pendings, NEW s, NEW W, NEW R, Round(P, s, W, R)
               PROVE  \A i, j \in Alive :
                        step[i] = step[j] /\ step[i] > 0 /\ step[i] >= MaxStep(s) =>
                          Restored(i) = Restored(j)
    BY DEF Agreed
  <1>1. MaxStep(s) \in Nat /\ \A r \in DOMAIN s : s[r] \in Nat /\ s[r] <= MaxStep(s)
    BY MaxStepFits DEF IsQuorum, Round
  <1>2. ASSUME NEW i \in Alive, step[i] > 0, step[i] >= MaxStep(s)
        PROVE  /\ step[i] # MaxStep(s) + 1 => Restored(i) = W
               /\ step[i] = MaxStep(s) + 1 => Restored(i) = Append(W, <<R, Size(s)>>)
    <2>1. i \in Ids /\ step[i] \in Nat
      BY DEF Alive, TypeOK
    <2>2. i \in DOMAIN s
      BY <1>2, <2>1 DEF Newcomers, Round
    <2>3. InRoundAt(i, s, W, R)
      BY <1>2, <2>2 DEF Round
    <2>4. CASE step[i] = MaxStep(s) + 1
      <3>1. pc[i] \in {"start", "waiting"} /\ weights[i] = Append(W, <<R, Size(s)>>)
        BY <2>3, <2>4 DEF InRoundAt
      <3>2. pending[i] = None
        BY <3>1 DEF Pendings
      <3> QED
        BY <2>4, <3>1, <3>2, <1>1 DEF Restored
    <2>5. CASE step[i] # MaxStep(s) + 1
      <3>1. i \in UpToDate(s, 0, InitSync) \/ step[i] # s[i] \/ pending[i] # None
        <4>1. CASE s[i] = MaxStep(s)
          <5>1. CASE MaxStep(s) = 0
            <6>1. step[i] \in {s[i], MaxStep(s), MaxStep(s) + 1}
              BY <2>3 DEF InRoundAt
            <6> QED
              BY <6>1, <5>1, <4>1, <1>2, <2>1, <2>5
          <5>2. CASE MaxStep(s) # 0
            BY <2>2, <4>1, <5>2 DEF UpToDate, Recovering
          <5> QED
            BY <5>1, <5>2
        <4>2. CASE s[i] # MaxStep(s)
          BY <1>1, <1>2, <2>1, <2>2, <4>2
        <4> QED
          BY <4>1, <4>2
      <3> QED
        BY <2>3, <2>5, <3>1 DEF InRoundAt
    <2> QED
      BY <2>4, <2>5
  <1> QED
    BY <1>2

LEMMA AgreeThen ==
  ASSUME NEW P
  PROVE  (TypeOK /\ Newcomers(P) /\ Pendings)' => Agreed(P)'
  BY AgreeNow, PTL

\* A replica's history and step change when it receives a checkpoint and when
\* it commits.
Commits(i) == ShouldCommit(i) /\ ~errored[i] /\ NumParticipants(i) >= MinReplicas

Keeps(i) ==
  /\ step'[i] = step[i] /\ Restored(i)' = Restored(i)
  /\ pending'[i] = pending[i] \/ pending'[i] = None

LEMMA HistoryKept ==
  ASSUME TypeOK, Pendings, NEW i \in Ids, Replica(i)
  PROVE  ReceiveCheckpoint(i) \/ Commits(i) \/ Keeps(i)
  <1> USE DEF TypeOK
  <1>1. pc[i] \in {"start", "waiting", "quorum", "recover", "heal"} => pending[i] = None
    BY DEF Pendings, Alive
  <1>2. CASE StartQuorum(i)
    BY <1>1, <1>2 DEF StartQuorum, Keeps, Restored
  <1>3. CASE RetryQuorum(i)
    BY <1>3 DEF RetryQuorum, Keeps, Restored, local
  <1>4. CASE MissQuorum(i)
    BY <1>4 DEF MissQuorum, Keeps, Restored, local
  <1>5. CASE Configure(i)
    BY <1>5 DEF Configure, Keeps, Restored
  <1>6. CASE Recover(i)
    BY <1>1, <1>6 DEF Recover, Keeps, Restored
  <1>7. CASE HealFails(i)
    BY <1>7 DEF HealFails, Keeps, Restored
  <1>8. CASE Allreduce(i)
    BY <1>8 DEF Allreduce, Keeps, Restored, local
  <1>9. CASE CollectiveTimesOut(i)
    BY <1>9 DEF CollectiveTimesOut, Keeps, Restored
  <1>10. ASSUME ShouldCommit(i), ~ (~errored[i] /\ NumParticipants(i) >= MinReplicas)
         PROVE  Keeps(i)
    <2>1. /\ weights' = [weights EXCEPT ![i] = Restored(i)] /\ step' = step
          /\ pending' = [pending EXCEPT ![i] = None]
      BY <1>10 DEF ShouldCommit
    <2>2. weights'[i] = Restored(i) /\ pending'[i] = None
      BY <2>1 DEF TypeOK
    <2>3. Restored(i)' = weights'[i]
      BY <2>2 DEF Restored
    <2> QED
      BY <2>1, <2>2, <2>3 DEF Keeps
  <1> QED
    BY <1>2, <1>3, <1>4, <1>5, <1>6, <1>7, <1>8, <1>9, <1>10 DEF Replica, Commits

\* What a member at work knows.
LEMMA AtWork ==
  ASSUME NEW P, WeightsAt(P), NEW i \in Alive, pc[i] \in Active
  PROVE  /\ i \in P
         /\ \E s, W, R : Round(P, s, W, R)
         /\ \A s, W, R : Round(P, s, W, R) => InRoundAt(i, s, W, R) /\ AnswerTo(i, s)
  <1>1. i \in P
    BY DEF WeightsAt, Everybody, Newcomers, Active
  <1>2. \E s, W, R : Round(P, s, W, R)
    BY <1>1 DEF WeightsAt, InRound
  <1>3. \A s, W, R : Round(P, s, W, R) => InRoundAt(i, s, W, R)
    BY <1>1 DEF Round
  <1> QED
    BY <1>1, <1>2, <1>3 DEF InRoundAt


\* Those that serve are up to date.
LEMMA SourcesServe ==
  ASSUME Answered, NEW i \in Alive, pc[i] \in Active, quorum[i].recover_dst # {}
  PROVE  ~quorum[i].heal
  <1>1. PICK s : IsQuorum(s) /\ AnswerTo(i, s)
    BY DEF Answered, OneAnswer
  <1>2. PICK d \in Recovering(s, 0, InitSync) : RecoverSrc(s, d, 0, InitSync) = i
    BY <1>1 DEF AnswerTo, RecoverDst
  <1>3. i \in UpToDate(s, 0, InitSync)
    BY <1>1, <1>2, SourceFits, ProtocolAssumption
  <1> QED
    BY <1>1, <1>3 DEF AnswerTo, UpToDate

\* What a healing replica receives.
LEMMA CheckpointFits ==
  ASSUME NEW P, WeightsAt(P), NEW i \in Ids, ReceiveCheckpoint(i), NEW s, NEW W, NEW R, Round(P, s, W, R)
  PROVE  /\ step' = [step EXCEPT ![i] = MaxStep(s)]
         /\ pending'[i] = W /\ W # None /\ healing'[i] /\ pc'[i] = "ready"
         /\ Restored(i)' = W
         /\ i \in Recovering(s, 0, InitSync)
  <1> USE DEF WeightsAt, Answered, Standing
  <1>1. i \in Alive /\ pc[i] = "heal" /\ pc[i] \in Active /\ quorum[i].heal /\ healing[i]
    BY DEF ReceiveCheckpoint, Alive, Active, TypeOK, HealingFits
  <1>2. AnswerTo(i, s) /\ IsQuorum(s)
    BY <1>1, AtWork DEF Round
  <1>3. i \in Recovering(s, 0, InitSync) /\ quorum[i].max_step = MaxStep(s)
    BY <1>1, <1>2 DEF AnswerTo
  <1> DEFINE o == quorum[i].recover_src
  <1>4. o \in UpToDate(s, 0, InitSync)
    <2>1. o = RecoverSrc(s, i, 0, InitSync)
      BY <1>1, <1>2 DEF AnswerTo
    <2> QED
      BY <1>2, <1>3, <2>1, SourceFits, ProtocolAssumption
  <1>5. o \in Ids /\ serving[o] # None /\ serving[o].step = MaxStep(s)
    <2>1. o \in Ids
      BY <1>1 DEF TypeOK, Typed
    <2> QED
      BY <1>3, <2>1 DEF ReceiveCheckpoint, Served
  <1>6. /\ pc[o] \in {"ready", "posted", "reduced"} /\ o \in Alive
        /\ serving[o].weights = weights[o]
    BY <1>5 DEF Servings, Alive
  <1>7. InRoundAt(o, s, W, R)
    <2>1. o \in DOMAIN s
      BY <1>4 DEF UpToDate
    <2> QED
      BY <1>6, <2>1 DEF Round
  <1>8. pending[o] = None
    BY <1>4, <1>7 DEF InRoundAt, UpToDate
  <1>9. weights[o] = W
    <2>1. step[o] # MaxStep(s) + 1
      BY <1>6, <1>7 DEF InRoundAt
    <2>2. Restored(o) = W
      BY <1>4, <1>7, <2>1 DEF InRoundAt
    <2> QED
      BY <1>8, <2>2 DEF Restored
  <1>10. pending'[i] = W
    <2>1. pending' = [pending EXCEPT ![i] = serving[o].weights]
      BY DEF ReceiveCheckpoint
    <2> QED
      BY <1>6, <1>9, <2>1 DEF TypeOK
  <1>11. W # None
    BY NoneAssumption DEF Round
  <1>12. healing' = healing /\ pc'[i] = "ready" /\ step' = [step EXCEPT ![i] = MaxStep(s)]
    BY <1>3 DEF ReceiveCheckpoint, TypeOK
  <1>13. Restored(i)' = W
    BY <1>1, <1>10, <1>11, <1>12 DEF Restored
  <1> QED
    BY <1>1, <1>3, <1>10, <1>11, <1>12, <1>13

\* What a replica commits.
LEMMA CommitFits ==
  ASSUME NEW P, WeightsAt(P), NEW i \in Ids, Commits(i), NEW s, NEW W, NEW R, Round(P, s, W, R)
  PROVE  /\ step[i] = MaxStep(s) /\ step'[i] = MaxStep(s) + 1
         /\ weights'[i] = Append(W, <<R, Size(s)>>)
         /\ pending'[i] = None /\ pc'[i] = "start" /\ Restored(i)' = weights'[i]
  <1> USE DEF WeightsAt, Answered, Standing
  <1>1. i \in Alive /\ pc[i] = "reduced" /\ pc[i] \in Active /\ ~errored[i]
    BY DEF Commits, ShouldCommit, Alive, Active
  <1>2. AnswerTo(i, s) /\ InRoundAt(i, s, W, R)
    BY <1>1, AtWork
  <1>3. /\ step' = [step EXCEPT ![i] = @ + 1]
        /\ weights' = [weights EXCEPT ![i] = Append(Restored(i), <<reduced[i], NumParticipants(i)>>)]
        /\ pending' = [pending EXCEPT ![i] = None]
        /\ pc' = [pc EXCEPT ![i] = "start"]
    BY DEF Commits, ShouldCommit
  <1>4. NumParticipants(i) = Size(s)
    BY <1>2, SizeFits
  <1>5. i \in UpToDate(s, 0, InitSync) \/ pending[i] # None
    BY <1>1, <1>2 DEF InRoundAt
  <1>6. step[i] # MaxStep(s) + 1
    BY <1>1, <1>2 DEF InRoundAt
  <1>7. Restored(i) = W /\ step[i] = MaxStep(s)
    BY <1>2, <1>5, <1>6 DEF InRoundAt
  <1>8. reduced[i] = R
    BY <1>1, <1>2 DEF InRoundAt
  <1>9. /\ step'[i] = MaxStep(s) + 1 /\ weights'[i] = Append(W, <<R, Size(s)>>)
        /\ pending'[i] = None /\ pc'[i] = "start"
    BY <1>3, <1>4, <1>7, <1>8 DEF TypeOK
  <1>10. Restored(i)' = weights'[i]
    BY <1>9 DEF Restored
  <1> QED
    BY <1>7, <1>9, <1>10

LEMMA ReplicaRound ==
  ASSUME NEW P, WeightsAt(P), NEW i \in Ids, Replica(i), NEW s, NEW W, NEW R, Round(P, s, W, R)
  PROVE  Round(P, s, W, R)'
  <1> USE DEF WeightsAt, Answered, Standing
  <1>1. /\ Alive' = Alive /\ i \in Alive /\ Alive \subseteq Ids /\ quorum' = quorum
        /\ pc'[i] \in Active => pc[i] \in Active
        /\ \A k \in Ids \ {i} : Same(k)
    BY ReplicaFrame, ReplicaLives DEF Alive, SameLighthouse
  <1>2. ASSUME NEW k \in DOMAIN s \cap Alive, k # i
        PROVE  InRoundAt(k, s, W, R)'
    <2>1. InRoundAt(k, s, W, R) /\ Same(k)
      BY <1>1, <1>2 DEF Round
    <2>2. Restored(k)' = Restored(k) /\ AnswerTo(k, s)' = AnswerTo(k, s)
      BY <1>1, <2>1 DEF Restored, AnswerTo, Same
    <2> QED
      BY <2>1, <2>2 DEF InRoundAt, Same
  <1>3. ASSUME i \in DOMAIN s
        PROVE  InRoundAt(i, s, W, R)'
    <2>1. InRoundAt(i, s, W, R)
      BY <1>1, <1>3 DEF Round
    <2>2. pc'[i] \in Active => AnswerTo(i, s)'
      BY <1>1, <2>1 DEF InRoundAt, AnswerTo
    <2>3. MaxStep(s) \in Nat
      BY MaxStepFits DEF Round
    <2>4. CASE ReceiveCheckpoint(i)
      <3>1. /\ step' = [step EXCEPT ![i] = MaxStep(s)]
            /\ pending'[i] = W /\ W # None /\ pc'[i] = "ready"
            /\ Restored(i)' = W
            /\ i \in Recovering(s, 0, InitSync)
        BY <2>4, CheckpointFits
      <3>2. step'[i] = MaxStep(s) /\ MaxStep(s) # MaxStep(s) + 1
        BY <2>3, <3>1 DEF TypeOK
      <3> QED
        BY <2>2, <3>1, <3>2 DEF InRoundAt
    <2>5. CASE Commits(i)
      <3>1. /\ step'[i] = MaxStep(s) + 1 /\ weights'[i] = Append(W, <<R, Size(s)>>)
            /\ pending'[i] = None /\ pc'[i] = "start"
        BY <2>5, CommitFits
      <3> QED
        BY <2>2, <3>1 DEF InRoundAt
    <2>6. CASE Keeps(i) /\ ~ReceiveCheckpoint(i) /\ ~Commits(i)
      <3>1. /\ step'[i] = step[i] /\ Restored(i)' = Restored(i)
            /\ pending'[i] # None => pending[i] # None
        BY <2>6 DEF Keeps
      <3>2. step[i] = MaxStep(s) + 1 =>
              pc'[i] \in {"start", "waiting"} /\ weights'[i] = weights[i]
        <4>1. step[i] = MaxStep(s) + 1 => StartQuorum(i) \/ RetryQuorum(i)
          BY <2>1 DEF InRoundAt, Replica, StartQuorum, RetryQuorum, MissQuorum, Configure, Recover,
             ReceiveCheckpoint, HealFails, Allreduce, CollectiveTimesOut, ShouldCommit
        <4> QED
          BY <4>1 DEF StartQuorum, RetryQuorum, TypeOK, local
      <3>3. pc'[i] \in {"ready", "posted", "reduced"} /\ ~errored'[i] =>
              i \in UpToDate(s, 0, InitSync) \/ pending'[i] # None
        <4>1. CASE Recover(i)
          <5>1. pc[i] \in Active
            BY <4>1 DEF Recover, Active
          <5>2. pc'[i] # "heal" => ~quorum[i].heal
            BY <4>1 DEF Recover, TypeOK
          <5> QED
            BY <1>3, <2>1, <5>1, <5>2 DEF InRoundAt, AnswerTo, UpToDate
        <4>2. CASE ~Recover(i)
          <5>1. pc'[i] \in {"ready", "posted", "reduced"} /\ ~errored'[i] =>
                  /\ pc[i] \in {"ready", "posted", "reduced"} /\ ~errored[i]
                  /\ pending' = pending
            BY <2>6, <4>2 DEF Replica, StartQuorum, RetryQuorum, MissQuorum, Configure, HealFails,
               Allreduce, CollectiveTimesOut, ShouldCommit, TypeOK, local
          <5> QED
            BY <2>1, <5>1 DEF InRoundAt
        <4> QED
          BY <4>1, <4>2
      <3>4. pc'[i] = "reduced" /\ ~errored'[i] => FALSE
        BY <2>6 DEF Replica, StartQuorum, RetryQuorum, MissQuorum, Configure, Recover, HealFails,
           Allreduce, CollectiveTimesOut, ShouldCommit, TypeOK, local
      <3> QED
        BY <2>1, <2>2, <3>1, <3>2, <3>3, <3>4 DEF InRoundAt
    <2> QED
      BY <2>4, <2>5, <2>6, HistoryKept
  <1>4. \A k \in DOMAIN s \cap Alive : InRoundAt(k, s, W, R)'
    BY <1>2, <1>3
  <1> QED
    BY <1>1, <1>4 DEF Round

LEMMA ReplicaWeights ==
  ASSUME NEW P, WeightsAt(P), NEW i \in Ids, Replica(i)
  PROVE  WeightsAt(P)'
  <1> USE DEF WeightsAt, Answered, Standing
  <1>1. /\ Alive' = Alive /\ i \in Alive /\ Alive \subseteq Ids /\ quorum' = quorum
        /\ pc'[i] \in Active => pc[i] \in Active
        /\ \A k \in Ids \ {i} : Same(k)
    BY ReplicaFrame, ReplicaLives DEF Alive
  <1>2. Answered'
    BY NextAnswered DEF Next
  <1>3. TypeOK /\ TypeOK'
    BY <1>2
  <1>4. \A k \in Alive \ {i} : Restored(k)' = Restored(k) /\ step'[k] = step[k]
    BY <1>1 DEF Restored, Same
  <1>5. InRound(P)'
    <2>1. CASE P = {}
      BY <2>1 DEF InRound
    <2>2. CASE P # {}
      <3>1. PICK s, W, R : Round(P, s, W, R)
        BY <2>2 DEF InRound
      <3>2. Round(P, s, W, R)'
        BY <3>1, ReplicaRound
      <3> QED
        BY <3>2 DEF InRound
    <2> QED
      BY <2>1, <2>2
  <1>6. Everybody(P)' /\ Newcomers(P)'
    BY ReplicaEverybody DEF Everybody
  <1>7. Pendings'
    <2>1. pending'[i] # None => pc'[i] \in {"ready", "posted", "reduced"} /\ healing'[i]
      <3>1. pending[i] # None => pc[i] \in {"ready", "posted", "reduced"} /\ healing[i]
        BY <1>1 DEF Pendings
      <3>2. CASE ReceiveCheckpoint(i)
        <4>1. healing[i]
          BY <1>1, <1>3, <3>2 DEF ReceiveCheckpoint, TypeOK, HealingFits
        <4> QED
          BY <1>3, <3>2, <4>1 DEF ReceiveCheckpoint, TypeOK
      <3>3. CASE ShouldCommit(i)
        BY <1>3, <3>3 DEF ShouldCommit, TypeOK
      <3>4. CASE ~ReceiveCheckpoint(i) /\ ~ShouldCommit(i)
        BY <1>3, <3>1, <3>4 DEF Replica, StartQuorum, RetryQuorum, MissQuorum, Configure, Recover,
             HealFails, Allreduce, CollectiveTimesOut, TypeOK, local
      <3> QED
        BY <3>2, <3>3, <3>4
    <2> QED
      BY <1>1, <2>1 DEF Pendings, Same
  <1>8. Servings'
    <2>1. serving'[i] # None =>
            /\ pc'[i] \in {"ready", "posted", "reduced"}
            /\ serving'[i].weights = weights'[i]
            /\ ~quorum[i].heal
      <3>1. serving[i] # None =>
              /\ pc[i] \in {"ready", "posted", "reduced"}
              /\ serving[i].weights = weights[i]
              /\ ~quorum[i].heal
        BY DEF Servings
      <3>2. CASE Recover(i)
        <4>1. serving[i] = None /\ pc[i] = "recover"
          BY <3>1, <3>2 DEF Recover
        <4>2. CASE quorum[i].recover_dst = {}
          BY <3>2, <4>1, <4>2 DEF Recover
        <4>3. CASE quorum[i].recover_dst # {}
          <5>1. ~quorum[i].heal
            BY <1>1, <4>1, <4>3, SourcesServe DEF Active
          <5>2. serving'[i].weights = weights[i] /\ weights' = weights
            BY <1>3, <3>2, <4>3 DEF Recover, TypeOK
          <5>3. pc'[i] = "ready"
            BY <1>3, <3>2, <5>1 DEF Recover, TypeOK
          <5> QED
            BY <5>1, <5>2, <5>3
        <4> QED
          BY <4>2, <4>3
      <3>3. CASE ShouldCommit(i)
        BY <1>3, <3>3 DEF ShouldCommit, TypeOK
      <3>4. CASE ~Recover(i) /\ ~ShouldCommit(i)
        BY <1>3, <3>1, <3>4 DEF Replica, StartQuorum, RetryQuorum, MissQuorum, Configure,
             ReceiveCheckpoint, HealFails, Allreduce, CollectiveTimesOut, TypeOK, local
      <3> QED
        BY <3>2, <3>3, <3>4
    <2> QED
      BY <1>1, <2>1 DEF Servings, Same
  <1>9. CASE Keeps(i)
    <2>1. \A k \in Alive : Restored(k)' = Restored(k) /\ step'[k] = step[k]
      BY <1>4, <1>9 DEF Keeps
    <2>2. AtStart' /\ SameStepSameWeights'
      BY <1>1, <2>1 DEF AtStart, SameStepSameWeights
    <2> QED
      BY <1>2, <1>5, <1>6, <1>7, <1>8, <2>2
  <1>10. CASE ReceiveCheckpoint(i) \/ Commits(i)
    <2>1. pc[i] \in Active
      BY <1>10 DEF ReceiveCheckpoint, Commits, ShouldCommit, Active
    <2>2. PICK s, W, R : Round(P, s, W, R)
      BY <1>1, <2>1, AtWork
    <2>3. Round(P, s, W, R)'
      BY <2>2, ReplicaRound
    <2>4. MaxStep(s) \in Nat
      BY <2>2, MaxStepFits DEF Round
    <2>5. step'[i] >= MaxStep(s)
      <3>1. step'[i] = MaxStep(s) \/ step'[i] = MaxStep(s) + 1
        <4>1. CASE ReceiveCheckpoint(i)
          <5>1. step' = [step EXCEPT ![i] = MaxStep(s)]
            BY <2>2, <4>1, CheckpointFits
          <5> QED
            BY <1>3, <5>1 DEF TypeOK
        <4>2. CASE Commits(i)
          BY <2>2, <4>2, CommitFits
        <4> QED
          BY <1>10, <4>1, <4>2
      <3> QED
        BY <2>4, <3>1
    <2>6. Agreed(P)'
      BY <1>3, <1>6, <1>7, AgreeThen
    <2>7. \A k \in Alive : step'[k] = step'[i] /\ step'[k] > 0 => Restored(k)' = Restored(i)'
      BY <1>1, <2>3, <2>5, <2>6 DEF Agreed
    <2>8. SameStepSameWeights'
      <3> SUFFICES ASSUME NEW j \in Alive, NEW k \in Alive, step'[j] = step'[k], step'[j] > 0
                   PROVE  Restored(j)' = Restored(k)'
        BY <1>1 DEF SameStepSameWeights
      <3>1. CASE j = i \/ k = i
        BY <2>7, <3>1
      <3>2. CASE j # i /\ k # i
        BY <1>4, <3>2 DEF SameStepSameWeights
      <3> QED
        BY <3>1, <3>2
    <2>9. AtStart'
      <3>1. ~ (~InitSync /\ step'[i] = 0)
        <4>1. CASE Commits(i)
          <5>1. step'[i] = MaxStep(s) + 1
            BY <2>2, <4>1, CommitFits
          <5> QED
            BY <2>4, <5>1
        <4>2. CASE ReceiveCheckpoint(i) /\ ~InitSync
          <5>1. step'[i] = MaxStep(s) /\ i \in Recovering(s, 0, InitSync)
            BY <1>3, <2>2, <4>2, CheckpointFits DEF TypeOK
          <5>2. s[i] # MaxStep(s) /\ i \in DOMAIN s
            BY <4>2, <5>1 DEF Recovering
          <5>3. s[i] \in Nat /\ s[i] <= MaxStep(s)
            BY <2>2, <5>2, MaxStepFits DEF Round, IsQuorum
          <5> QED
            BY <2>4, <5>1, <5>2, <5>3
        <4> QED
          BY <1>10, <4>1, <4>2
      <3> QED
        BY <1>1, <1>4, <3>1 DEF AtStart
    <2> QED
      BY <1>2, <1>5, <1>6, <1>7, <1>8, <2>8, <2>9
  <1> QED
    BY <1>9, <1>10, HistoryKept


LEMMA CollectiveRound ==
  ASSUME NEW P, WeightsAt(P), NEW G \in {pg[i] : i \in Ids}, CollectiveEnds(G)
  PROVE  InRound(P)'
  <1> USE DEF WeightsAt, Answered, Standing
  <1>1. /\ Alive' = Alive /\ Alive \subseteq Ids /\ lighthouse' = lighthouse
        /\ quorum' = quorum /\ step' = step /\ weights' = weights
        /\ healing' = healing /\ pending' = pending
        /\ \A k \in Ids : pc'[k] = IF k \in G.members THEN "reduced" ELSE pc[k]
        /\ \A m \in G.members : pc[m] = "posted" /\ pg[m] = G
        /\ G # None
    BY CollectiveLives DEF CollectiveEnds, Alive
  <1>2. G.members \subseteq Alive /\ G.members # {}
    BY <1>1 DEF Alive, TypeOK, Groups, InOwnGroup
  <1>3. PICK Ok \in SUBSET G.members :
          /\ errored' = [i \in Ids |-> IF i \in G.members \ Ok THEN TRUE ELSE errored[i]]
          /\ reduced' = [i \in Ids |-> IF i \in Ok THEN {m \in G.members : Participating(m)}
                                       ELSE reduced[i]]
    BY DEF CollectiveEnds
  <1>4. PICK m \in G.members : TRUE
    BY <1>2
  <1>5. m \in Alive /\ pc[m] = "posted" /\ pc[m] \in Active /\ pg[m] = G
    BY <1>1, <1>2, <1>4 DEF Active
  <1>6. PICK s, W, R : Round(P, s, W, R)
    BY <1>5, AtWork
  <1>7. AnswerTo(m, s)
    BY <1>5, <1>6, AtWork
  <1>8. G.members = DOMAIN s
    <2>1. G.members = P
      BY EndedEverybody
    <2> QED
      BY <1>6, <2>1 DEF Round
  <1>12. PICK T : T = {k \in G.members : Participating(k)}
    OBVIOUS
  <1>9. ASSUME NEW k \in DOMAIN s \cap Alive
        PROVE  InRoundAt(k, s, W, T)'
    <2>1. /\ k \in G.members /\ k \in Ids /\ pc[k] = "posted" /\ pc'[k] = "reduced"
          /\ pc[k] \in Active
      BY <1>1, <1>8 DEF Active
    <2>2. InRoundAt(k, s, W, R)
      BY <1>6 DEF Round
    <2>3. Restored(k)' = Restored(k) /\ (AnswerTo(k, s)' <=> AnswerTo(k, s))
      BY <1>1 DEF Restored, AnswerTo
    <2>4. ~errored'[k] => ~errored[k] /\ reduced'[k] = T
      BY <1>3, <1>12, <2>1 DEF TypeOK
    <2>5. step[k] # MaxStep(s) + 1
      BY <2>1, <2>2 DEF InRoundAt
    <2>6. /\ AnswerTo(k, s)
          /\ step[k] \in {s[k], MaxStep(s), MaxStep(s) + 1}
          /\ k \in UpToDate(s, 0, InitSync) \/ step[k] # s[k] \/ pending[k] # None
               => Restored(k) = W /\ step[k] = MaxStep(s)
          /\ ~errored[k] => k \in UpToDate(s, 0, InitSync) \/ pending[k] # None
          /\ pending[k] # None => k \in Recovering(s, 0, InitSync)
      BY <2>1, <2>2, <2>5 DEF InRoundAt
    <2>7. step'[k] = step[k] /\ pending'[k] = pending[k]
      BY <1>1
    <2>8. AnswerTo(k, s)' /\ (pc[k] \in Active => AnswerTo(k, s)')
      BY <2>3, <2>6
    <2>9. /\ step'[k] \in {s[k], MaxStep(s), MaxStep(s) + 1}
          /\ step'[k] # MaxStep(s) + 1
          /\ k \in UpToDate(s, 0, InitSync) \/ step'[k] # s[k] \/ pending'[k] # None
               => Restored(k)' = W /\ step'[k] = MaxStep(s)
      BY <2>3, <2>5, <2>6, <2>7
    <2>10. /\ ~errored'[k] => k \in UpToDate(s, 0, InitSync) \/ pending'[k] # None
           /\ ~errored'[k] => reduced'[k] = T
           /\ pending'[k] # None => k \in Recovering(s, 0, InitSync)
      BY <2>4, <2>6, <2>7
    <2> QED
      BY <2>8, <2>9, <2>10 DEF InRoundAt
  <1>10. Round(P, s, W, T)'
    BY <1>1, <1>6, <1>9 DEF Round
  <1> QED
    BY <1>10 DEF InRound

LEMMA CollectiveWeights ==
  ASSUME NEW P, WeightsAt(P), NEW G \in {pg[i] : i \in Ids}, CollectiveEnds(G)
  PROVE  WeightsAt(P)'
  <1> USE DEF WeightsAt, Answered, Standing
  <1>1. /\ Alive' = Alive /\ Alive \subseteq Ids /\ lighthouse' = lighthouse
        /\ quorum' = quorum /\ step' = step /\ weights' = weights
        /\ healing' = healing /\ pending' = pending /\ serving' = serving
        /\ \A k \in Ids : pc'[k] = IF k \in G.members THEN "reduced" ELSE pc[k]
        /\ \A m \in G.members : pc[m] = "posted"
    BY CollectiveLives DEF CollectiveEnds, Alive
  <1>2. Answered'
    BY NextAnswered DEF Next
  <1>3. InRound(P)' /\ Everybody(P)'
    BY CollectiveRound, CollectiveEverybody
  <1>4. \A k : Restored(k)' = Restored(k)
    BY <1>1 DEF Restored
  <1>5. AtStart' /\ SameStepSameWeights'
    BY <1>1, <1>4 DEF AtStart, SameStepSameWeights
  <1>7. Pendings' /\ Servings'
    BY <1>1 DEF Pendings, Servings
  <1> QED
    BY <1>2, <1>3, <1>5, <1>7

LEMMA CrashWeights ==
  ASSUME NEW P, WeightsAt(P), NEW i \in Ids, Crash(i)
  PROVE  WeightsAt(P)'
  <1> USE DEF WeightsAt, Answered, Standing
  <1>1. /\ i + 1 \in Ids /\ i \in Alive /\ pc'[i + 1] = "start"
        /\ pc'[i] = "dead" /\ serving'[i] = None
        /\ \A k \in Ids \ {i, i + 1} : Same(k)
        /\ lighthouse' = lighthouse /\ step' = step /\ weights' = weights
        /\ healing' = healing /\ pending' = pending /\ quorum' = quorum
        /\ \A k \in Ids \ {i} : serving'[k] = serving[k]
        /\ Alive' = (Alive \ {i}) \cup {i + 1} /\ Alive \subseteq Ids
    BY CrashFrame DEF Alive
  <1>2. Answered' /\ Everybody(P)'
    BY NextAnswered, CrashEverybody DEF Next
  <1>3. /\ step[i + 1] = 0 /\ pending[i + 1] = None /\ serving[i + 1] = None /\ ~healing[i + 1]
        /\ ~InitSync => weights[i + 1] = <<>>
        /\ i + 1 \notin P
    <2>1. pc[i + 1] = "unborn"
      BY <1>1 DEF Crash, Alive, Lineage
    <2> QED
      BY <1>1, <2>1 DEF Unborn, Everybody, Born
  <1>4. \A k \in Alive' : k = i + 1 \/ (k \in Alive /\ k \in Ids /\ Same(k))
    BY <1>1
  <1>5. \A k : Restored(k)' = Restored(k)
    BY <1>1 DEF Restored
  <1>7. Pendings'
    BY <1>1, <1>3, <1>4 DEF Pendings, Same
  <1>8. Servings'
    <2>1. \A k \in Ids : serving'[k] # None => k \in Ids \ {i, i + 1}
      BY <1>1, <1>3
    <2> QED
      BY <1>1, <2>1 DEF Servings, Same
  <1>9. AtStart'
    BY <1>1, <1>3, <1>4, <1>5 DEF AtStart, Restored
  <1>10. SameStepSameWeights'
    <2>1. \A k \in Alive' : step'[k] > 0 => k \in Alive
      BY <1>1, <1>3, <1>4
    <2> QED
      BY <1>1, <1>5, <2>1 DEF SameStepSameWeights
  <1>11. InRound(P)'
    <2>1. CASE P = {}
      BY <2>1 DEF InRound
    <2>2. CASE P # {}
      <3>1. PICK s, W, R : Round(P, s, W, R)
        BY <2>2 DEF InRound
      <3>2. ASSUME NEW k \in DOMAIN s, k \in Alive'
            PROVE  InRoundAt(k, s, W, R)'
        <4>1. k \in Alive /\ Same(k)
          BY <1>3, <1>4, <2>2, <3>1, <3>2 DEF Round
        <4>2. InRoundAt(k, s, W, R)
          BY <3>1, <4>1 DEF Round
        <4>3. AnswerTo(k, s)' = AnswerTo(k, s)
          BY <4>1 DEF AnswerTo, Same
        <4> QED
          BY <1>5, <4>1, <4>2, <4>3 DEF InRoundAt, Same
      <3>3. Round(P, s, W, R)'
        BY <1>1, <3>1, <3>2 DEF Round
      <3> QED
        BY <3>3 DEF InRound
    <2> QED
      BY <2>1, <2>2
  <1> QED
    BY <1>2, <1>7, <1>8, <1>9, <1>10, <1>11

LEMMA RestartWeights ==
  ASSUME NEW P, WeightsAt(P), RestartLighthouse \/ UNCHANGED vars
  PROVE  WeightsAt(P)'
  <1> USE DEF WeightsAt
  <1>1. Alive' = Alive /\ UNCHANGED <<pc, quorum, local>>
    BY DEF Alive, RestartLighthouse, vars
  <1>2. Answered' /\ Everybody(P)'
    BY NextAnswered, RestartEverybody, EverybodyStays DEF Next
  <1>3. \A k : Restored(k)' = Restored(k) /\ \A s : AnswerTo(k, s)' = AnswerTo(k, s)
    BY <1>1 DEF Restored, AnswerTo, local
  <1>4. Pendings' /\ Servings'
    BY <1>1 DEF Pendings, Servings, local
  <1>5. AtStart' /\ SameStepSameWeights'
    BY <1>1, <1>3 DEF AtStart, SameStepSameWeights, local
  <1>6. \A s, W, R, k : InRoundAt(k, s, W, R)' <=> InRoundAt(k, s, W, R)
    BY <1>1, <1>3 DEF InRoundAt, local
  <1>7. InRound(P)'
    BY <1>1, <1>6 DEF InRound, Round
  <1> QED
    BY <1>2, <1>4, <1>5, <1>7

LEMMA NextWeights ==
  ASSUME ~Stragglers, WeightsInv, [Next]_vars
  PROVE  WeightsInv'
  <1>1. PICK P : WeightsAt(P)
    BY DEF WeightsInv
  <1>2. ASSUME NEW S \in SUBSET Registered, FormQuorum(S)
        PROVE  WeightsInv'
    BY <1>1, <1>2, FormWeights DEF WeightsInv
  <1>3. CASE RestartLighthouse \/ UNCHANGED vars
    BY <1>1, <1>3, RestartWeights DEF WeightsInv
  <1>4. ASSUME NEW G \in {pg[i] : i \in Ids}, CollectiveEnds(G)
        PROVE  WeightsInv'
    BY <1>1, <1>4, CollectiveWeights DEF WeightsInv
  <1>5. ASSUME NEW i \in Ids, Replica(i) \/ Crash(i)
        PROVE  WeightsInv'
    BY <1>1, <1>5, ReplicaWeights, CrashWeights DEF WeightsInv
  <1> QED
    BY <1>2, <1>3, <1>4, <1>5 DEF Next

\* "Replicas with the same max_step have the same model parameters"
\* (docs/source/protocol.rst:8).  It holds whatever crashes, partial failures, lost
\* answers and restarts of the lighthouse there are, as long as join_timeout does
\* not leave a live replica out of a quorum.
THEOREM SameStepsSameWeights ==
  ASSUME ~Stragglers
  PROVE  Spec => []SameStepSameWeights
  <1>1. WeightsInv => SameStepSameWeights
    BY DEF WeightsInv, WeightsAt
  <1> QED
    BY <1>1, InitWeights, NextWeights, PTL DEF Spec

-----------------------------------------------------------------------------
(* Majorities *)

\* More than half of the live replicas.
Majority(S) == S \subseteq Alive /\ 2 * Cardinality(S) > Cardinality(Alive)

NobodyDead == \A i \in Ids : pc[i] # "dead"

\* Every quorum still known, and every process group, has had a majority.
Quorate ==
  /\ lighthouse.prev # None => Majority(lighthouse.prev)
  /\ \A i \in Alive : pc[i] \in Active => Majority(quorum[i].members)
  /\ \A i \in Alive : pg[i] # None => Majority(pg[i].members)

LEMMA AliveFinite == IsFiniteSet(Alive) /\ Alive \subseteq Ids /\ Cardinality(Alive) \in Nat
  BY IdsFinite, FS_Subset, FS_CardinalityType DEF Alive

LEMMA MajoritiesMeet ==
  ASSUME NEW S, NEW T, Majority(S), Majority(T)
  PROVE  \E i \in S : i \in T
  <1> SUFFICES ASSUME S \cap T = {}
               PROVE  FALSE
    OBVIOUS
  <1>1. IsFiniteSet(S) /\ IsFiniteSet(T) /\ S \cup T \subseteq Alive /\ IsFiniteSet(S \cup T)
    BY AliveFinite, FS_Subset DEF Majority
  <1>2. Cardinality(S \cup T) = Cardinality(S) + Cardinality(T) - Cardinality(S \cap T)
    BY <1>1, FS_Union
  <1>3. Cardinality(S \cap T) = 0
    BY FS_EmptySet
  <1>4. Cardinality(S \cup T) <= Cardinality(Alive)
    BY <1>1, AliveFinite, FS_Subset
  <1>5. Cardinality(S) \in Nat /\ Cardinality(T) \in Nat /\ Cardinality(Alive) \in Nat
    BY <1>1, AliveFinite, FS_CardinalityType
  <1> QED
    BY <1>2, <1>3, <1>4, <1>5 DEF Majority

LEMMA MajorityNotEmpty ==
  ASSUME NEW S, Majority(S)
  PROVE  S # {}
  BY MajoritiesMeet

\* Unless somebody has died, a new quorum is a majority.
LEMMA FormMajority ==
  ASSUME Standing, NobodyDead, Quorate, NEW S, MayForm(S)
  PROVE  Majority(S) /\ (lighthouse.prev = None => Cardinality(S) >= MinReplicas)
  <1> USE DEF Standing
  <1>1. S \subseteq Alive
    BY DEF MayForm, Registered, Unborn, NobodyDead, Alive
  <1>2. S \cup Alive = Alive
    BY <1>1
  <1>3. CASE lighthouse.prev # None /\ lighthouse.prev \subseteq S
    <2>1. Majority(lighthouse.prev)
      BY <1>3 DEF Quorate
    <2>2. IsFiniteSet(S)
      BY <1>1, AliveFinite, FS_Subset
    <2>3. Cardinality(lighthouse.prev) <= Cardinality(S)
      BY <1>3, <2>2, FS_Subset
    <2>4. Cardinality(S) \in Nat /\ Cardinality(lighthouse.prev) \in Nat
      BY <1>3, <2>2, FS_Subset, FS_CardinalityType
    <2> QED
      BY <1>1, <1>3, <2>1, <2>3, <2>4, AliveFinite DEF Majority
  <1>4. CASE ~(lighthouse.prev # None /\ lighthouse.prev \subseteq S)
    BY <1>1, <1>2, <1>4 DEF MayForm, Majority
  <1> QED
    BY <1>3, <1>4 DEF MayForm

LEMMA FormNames ==
  ASSUME TypeOK, NEW S, FormQuorum(S), NEW k \in S \cap Alive
  PROVE  quorum'[k].id = QuorumIdFor(S) /\ quorum'[k].members = S
  <1>1. \A s : s = StepsOf(S) => quorum'[k].id = QuorumIdFor(S) /\ quorum'[k].members = DOMAIN s
    BY AnswersFit DEF AnswerTo
  <1>2. DOMAIN StepsOf(S) = S
    BY DEF StepsOf
  <1> QED
    BY <1>1, <1>2

LEMMA NextQuorate ==
  ASSUME Standing, NobodyDead, Quorate, [Next]_vars, \A i \in Ids : ~Crash(i)
  PROVE  NobodyDead' /\ Quorate' /\ Alive' = Alive
  <1> USE DEF Standing
  <1>0. ASSUME Alive' = Alive
        PROVE  \A S : Majority(S)' <=> Majority(S)
    BY <1>0 DEF Majority
  <1>1. CASE UNCHANGED vars
    BY <1>1 DEF vars, local, NobodyDead, Quorate, Majority, Alive
  <1>2. CASE RestartLighthouse
    BY <1>2 DEF RestartLighthouse, local, NobodyDead, Quorate, Majority, Alive
  <1>3. ASSUME NEW S \in SUBSET Registered, FormQuorum(S)
        PROVE  NobodyDead' /\ Quorate' /\ Alive' = Alive
    <2>1. /\ MayForm(S) /\ Alive' = Alive /\ Alive \subseteq Ids /\ lighthouse'.prev = S /\ pg' = pg
          /\ \A k \in Ids : pc'[k] = IF k \in S \cap Alive THEN "quorum" ELSE pc[k]
          /\ \A k \in Ids \ (S \cap Alive) : quorum'[k] = quorum[k]
      BY <1>3, FormLives DEF FormQuorum, Alive, local
    <2>2. Majority(S)
      BY <2>1, FormMajority
    <2>3. ASSUME NEW k \in S \cap Alive
          PROVE  quorum'[k].members = S
      BY <1>3, FormNames
    <2>4. NobodyDead'
      BY <2>1 DEF NobodyDead
    <2>5. \A k \in Alive : pc'[k] \in Active => Majority(quorum'[k].members)
      BY <2>1, <2>2, <2>3 DEF Quorate
    <2>6. \A k \in Alive : pg[k] # None => Majority(pg[k].members)
      BY DEF Quorate
    <2> HIDE DEF Majority, Alive
    <2> QED
      BY <1>0, <2>1, <2>2, <2>4, <2>5, <2>6 DEF Quorate
  <1>4. ASSUME NEW G \in {pg[i] : i \in Ids}, CollectiveEnds(G)
        PROVE  NobodyDead' /\ Quorate' /\ Alive' = Alive
    <2>1. /\ quorum' = quorum /\ pg' = pg /\ lighthouse' = lighthouse /\ Alive' = Alive
          /\ \A k \in Ids : pc'[k] = IF k \in G.members THEN "reduced" ELSE pc[k]
          /\ \A m \in G.members : pc[m] = "posted"
      BY <1>4, CollectiveLives DEF CollectiveEnds
    <2>2. \A k \in Alive : pc'[k] \in Active => pc[k] \in Active
      BY <2>1 DEF Active, Alive
    <2> QED
      BY <1>0, <2>1, <2>2 DEF Quorate, NobodyDead
  <1>5. ASSUME NEW i \in Ids, Replica(i)
        PROVE  NobodyDead' /\ Quorate' /\ Alive' = Alive
    <2>1. /\ Alive' = Alive /\ i \in Alive /\ quorum' = quorum /\ lighthouse'.prev = lighthouse.prev
          /\ pc'[i] \in Active => pc[i] \in Active
          /\ pc'[i] # "dead"
          /\ \A k \in Ids \ {i} : Same(k)
      BY <1>5, ReplicaFrame, ReplicaLives DEF SameLighthouse
    <2>2. pg'[i] # None => Majority(pg'[i].members)
      <3>1. CASE Configure(i)
        <4>1. Majority(quorum[i].members)
          BY <2>1, <3>1 DEF Configure, Quorate, Active
        <4>2. pg'[i] = pg[i] \/ pg'[i] = None \/ pg'[i] = Group(i)
          BY <3>1 DEF Configure, TypeOK
        <4> QED
          BY <2>1, <4>1, <4>2 DEF Quorate, Group
      <3>2. CASE ~Configure(i)
        <4>1. pg' = pg
          BY <1>5, <3>2 DEF Replica, StartQuorum, RetryQuorum, MissQuorum, Recover,
             ReceiveCheckpoint, HealFails, Allreduce, CollectiveTimesOut, ShouldCommit, local
        <4> QED
          BY <2>1, <4>1 DEF Quorate
      <3> QED
        BY <3>1, <3>2
    <2>3. NobodyDead'
      BY <2>1 DEF NobodyDead, Same
    <2>4. \A k \in Alive : pc'[k] \in Active => pc[k] \in Active
      BY <2>1 DEF Same, Alive
    <2>5. \A k \in Alive : pg'[k] # None => Majority(pg'[k].members)
      BY <2>1, <2>2 DEF Same, Alive, Quorate
    <2>6. Quorate'
      BY <1>0, <2>1, <2>4, <2>5 DEF Quorate
    <2> QED
      BY <2>1, <2>3, <2>6
  <1> QED
    BY <1>1, <1>2, <1>3, <1>4, <1>5 DEF Next

-----------------------------------------------------------------------------
(* Steps and checkpoints *)

\* Who is up to date, or has healed, is at the step of the quorum.
StepFits ==
  \A i \in Alive : pc[i] \in Active =>
    /\ step[i] <= quorum[i].max_step
    /\ ~quorum[i].heal => step[i] = quorum[i].max_step
    /\ pc[i] \in {"ready", "posted", "reduced"} /\ ~errored[i] => step[i] = quorum[i].max_step

\* A checkpoint is offered by an up-to-date replica, for the current step only.
Offers ==
  \A i \in Ids : serving[i] # None =>
    /\ pc[i] \in {"ready", "posted", "reduced"}
    /\ pending[i] = None
    /\ serving[i].step = step[i]
    /\ serving[i].weights = weights[i]

Paced == StepFits /\ Pendings /\ Offers

LEMMA FormPaced ==
  ASSUME Answered, Paced, NEW S, FormQuorum(S)
  PROVE  Paced'
  <1> USE DEF Answered, Standing, Paced
  <1>1. /\ MayForm(S) /\ Alive' = Alive /\ Alive \subseteq Ids
        /\ step' = step /\ weights' = weights /\ pending' = pending /\ serving' = serving
        /\ healing' = healing /\ errored' = errored
        /\ \A k \in Ids : pc'[k] = IF k \in S \cap Alive THEN "quorum" ELSE pc[k]
        /\ \A k \in Ids \ (S \cap Alive) : quorum'[k] = quorum[k]
    BY FormLives DEF FormQuorum, Alive, local
  <1>2. \A k \in S \cap Alive : pc[k] = "waiting"
    BY <1>1 DEF MayForm, Registered, Requested
  <1>3. Pendings'
    BY <1>1, <1>2 DEF Pendings
  <1>4. Offers'
    <2>1. \A k \in Ids : serving[k] # None => k \notin S \cap Alive
      BY <1>2 DEF Offers
    <2> QED
      BY <1>1, <2>1 DEF Offers
  <1>5. ASSUME NEW k \in S \cap Alive
        PROVE  step[k] <= quorum'[k].max_step /\ (~quorum'[k].heal => step[k] = quorum'[k].max_step)
    <2> DEFINE s == StepsOf(S)
    <2>1. IsQuorum(s) /\ DOMAIN s = S
      BY <1>1, StepsOfQuorum
    <2>2. /\ quorum'[k].max_step = MaxStep(s)
          /\ quorum'[k].heal <=> k \in Recovering(s, 0, InitSync)
      <3>1. \A x : x = StepsOf(S) => AnswerTo(k, x)'
        BY AnswersFit
      <3>2. \A x : x = StepsOf(S) => quorum'[k].max_step = MaxStep(x)
              /\ (quorum'[k].heal <=> k \in Recovering(x, 0, InitSync))
        BY <3>1 DEF AnswerTo
      <3> QED
        BY <3>2
    <2>3. s[k] = step[k]
      <3>1. s[k] = lighthouse.requests[k].step
        BY DEF StepsOf
      <3> QED
        BY <1>1, <3>1 DEF MayForm, Registered, Requested
    <2> HIDE DEF s
    <2>4. step[k] <= MaxStep(s)
      BY <2>1, <2>3, MaxStepFits
    <2>5. k \notin Recovering(s, 0, InitSync) => s[k] = MaxStep(s)
      BY <2>1 DEF Recovering
    <2> QED
      BY <2>2, <2>3, <2>4, <2>5
  <1>6. StepFits'
    BY <1>1, <1>5 DEF StepFits
  <1> QED
    BY <1>3, <1>4, <1>6

LEMMA ReplicaPaced ==
  ASSUME Answered, Paced, NEW i \in Ids, Replica(i)
  PROVE  Paced'
  <1> USE DEF Answered, Standing, Paced
  <1>1. /\ Alive' = Alive /\ i \in Alive /\ Alive \subseteq Ids /\ quorum' = quorum
        /\ pc'[i] \in Active => pc[i] \in Active
        /\ \A k \in Ids \ {i} : Same(k)
    BY ReplicaFrame, ReplicaLives DEF Alive
  <1> DEFINE Step(k) == pc[k] \in Active =>
               /\ step[k] <= quorum[k].max_step
               /\ ~quorum[k].heal => step[k] = quorum[k].max_step
               /\ pc[k] \in {"ready", "posted", "reduced"} /\ ~errored[k] => step[k] = quorum[k].max_step
             Offer(k) == serving[k] # None =>
               /\ pc[k] \in {"ready", "posted", "reduced"}
               /\ pending[k] = None
               /\ serving[k].step = step[k]
               /\ serving[k].weights = weights[k]
             Pend(k) == pending[k] # None => pc[k] \in {"ready", "posted", "reduced"} /\ healing[k]
  <1>2. Step(i) /\ Offer(i) /\ Pend(i)
    BY <1>1 DEF StepFits, Offers, Pendings
  <1>3. pc[i] \in Active => quorum[i].max_step \in Nat /\ quorum[i].heal \in BOOLEAN
    BY DEF TypeOK, Typed
  <1>4. Step(i)'
    <2> USE <1>2 DEF TypeOK, Active
    <2>1. CASE StartQuorum(i) \/ RetryQuorum(i) \/ MissQuorum(i)
      BY <2>1 DEF StartQuorum, RetryQuorum, MissQuorum, local
    <2>2. CASE Configure(i)
      BY <2>2 DEF Configure
    <2>3. CASE Recover(i)
      BY <1>3, <2>3 DEF Recover
    <2>4. CASE ReceiveCheckpoint(i)
      BY <1>3, <2>4 DEF ReceiveCheckpoint
    <2>5. CASE HealFails(i)
      BY <2>5 DEF HealFails
    <2>6. CASE Allreduce(i)
      BY <2>6 DEF Allreduce, local
    <2>7. CASE CollectiveTimesOut(i)
      BY <2>7 DEF CollectiveTimesOut
    <2>8. CASE ShouldCommit(i)
      BY <2>8 DEF ShouldCommit
    <2> QED
      BY <2>1, <2>2, <2>3, <2>4, <2>5, <2>6, <2>7, <2>8 DEF Replica
  <1>5. Offer(i)'
    <2>1. CASE Recover(i)
      <3>1. serving[i] = None /\ pc[i] = "recover" /\ pc[i] \in Active /\ pending[i] = None
        BY <1>1, <1>2, <2>1 DEF Recover, Active
      <3>2. CASE quorum[i].recover_dst = {}
        BY <2>1, <3>1, <3>2 DEF Recover
      <3>3. CASE quorum[i].recover_dst # {}
        <4>1. ~quorum[i].heal
          BY <1>1, <3>1, <3>3, SourcesServe
        <4>2. step[i] = quorum[i].max_step
          BY <1>2, <3>1, <4>1
        <4>3. /\ serving'[i] = [step |-> quorum[i].max_step, weights |-> weights[i]]
              /\ pc'[i] = "ready" /\ pending' = pending /\ step' = step /\ weights' = weights
          BY <2>1, <3>3, <4>1 DEF Recover, TypeOK
        <4> QED
          BY <3>1, <4>2, <4>3
      <3> QED
        BY <3>2, <3>3
    <2>2. CASE ShouldCommit(i)
      BY <2>2 DEF ShouldCommit, TypeOK
    <2>3. CASE ~Recover(i) /\ ~ShouldCommit(i)
      BY <1>2, <2>3 DEF Replica, StartQuorum, RetryQuorum, MissQuorum, Configure,
           ReceiveCheckpoint, HealFails, Allreduce, CollectiveTimesOut, TypeOK, local
    <2> QED
      BY <2>1, <2>2, <2>3
  <1>6. Pend(i)'
    <2>1. CASE ReceiveCheckpoint(i)
      <3>1. healing[i]
        BY <1>1, <2>1 DEF ReceiveCheckpoint, TypeOK, HealingFits
      <3> QED
        BY <2>1, <3>1 DEF ReceiveCheckpoint, TypeOK
    <2>2. CASE ShouldCommit(i)
      BY <2>2 DEF ShouldCommit, TypeOK
    <2>3. CASE ~ReceiveCheckpoint(i) /\ ~ShouldCommit(i)
      BY <1>2, <2>3 DEF Replica, StartQuorum, RetryQuorum, MissQuorum, Configure, Recover,
           HealFails, Allreduce, CollectiveTimesOut, TypeOK, local
    <2> QED
      BY <2>1, <2>2, <2>3
  <1>7. StepFits'
    <2>1. ASSUME NEW k \in Alive, k # i
          PROVE  Step(k)'
      BY <1>1, <2>1 DEF StepFits, Same
    <2> QED
      BY <1>1, <1>4, <2>1 DEF StepFits
  <1>8. Offers'
    <2>1. ASSUME NEW k \in Ids, k # i
          PROVE  Offer(k)'
      BY <1>1, <2>1 DEF Offers, Same
    <2> QED
      BY <1>5, <2>1 DEF Offers
  <1>9. Pendings'
    <2>1. ASSUME NEW k \in Alive, k # i
          PROVE  Pend(k)'
      BY <1>1, <2>1 DEF Pendings, Same
    <2> QED
      BY <1>1, <1>6, <2>1 DEF Pendings
  <1> QED
    BY <1>7, <1>8, <1>9

LEMMA NextPaced ==
  ASSUME Answered, Paced, [Next]_vars
  PROVE  Paced'
  <1> USE DEF Answered, Standing, Paced
  <1>1. CASE UNCHANGED vars
    BY <1>1 DEF StepFits, Pendings, Offers, Alive, vars, local
  <1>2. CASE RestartLighthouse
    BY <1>2 DEF RestartLighthouse, StepFits, Pendings, Offers, Alive, local
  <1>3. ASSUME NEW G \in {pg[i] : i \in Ids}, CollectiveEnds(G)
        PROVE  Paced'
    <2>1. /\ quorum' = quorum /\ Alive' = Alive /\ Alive \subseteq Ids
          /\ step' = step /\ weights' = weights /\ pending' = pending /\ serving' = serving
          /\ healing' = healing
          /\ \A m \in G.members : pc[m] = "posted"
          /\ \A k \in Ids : pc'[k] = IF k \in G.members THEN "reduced" ELSE pc[k]
          /\ \A k \in Ids : k \notin G.members => errored'[k] = errored[k]
      BY <1>3, CollectiveLives DEF CollectiveEnds, Alive
    <2>2. \A m \in G.members : m \in Alive => ~errored[m]
      BY <2>1 DEF OwnQuorum
    <2>3. StepFits'
      BY <2>1, <2>2 DEF StepFits, Active
    <2>4. Pendings' /\ Offers'
      BY <2>1 DEF Pendings, Offers
    <2> QED
      BY <2>3, <2>4
  <1>4. ASSUME NEW i \in Ids, Crash(i)
        PROVE  Paced'
    <2>1. /\ i + 1 \in Ids /\ pc'[i] = "dead" /\ pc'[i + 1] = "start" /\ serving'[i] = None
          /\ pc[i + 1] = "unborn"
          /\ pending' = pending /\ Alive' = (Alive \ {i}) \cup {i + 1} /\ Alive \subseteq Ids
          /\ \A k \in Ids \ {i, i + 1} : Same(k)
          /\ \A k \in Ids \ {i} : serving'[k] = serving[k]
      BY <1>4, CrashFrame DEF Crash, Lineage, Alive
    <2>2. serving[i + 1] = None /\ pending[i + 1] = None
      BY <2>1 DEF Unborn
    <2>3. \A k \in Alive' : k = i + 1 \/ (k \in Alive /\ Same(k))
      BY <2>1
    <2>4. StepFits'
      BY <2>1, <2>3 DEF StepFits, Same, Active
    <2>5. Pendings'
      BY <2>1, <2>2, <2>3 DEF Pendings, Same
    <2>6. Offers'
      <3>1. \A k \in Ids : serving'[k] # None => serving[k] # None /\ Same(k)
        BY <2>1, <2>2
      <3> QED
        BY <3>1 DEF Offers, Same
    <2> QED
      BY <2>4, <2>5, <2>6
  <1> QED
    BY <1>1, <1>2, <1>3, <1>4, FormPaced, ReplicaPaced DEF Next

LEMMA InitPaced == Init => Paced
  BY DEF Init, Paced, StepFits, Pendings, Offers, Active, Alive

-----------------------------------------------------------------------------
(* Before a restart: without a fault, a quorum works through its step together *)

Working == {"quorum", "recover", "heal", "ready", "posted"}
Idle == {"start", "waiting", "reduced"}

\* A process group is named after the quorum id it was configured for.
Named ==
  \A i \in Alive :
    /\ pg[i] # None => quorumId[i] = pg[i].prefix[2]
    /\ pc[i] \in {"recover", "heal", "posted"} \/ (pc[i] = "ready" /\ ~errored[i])
         => quorum[i].id = quorumId[i]

\* The members P of quorum k have the group g, or will configure it.
OneGroup(P, k, g) ==
  /\ g.members = P
  /\ g.prefix[2] = k
  /\ \A i \in P : IF quorumId[i] = k THEN pg[i] = g ELSE pc[i] = "quorum" /\ Group(i) = g

\* Replica i, when P is quorum k and nothing has failed.  In the first quorum,
\* those that are no members have not made a step, and the members have or will.
CalmAt(i, P, k) ==
  /\ ~errored[i]
  /\ quorumId[i] <= k
  /\ pg[i] = None => quorumId[i] = -1
  /\ i \notin P => pc[i] \in Idle
  /\ pc[i] \in Working =>
       /\ quorum[i].id = k /\ quorum[i].members = P
       /\ pc[i] \in {"ready", "posted"} /\ quorum[i].recover_dst # {} => serving[i] # None
  /\ k <= 1 /\ i \in P => step[i] > 0 \/ (pc[i] \in Active /\ NumParticipants(i) >= MinReplicas)
  /\ k <= 1 /\ i \notin P => step[i] = 0 /\ quorumId[i] = -1 /\ pc[i] \in {"start", "waiting"}

Calm(P, k) ==
  /\ k = 0 <=> P = {}
  /\ P # {} => Majority(P) /\ \E g \in Groups : OneGroup(P, k, g)
  /\ (\A i \in P : pc[i] \in Working) \/ (\A i \in P : pc[i] \in Idle)
  /\ \A i \in Alive : CalmAt(i, P, k)

LEMMA NextNamed ==
  ASSUME Standing, Named, [Next]_vars
  PROVE  Named'
  <1> USE DEF Standing
  <1> DEFINE At(i) ==
        /\ pg[i] # None => quorumId[i] = pg[i].prefix[2]
        /\ pc[i] \in {"recover", "heal", "posted"} \/ (pc[i] = "ready" /\ ~errored[i])
             => quorum[i].id = quorumId[i]
  <1>0. ASSUME NEW i \in Ids, i \in Alive, Same(i)
        PROVE  At(i)'
    BY <1>0 DEF Same, Named
  <1>1. CASE UNCHANGED vars
    BY <1>1 DEF Named, Alive, vars, local
  <1>2. CASE RestartLighthouse
    BY <1>2 DEF RestartLighthouse, Named, Alive, local
  <1>3. ASSUME NEW S \in SUBSET Registered, FormQuorum(S)
        PROVE  Named'
    <2>1. /\ Alive' = Alive /\ Alive \subseteq Ids
          /\ pg' = pg /\ quorumId' = quorumId /\ errored' = errored
          /\ \A k \in Ids : pc'[k] = IF k \in S \cap Alive THEN "quorum" ELSE pc[k]
          /\ \A k \in Ids \ (S \cap Alive) : quorum'[k] = quorum[k]
      BY <1>3, FormLives DEF FormQuorum, Alive, local
    <2> QED
      BY <2>1 DEF Named
  <1>4. ASSUME NEW G \in {pg[i] : i \in Ids}, CollectiveEnds(G)
        PROVE  Named'
    <2>1. /\ quorum' = quorum /\ Alive' = Alive /\ Alive \subseteq Ids
          /\ pg' = pg /\ quorumId' = quorumId
          /\ \A k \in Ids : pc'[k] = IF k \in G.members THEN "reduced" ELSE pc[k]
          /\ \A k \in Ids : k \notin G.members => errored'[k] = errored[k]
      BY <1>4, CollectiveLives DEF CollectiveEnds, Alive
    <2> QED
      BY <2>1 DEF Named
  <1>5. ASSUME NEW i \in Ids, Replica(i)
        PROVE  Named'
    <2>1. /\ Alive' = Alive /\ i \in Alive /\ Alive \subseteq Ids /\ quorum' = quorum
          /\ \A k \in Ids \ {i} : Same(k)
      BY <1>5, ReplicaFrame, ReplicaLives DEF Alive
    <2>2. At(i)
      BY <2>1 DEF Named
    <2>3. At(i)'
      <3> USE <2>1, <2>2 DEF TypeOK
      <3>1. CASE Configure(i)
        <4>1. Group(i).prefix[2] = quorum[i].id
          BY DEF Group
        <4> QED
          BY <3>1, <4>1 DEF Configure
      <3>2. CASE StartQuorum(i) \/ RetryQuorum(i) \/ MissQuorum(i) \/ Recover(i) \/ ReceiveCheckpoint(i)
        BY <3>2 DEF StartQuorum, RetryQuorum, MissQuorum, Recover, ReceiveCheckpoint, local
      <3>3. CASE HealFails(i) \/ Allreduce(i) \/ CollectiveTimesOut(i)
        BY <3>3 DEF HealFails, Allreduce, CollectiveTimesOut, local
      <3>4. CASE ShouldCommit(i)
        BY <3>4 DEF ShouldCommit
      <3> QED
        BY <1>5, <3>1, <3>2, <3>3, <3>4 DEF Replica
    <2>4. ASSUME NEW k \in Alive, k # i
          PROVE  At(k)'
      BY <1>0, <2>1, <2>4
    <2> QED
      BY <2>1, <2>3, <2>4 DEF Named
  <1>6. ASSUME NEW i \in Ids, Crash(i)
        PROVE  Named'
    <2>1. /\ i + 1 \in Ids /\ pc'[i + 1] = "start" /\ pc[i + 1] = "unborn" /\ pg' = pg
          /\ Alive' = (Alive \ {i}) \cup {i + 1} /\ Alive \subseteq Ids
          /\ \A k \in Ids \ {i, i + 1} : Same(k)
      BY <1>6, CrashFrame DEF Crash, Lineage, Alive
    <2>2. pg[i + 1] = None
      BY <2>1 DEF Unborn
    <2>3. \A k \in Alive' : k = i + 1 \/ (k \in Ids /\ k \in Alive /\ Same(k))
      BY <2>1
    <2>4. At(i + 1)'
      BY <2>1, <2>2
    <2> QED
      BY <1>0, <2>3, <2>4 DEF Named
  <1> QED
    BY <1>1, <1>2, <1>3, <1>4, <1>5, <1>6 DEF Next

\* In a calm quorum nobody waits in vain for a collective or a checkpoint.
LEMMA CalmCollective ==
  ASSUME Standing, Named, NEW P \in SUBSET Ids, NEW k \in Nat, Calm(P, k),
         NEW i \in Ids, CollectiveTimesOut(i)
  PROVE  FALSE
  <1> USE DEF Standing
  <1>1. i \in Alive /\ pc[i] = "posted" /\ pc[i] \in Working /\ pc[i] \notin Idle
    BY DEF CollectiveTimesOut, Alive, Working, Idle
  <1>2. CalmAt(i, P, k)
    BY <1>1 DEF Calm
  <1>3. i \in P /\ quorum[i].id = k /\ quorumId[i] = k
    BY <1>1, <1>2 DEF CalmAt, Named
  <1>4. Majority(P) /\ P \subseteq Alive /\ \A m \in P : pc[m] \in Working
    BY <1>1, <1>3 DEF Calm, Majority
  <1>5. PICK g \in Groups : OneGroup(P, k, g)
    BY <1>3 DEF Calm
  <1>6. pg[i] = g /\ g # None /\ g.members = P
    BY <1>3, <1>5, NoneAssumption DEF OneGroup
  <1>7. PICK m \in P : \/ m \notin Alive
                       \/ pg[m] # pg[i] /\ quorumId[m] >= quorumId[i]
                       \/ pc[m] \in {"reduced", "start", "waiting"}
    BY <1>6 DEF CollectiveTimesOut
  <1>8. m \in Alive /\ pc[m] \notin {"reduced", "start", "waiting"}
    BY <1>4 DEF Working
  <1>9. quorumId[m] <= k /\ quorumId[m] \in Int
    BY <1>8 DEF Calm, CalmAt, TypeOK
  <1>10. quorumId[m] = k => pg[m] = g
    BY <1>5 DEF OneGroup
  <1> QED
    BY <1>3, <1>6, <1>7, <1>8, <1>9, <1>10

LEMMA CalmHealing ==
  ASSUME Answered, Paced, NEW P \in SUBSET Ids, NEW k \in Nat, Calm(P, k),
         NEW i \in Ids, HealFails(i), ~Fault
  PROVE  FALSE
  <1> USE DEF Answered, Standing
  <1>1. i \in Alive /\ pc[i] = "heal" /\ pc[i] \in Working /\ pc[i] \notin Idle /\ quorum[i].heal
    BY DEF HealFails, Alive, Working, Idle, TypeOK
  <1>2. i \in P
    BY <1>1 DEF Calm, CalmAt
  <1>3. P \subseteq Alive /\ \A m \in P : pc[m] \in Working /\ pc[m] \in Active
    BY <1>1, <1>2 DEF Calm, Majority, Working, Active
  <1>4. \A m \in P : quorum[m].members = P
    BY <1>3 DEF Calm, CalmAt
  <1>5. PICK s : \A m \in Alive :
          pc[m] \in Active /\ quorum[m].members = P => IsQuorum(s) /\ AnswerTo(m, s)
    BY DEF OneAnswer
  <1>6. IsQuorum(s) /\ DOMAIN s = P /\ \A m \in P : AnswerTo(m, s)
    BY <1>2, <1>3, <1>4, <1>5 DEF AnswerTo
  <1>7. PICK o : o = quorum[i].recover_src
    OBVIOUS
  <1>8. i \in Recovering(s, 0, InitSync) /\ o = RecoverSrc(s, i, 0, InitSync)
    BY <1>1, <1>2, <1>6, <1>7 DEF AnswerTo
  <1>9. o \in UpToDate(s, 0, InitSync)
    BY <1>6, <1>8, SourceFits, ProtocolAssumption
  <1>10. o \in P /\ o \notin Recovering(s, 0, InitSync)
    BY <1>6, <1>9 DEF UpToDate
  <1>11. o \in Alive /\ o \in Ids /\ pc[o] \in Working /\ pc[o] \in Active /\ AnswerTo(o, s)
    BY <1>3, <1>6, <1>10
  <1>12. ~quorum[o].heal /\ quorum[o].recover_dst # {}
    BY <1>8, <1>10, <1>11 DEF AnswerTo, RecoverDst
  <1>13. pc[o] # "heal" /\ pc[o] \notin {"quorum", "recover"} /\ ~Served(i)
    BY <1>7, <1>11, <1>12 DEF HealFails, TypeOK
  <1>14. pc[o] \in {"ready", "posted"}
    BY <1>11, <1>13 DEF Working
  <1>15. serving[o] # None
    BY <1>11, <1>12, <1>14 DEF Calm, CalmAt
  <1>16. serving[o].step = step[o] /\ step[o] = quorum[o].max_step
    BY <1>11, <1>12, <1>15 DEF Paced, Offers, StepFits
  <1>17. quorum[o].max_step = quorum[i].max_step
    BY <1>2, <1>6, <1>11 DEF AnswerTo
  <1> QED
    BY <1>7, <1>13, <1>15, <1>16, <1>17 DEF Served

\* Without a fault, a member at work stays at work until all of them reduce.
LEMMA CalmWork ==
  ASSUME Answered, Paced, Named, NEW P \in SUBSET Ids, NEW k \in Nat, Calm(P, k),
         NEW i \in Ids, Replica(i), ~Fault
  PROVE  /\ pc[i] \in Working <=> pc'[i] \in Working
         /\ pc[i] \in Idle <=> pc'[i] \in Idle
         /\ errored'[i] = FALSE
         /\ \/ pg'[i] = pg[i] /\ quorumId'[i] = quorumId[i]
               /\ (pc[i] = "quorum" => pc'[i] # "quorum" /\ quorumId[i] = quorum[i].id)
            \/ /\ pc[i] = "quorum" /\ pc'[i] = "recover" /\ quorumId[i] # quorum[i].id
               /\ quorumId'[i] = quorum[i].id /\ pg'[i] = Group(i)
  <1> USE DEF Answered, Standing, TypeOK, Working, Idle
  <1>1. ~errored[i] /\ i \in Alive
    BY ReplicaLives DEF Calm, CalmAt
  <1>2. ~HealFails(i) /\ ~CollectiveTimesOut(i) /\ ~MissQuorum(i)
    BY CalmHealing, CalmCollective DEF MissQuorum
  <1>3. CASE StartQuorum(i) \/ RetryQuorum(i)
    BY <1>1, <1>3 DEF StartQuorum, RetryQuorum, local
  <1>4. CASE Configure(i)
    BY <1>1, <1>4 DEF Configure
  <1>5. CASE Recover(i)
    BY <1>1, <1>5 DEF Recover
  <1>6. CASE ReceiveCheckpoint(i)
    BY <1>1, <1>6 DEF ReceiveCheckpoint
  <1>7. CASE Allreduce(i)
    BY <1>1, <1>7 DEF Allreduce, local
  <1>8. CASE ShouldCommit(i)
    BY <1>1, <1>8 DEF ShouldCommit
  <1> QED
    BY <1>2, <1>3, <1>4, <1>5, <1>6, <1>7, <1>8 DEF Replica

LEMMA CalmReplicaAt ==
  ASSUME Answered, Paced, Named, NEW P \in SUBSET Ids, NEW k \in Nat, Calm(P, k),
         NEW i \in Ids, Replica(i), ~Fault
  PROVE  CalmAt(i, P, k)'
  <1> USE DEF Answered, Standing
  <1>1. /\ CalmAt(i, P, k) /\ quorum' = quorum /\ i \in Alive
        /\ pc'[i] \in Active => pc[i] \in Active
    BY ReplicaLives, ReplicaFrame DEF Calm
  <1>2. /\ pc[i] \in Working <=> pc'[i] \in Working
        /\ pc[i] \in Idle <=> pc'[i] \in Idle
        /\ errored'[i] = FALSE
        /\ \/ pg'[i] = pg[i] /\ quorumId'[i] = quorumId[i]
           \/ /\ pc[i] = "quorum" /\ pc'[i] = "recover"
              /\ quorumId'[i] = quorum[i].id /\ pg'[i] = Group(i)
    BY CalmWork
  <1>3. pc[i] \in Working => quorum[i].id = k /\ quorum[i].members = P
    BY <1>1 DEF CalmAt
  <1>4. quorumId'[i] <= k
    BY <1>1, <1>2, <1>3 DEF CalmAt, Working
  <1>5. pg'[i] = None => quorumId'[i] = -1
    <2>1. CASE pg'[i] = pg[i] /\ quorumId'[i] = quorumId[i]
      BY <1>1, <2>1 DEF CalmAt
    <2>2. CASE pc[i] = "quorum" /\ pg'[i] = Group(i)
      <3>1. Typed(quorum[i])
        BY <2>2 DEF TypeOK, Active
      <3>2. Group(i) # None
        BY <3>1, NoneAssumption DEF Typed, Group, Groups
      <3> QED
        BY <2>2, <3>2
    <2> QED
      BY <1>2, <2>1, <2>2
  <1>6. pc'[i] \in {"ready", "posted"} /\ quorum[i].recover_dst # {} => serving'[i] # None
    <2>1. CASE Recover(i)
      <3>1. Typed(quorum[i])
        BY <2>1 DEF Recover, TypeOK, Active
      <3>2. quorum[i].recover_dst # {} =>
              serving'[i] = [step |-> quorum[i].max_step, weights |-> weights[i]]
        BY <2>1 DEF Recover, TypeOK
      <3> QED
        BY <3>1, <3>2, NoneAssumption DEF TypeOK, Typed
    <2>2. CASE ReceiveCheckpoint(i)
      <3>1. quorum[i].heal /\ pc[i] \in Active
        BY <2>2 DEF ReceiveCheckpoint, TypeOK, Active
      <3>2. quorum[i].recover_dst = {}
        BY <1>1, <3>1, SourcesServe
      <3> QED
        BY <3>2
    <2>3. CASE Allreduce(i)
      <3>1. pc[i] = "ready" /\ serving' = serving
        BY <2>3 DEF Allreduce, local
      <3> QED
        BY <1>1, <3>1 DEF CalmAt, Working
    <2>4. CASE ~Recover(i) /\ ~ReceiveCheckpoint(i) /\ ~Allreduce(i) /\ ~HealFails(i) /\ ~Configure(i)
      BY <2>4 DEF Replica, StartQuorum, RetryQuorum, MissQuorum, CollectiveTimesOut, ShouldCommit,
         TypeOK, local
    <2>5. ~HealFails(i)
      BY CalmHealing
    <2>6. CASE Configure(i)
      BY <2>6 DEF Configure, TypeOK, Fault
    <2> QED
      BY <2>1, <2>2, <2>3, <2>4, <2>5, <2>6
  <1>7. k <= 1 /\ i \in P => step'[i] > 0 \/ (pc'[i] \in Active /\ NumParticipants(i)' >= MinReplicas)
    <2> SUFFICES ASSUME k <= 1, i \in P
                 PROVE  step'[i] > 0 \/ (pc'[i] \in Active /\ NumParticipants(i)' >= MinReplicas)
      OBVIOUS
    <2>1. step[i] > 0 \/ (pc[i] \in Active /\ NumParticipants(i) >= MinReplicas)
      BY <1>1 DEF CalmAt
    <2>2. NumParticipants(i)' = NumParticipants(i)
      BY <1>1 DEF NumParticipants
    <2>3. CASE ShouldCommit(i)
      <3>1. ~errored[i] /\ step[i] \in Nat
        BY <1>1 DEF CalmAt, TypeOK
      <3>2. CASE NumParticipants(i) >= MinReplicas
        BY <2>3, <3>1, <3>2 DEF ShouldCommit, TypeOK
      <3>3. CASE ~(NumParticipants(i) >= MinReplicas)
        <4>1. step' = step
          BY <2>3, <3>3 DEF ShouldCommit
        <4> QED
          BY <2>1, <3>3, <4>1
      <3> QED
        BY <3>2, <3>3
    <2>4. CASE ReceiveCheckpoint(i)
      <3>1. step[i] <= quorum[i].max_step /\ quorum[i].max_step \in Nat /\ step[i] \in Nat
        BY <1>1, <2>4 DEF ReceiveCheckpoint, Paced, StepFits, TypeOK, Typed, Active
      <3>2. step'[i] = quorum[i].max_step /\ pc'[i] = "ready"
        BY <2>4 DEF ReceiveCheckpoint, TypeOK
      <3> QED
        BY <2>1, <2>2, <3>1, <3>2, <2>4 DEF Active, ReceiveCheckpoint
    <2>5. CASE ~ShouldCommit(i) /\ ~ReceiveCheckpoint(i)
      <3>1. step' = step
        BY <2>5 DEF Replica, StartQuorum, RetryQuorum, MissQuorum, Configure, Recover, HealFails,
           Allreduce, CollectiveTimesOut, local
      <3>2. pc[i] \in Active => pc'[i] \in Active
        BY <2>5 DEF Replica, StartQuorum, RetryQuorum, MissQuorum, Configure, Recover, HealFails,
           Allreduce, CollectiveTimesOut, TypeOK, Active, Fault
      <3> QED
        BY <2>1, <2>2, <3>1, <3>2
    <2> QED
      BY <2>3, <2>4, <2>5
  <1>8. k <= 1 /\ i \notin P =>
          step'[i] = 0 /\ quorumId'[i] = -1 /\ pc'[i] \in {"start", "waiting"}
    <2> SUFFICES ASSUME k <= 1, i \notin P
                 PROVE  step'[i] = 0 /\ quorumId'[i] = -1 /\ pc'[i] \in {"start", "waiting"}
      OBVIOUS
    <2>1. step[i] = 0 /\ quorumId[i] = -1 /\ pc[i] \in {"start", "waiting"}
      BY <1>1 DEF CalmAt
    <2>2. StartQuorum(i) \/ RetryQuorum(i)
      BY <2>1 DEF Replica, StartQuorum, RetryQuorum, MissQuorum, Configure, Recover,
         ReceiveCheckpoint, HealFails, Allreduce, CollectiveTimesOut, ShouldCommit
    <2> QED
      BY <2>1, <2>2 DEF StartQuorum, RetryQuorum, TypeOK, local
  <1> QED
    BY <1>1, <1>2, <1>3, <1>4, <1>5, <1>6, <1>7, <1>8 DEF CalmAt

LEMMA CalmReplica ==
  ASSUME Answered, Paced, Named, NEW P \in SUBSET Ids, NEW k \in Nat, Calm(P, k),
         NEW i \in Ids, Replica(i), ~Fault
  PROVE  Calm(P, k)'
  <1> USE DEF Answered, Standing
  <1>1. /\ Alive' = Alive /\ i \in Alive /\ Alive \subseteq Ids /\ quorum' = quorum
        /\ \A j \in Ids \ {i} : Same(j)
    BY ReplicaLives, ReplicaFrame DEF Alive
  <1>2. ASSUME NEW j \in Alive
        PROVE  CalmAt(j, P, k)'
    <2>1. CASE j = i
      BY <2>1, CalmReplicaAt
    <2>2. CASE j # i
      <3>1. CalmAt(j, P, k) /\ Same(j) /\ NumParticipants(j)' = NumParticipants(j)
        BY <1>1, <2>2 DEF Calm, NumParticipants
      <3> QED
        BY <3>1 DEF CalmAt, Same
    <2> QED
      BY <2>1, <2>2
  <1>3. /\ pc[i] \in Working <=> pc'[i] \in Working
        /\ pc[i] \in Idle <=> pc'[i] \in Idle
    BY CalmWork
  <1>4. (\A j \in P : pc'[j] \in Working) \/ (\A j \in P : pc'[j] \in Idle)
    <2>1. \A j \in P : /\ pc[j] \in Working <=> pc'[j] \in Working
                       /\ pc[j] \in Idle <=> pc'[j] \in Idle
      BY <1>1, <1>3 DEF Same
    <2> QED
      BY <2>1 DEF Calm
  <1>5. ASSUME NEW g \in Groups, OneGroup(P, k, g)
        PROVE  OneGroup(P, k, g)'
    <2>1. ASSUME NEW j \in P
          PROVE  IF quorumId'[j] = k THEN pg'[j] = g ELSE pc'[j] = "quorum" /\ Group(j)' = g
      <3>1. IF quorumId[j] = k THEN pg[j] = g ELSE pc[j] = "quorum" /\ Group(j) = g
        BY <1>5 DEF OneGroup
      <3>2. Group(j)' = Group(j)
        BY <1>1 DEF Group
      <3>3. CASE j # i
        BY <1>1, <3>1, <3>2, <3>3 DEF Same
      <3>4. CASE j = i
        <4>1. pc[i] \in Working => quorum[i].id = k
          BY <1>1 DEF Calm, CalmAt
        <4>2. CASE pg'[i] = pg[i] /\ quorumId'[i] = quorumId[i] /\ pc[i] # "quorum"
          BY <3>1, <3>4, <4>2
        <4>3. CASE /\ pc[i] = "quorum"
                   /\ pg'[i] = pg[i] /\ quorumId'[i] = quorumId[i] /\ quorumId[i] = quorum[i].id
          BY <3>1, <3>4, <4>1, <4>3 DEF Working
        <4>4. CASE /\ pc[i] = "quorum" /\ quorumId[i] # quorum[i].id
                   /\ quorumId'[i] = quorum[i].id /\ pg'[i] = Group(i)
          BY <3>1, <3>4, <4>1, <4>4 DEF Working
        <4> QED
          BY <4>2, <4>3, <4>4, CalmWork
      <3> QED
        BY <3>3, <3>4
    <2> QED
      BY <1>5, <2>1 DEF OneGroup
  <1>6. Majority(P)' <=> Majority(P)
    BY <1>1 DEF Majority
  <1> QED
    BY <1>1, <1>2, <1>4, <1>5, <1>6 DEF Calm

\* A collective that ends is one of the calm quorum.
LEMMA CalmEnded ==
  ASSUME Answered, Named, NEW P \in SUBSET Ids, NEW k \in Nat, Calm(P, k),
         NEW G \in {pg[i] : i \in Ids}, CollectiveEnds(G)
  PROVE  G.members = P /\ \A m \in P : m \in Alive /\ pc[m] = "posted" /\ quorum[m].members = P
  <1> USE DEF Answered, Standing
  <1>1. G # None /\ \A m \in G.members : pc[m] = "posted" /\ pg[m] = G
    BY DEF CollectiveEnds
  <1>2. PICK i \in Ids : pg[i] = G
    OBVIOUS
  <1>3. i \in G.members /\ G.members \subseteq Ids
    BY <1>1, <1>2 DEF InOwnGroup, TypeOK, Groups
  <1>4. i \in Alive /\ pc[i] = "posted" /\ pc[i] \in Working /\ pc[i] \notin Idle
    BY <1>1, <1>3 DEF Alive, Working, Idle
  <1>5. i \in P /\ quorumId[i] = k
    BY <1>4 DEF Calm, CalmAt, Named
  <1>6. PICK g \in Groups : OneGroup(P, k, g)
    BY <1>5 DEF Calm
  <1>7. G.members = P
    BY <1>2, <1>5, <1>6 DEF OneGroup
  <1>8. \A m \in P : m \in Alive /\ pc[m] \in Working
    BY <1>1, <1>3, <1>7 DEF Alive, Working
  <1>9. \A m \in P : quorum[m].members = P
    BY <1>8 DEF Calm, CalmAt
  <1> QED
    BY <1>1, <1>7, <1>8, <1>9

LEMMA CalmEnds ==
  ASSUME Answered, Named, NEW P \in SUBSET Ids, NEW k \in Nat, Calm(P, k),
         NEW G \in {pg[i] : i \in Ids}, CollectiveEnds(G), ~Fault
  PROVE  Calm(P, k)'
  <1> USE DEF Answered, Standing
  <1>1. G.members = P /\ \A m \in P : m \in Alive /\ pc[m] = "posted"
    BY CalmEnded
  <1>2. /\ Alive' = Alive /\ Alive \subseteq Ids /\ quorum' = quorum /\ step' = step
        /\ serving' = serving /\ pg' = pg /\ quorumId' = quorumId
        /\ \A j \in Ids : pc'[j] = IF j \in P THEN "reduced" ELSE pc[j]
    BY <1>1, CollectiveLives DEF CollectiveEnds, Alive
  <1>3. \A j \in Ids : errored'[j] = errored[j]
    <2>1. PICK Ok \in SUBSET G.members :
            /\ IF Ok = G.members THEN UNCHANGED faults ELSE Fault
            /\ errored' = [j \in Ids |-> IF j \in G.members \ Ok THEN TRUE ELSE errored[j]]
      BY DEF CollectiveEnds
    <2>2. Ok = G.members
      BY <2>1
    <2> QED
      BY <2>1, <2>2
  <1>4. ASSUME NEW j \in Alive
        PROVE  CalmAt(j, P, k)'
    <2>1. CalmAt(j, P, k) /\ NumParticipants(j)' = NumParticipants(j) /\ j \in Ids
      BY <1>2 DEF Calm, NumParticipants
    <2>2. CASE j \in P
      <3>1. pc[j] = "posted" /\ pc'[j] = "reduced" /\ pc'[j] \in Active /\ pc'[j] \notin Working
        BY <1>1, <1>2, <2>1, <2>2 DEF Active, Working
      <3> QED
        BY <1>2, <1>3, <2>1, <2>2, <3>1 DEF CalmAt, Active, Working, Idle
    <2>3. CASE j \notin P
      <3>1. pc'[j] = pc[j]
        BY <1>2, <2>1, <2>3
      <3> QED
        BY <1>2, <1>3, <2>1, <2>3, <3>1 DEF CalmAt
    <2> QED
      BY <2>2, <2>3
  <1>5. \A j \in P : pc'[j] \in Idle
    BY <1>2 DEF Idle
  <1>6. ASSUME NEW g \in Groups, OneGroup(P, k, g)
        PROVE  OneGroup(P, k, g)'
    BY <1>1, <1>2, <1>6 DEF OneGroup
  <1>7. Majority(P)' <=> Majority(P)
    BY <1>2 DEF Majority
  <1> QED
    BY <1>2, <1>4, <1>5, <1>6, <1>7 DEF Calm

\* The quorum before has finished its step when the next one forms.
LEMMA AllIdle ==
  ASSUME Standing, NobodyDead, Quorate, NEW P \in SUBSET Ids, NEW k \in Nat, Calm(P, k),
         NEW S, MayForm(S)
  PROVE  /\ Majority(S) /\ S # {}
         /\ \A i \in S : i \in Alive /\ pc[i] = "waiting"
         /\ \A i \in Alive : pc[i] \in Idle
  <1> USE DEF Standing
  <1>1. Majority(S)
    BY FormMajority
  <1>2. \A i \in S : i \in Alive /\ pc[i] = "waiting"
    BY <1>1 DEF Majority, MayForm, Registered, Requested
  <1>3. P # {} => \A i \in P : pc[i] \in Idle
    <2> SUFFICES ASSUME P # {}
                 PROVE  \A i \in P : pc[i] \in Idle
      OBVIOUS
    <2>1. PICK i \in P : i \in S
      BY <1>1, MajoritiesMeet DEF Calm
    <2>2. pc[i] \notin Working
      BY <1>2, <2>1 DEF Working
    <2> QED
      BY <2>2 DEF Calm
  <1>4. \A i \in Alive : pc[i] \in Idle
    BY <1>3 DEF Calm, CalmAt
  <1> QED
    BY <1>1, <1>2, <1>4 DEF MayForm

\* The answers to a first quorum: all start alike, and all count.
LEMMA FirstAnswers ==
  ASSUME TypeOK, NEW S, FormQuorum(S), Cardinality(S) >= MinReplicas,
         \A j \in S : lighthouse.requests[j].step = 0, NEW i \in S \cap Alive
  PROVE  NumParticipants(i)' >= MinReplicas
  <1> DEFINE s == StepsOf(S)
  <1>1. IsQuorum(s) /\ DOMAIN s = S
    BY StepsOfQuorum DEF FormQuorum
  <1>2. \A j \in S : s[j] = 0
    BY DEF StepsOf
  <1>3. quorum'[i].max_world_size = Cardinality(MaxParticipants(s))
    <2>1. \A x : x = StepsOf(S) => AnswerTo(i, x)'
      BY AnswersFit
    <2>2. \A x : x = StepsOf(S) => quorum'[i].max_world_size = Cardinality(MaxParticipants(x))
      BY <2>1 DEF AnswerTo
    <2> QED
      BY <2>2
  <1> HIDE DEF s
  <1>4. PICK j \in S : j \in MaxParticipants(s)
    <2>1. Cardinality(MaxParticipants(s)) # 0 /\ MaxParticipants(s) \subseteq S
      BY <1>1, MaxStepFits
    <2> QED
      BY <2>1, FS_EmptySet
  <1>5. MaxStep(s) = 0
    BY <1>1, <1>2, <1>4 DEF MaxParticipants
  <1>6. MaxParticipants(s) = S
    BY <1>1, <1>2, <1>5 DEF MaxParticipants
  <1>7. Cardinality(S) \in Nat /\ MinReplicas \in Nat
    BY <1>1, FS_CardinalityType, ProtocolAssumption DEF IsQuorum
  <1> QED
    BY <1>3, <1>6, <1>7 DEF NumParticipants

LEMMA CalmForm ==
  ASSUME Standing, NobodyDead, Quorate, NEW P \in SUBSET Ids, NEW k \in Nat, Calm(P, k),
         NEW S, FormQuorum(S), NEW n, n = QuorumIdFor(S), lighthouse.id = k,
         P = {} => lighthouse.prev = None, P # {} => lighthouse.prev = P
  PROVE  Calm(S, n)'
  <1> USE DEF Standing
  <1>0. MayForm(S) /\ S \in SUBSET Ids
    BY DEF FormQuorum, MayForm, Registered
  <1>1. /\ Alive' = Alive /\ Alive \subseteq Ids /\ Majority(S) /\ S # {}
        /\ pg' = pg /\ quorumId' = quorumId /\ step' = step /\ errored' = errored
        /\ \A i \in S : i \in Alive /\ pc[i] = "waiting"
        /\ \A j \in Ids : pc'[j] = IF j \in S THEN "quorum" ELSE pc[j]
        /\ \A j \in Ids \ S : quorum'[j] = quorum[j]
        /\ \A j \in Alive : pc[j] \in Idle
    <2>1. Majority(S) /\ S # {} /\ S \cap Alive = S
          /\ \A i \in S : i \in Alive /\ pc[i] = "waiting"
      BY <1>0, AllIdle
    <2>2. \A j \in Alive : pc[j] \in Idle
      BY <1>0, AllIdle
    <2> QED
      BY <2>1, <2>2, FormLives DEF FormQuorum, Alive, local
  <1>2. \A j \in S : quorum'[j].id = n /\ quorum'[j].members = S
    BY <1>1, FormNames
  <1>3. /\ n \in Nat /\ n # 0 /\ k <= n
        /\ n = k => P = S
        /\ n <= 1 => k = 0 \/ (k = 1 /\ P = S)
    <2>1. n = k \/ n = k + 1
      BY DEF QuorumIdFor
    <2>2. n = k => lighthouse.prev = S /\ lighthouse.prev # None
      BY DEF QuorumIdFor
    <2>3. n = k => P = S
      BY <2>2
    <2>4. n = k => k # 0
      BY <1>1, <2>3 DEF Calm
    <2> QED
      BY <2>1, <2>3, <2>4
  <1>4. lighthouse'.id = n
    BY DEF FormQuorum
  <1>5. \E g \in Groups : OneGroup(S, n, g)'
    <2>1. CASE n = k
      <3>1. P = S /\ \A i \in P : pc[i] = "waiting"
        BY <1>1, <1>3, <2>1
      <3>2. PICK g \in Groups : OneGroup(P, k, g)
        BY <1>1, <3>1 DEF Calm
      <3>3. \A i \in P : quorumId[i] = k /\ pg[i] = g
        BY <3>1, <3>2 DEF OneGroup
      <3>4. OneGroup(S, n, g)'
        BY <1>1, <2>1, <3>1, <3>2, <3>3 DEF OneGroup
      <3> QED
        BY <3>4
    <2>2. CASE n # k
      <3>1. PICK x : x = StepsOf(S)
        OBVIOUS
      <3>2. Primary(x, 0) \in Nat
        <4>1. IsQuorum(x)
          BY <1>0, <3>1, StepsOfQuorum
        <4> QED
          BY <4>1, PrimaryFits, MaxStepFits
      <3>3. PICK g \in Groups : g = [prefix |-> <<Primary(x, 0), n>>, members |-> S]
        BY <1>0, <1>3, <3>2 DEF Groups
      <3>4. \A j \in S : quorumId[j] # n
        <4>1. \A j \in S : quorumId[j] <= k /\ quorumId[j] \in Int
          BY <1>0, <1>1 DEF Calm, CalmAt, TypeOK
        <4> QED
          BY <1>3, <2>2, <4>1
      <3>5. \A j \in S : Group(j)' = g
        <4> SUFFICES ASSUME NEW j \in S
                     PROVE  Group(j)' = g
          OBVIOUS
        <4>1. AnswerTo(j, x)'
          BY <1>1, <3>1, AnswersFit
        <4>2. quorum'[j].store = Primary(x, 0)
          BY <4>1 DEF AnswerTo
        <4> QED
          BY <1>2, <3>3, <4>2 DEF Group
      <3>6. g.members = S /\ g.prefix[2] = n
        BY <3>3
      <3>7. OneGroup(S, n, g)'
        BY <1>0, <1>1, <3>4, <3>5, <3>6 DEF OneGroup
      <3> QED
        BY <3>3, <3>7
    <2> QED
      BY <2>1, <2>2
  <1>6. ASSUME NEW j \in Alive
        PROVE  CalmAt(j, S, n)'
    <2>1. CalmAt(j, P, k) /\ j \in Ids /\ pc[j] \in Idle
      BY <1>1 DEF Calm
    <2>2. quorumId[j] <= n
      <3>1. quorumId[j] <= k /\ quorumId[j] \in Int
        BY <2>1 DEF CalmAt, TypeOK
      <3> QED
        BY <1>3, <3>1
    <2>3. n <= 1 /\ j \in S =>
            step[j] > 0 \/ (pc'[j] \in Active /\ NumParticipants(j)' >= MinReplicas)
      <3> SUFFICES ASSUME n <= 1, j \in S
                   PROVE  step[j] > 0 \/ (pc'[j] \in Active /\ NumParticipants(j)' >= MinReplicas)
        OBVIOUS
      <3>1. CASE k = 1 /\ P = S
        BY <1>1, <2>1, <3>1 DEF CalmAt, Active
      <3>2. CASE k = 0
        <4>1. P = {} /\ lighthouse.prev = None
          BY <3>2 DEF Calm
        <4>2. Cardinality(S) >= MinReplicas
          BY <1>0, <4>1, FormMajority
        <4>3. \A x \in S : lighthouse.requests[x].step = 0
          <5> SUFFICES ASSUME NEW x \in S
                       PROVE  lighthouse.requests[x].step = 0
            OBVIOUS
          <5>1. x \in Alive /\ lighthouse.requests[x] # None
            BY <1>0, <1>1 DEF MayForm, Registered
          <5>2. step[x] = 0
            BY <3>2, <4>1, <5>1 DEF Calm, CalmAt
          <5> QED
            BY <5>1, <5>2 DEF Requested
        <4>4. NumParticipants(j)' >= MinReplicas
          BY <4>2, <4>3, FirstAnswers
        <4> QED
          BY <1>1, <2>1, <4>4 DEF Active
      <3> QED
        BY <1>3, <3>1, <3>2
    <2>4. n <= 1 /\ j \notin S =>
            step[j] = 0 /\ quorumId[j] = -1 /\ pc[j] \in {"start", "waiting"}
      <3> SUFFICES ASSUME n <= 1, j \notin S
                   PROVE  step[j] = 0 /\ quorumId[j] = -1 /\ pc[j] \in {"start", "waiting"}
        OBVIOUS
      <3>1. k <= 1 /\ j \notin P
        BY <1>3 DEF Calm
      <3> QED
        BY <2>1, <3>1 DEF CalmAt
    <2>5. pg[j] = None => quorumId[j] = -1
      BY <2>1 DEF CalmAt
    <2>6. ~errored[j]
      BY <2>1 DEF CalmAt
    <2>7. CASE j \in S
      <3>1. pc'[j] = "quorum"
        BY <1>1, <2>1, <2>7
      <3> QED
        BY <1>1, <1>2, <2>2, <2>3, <2>5, <2>6, <2>7, <3>1 DEF CalmAt
    <2>8. CASE j \notin S
      <3>1. pc'[j] = pc[j] /\ pc[j] \notin Working
        BY <1>1, <2>1, <2>8 DEF Idle, Working
      <3> QED
        BY <1>1, <2>1, <2>2, <2>4, <2>5, <2>6, <2>8, <3>1 DEF CalmAt
    <2> QED
      BY <2>7, <2>8
  <1>7. \A j \in S : pc'[j] \in Working
    BY <1>0, <1>1 DEF Working
  <1>8. Majority(S)'
    BY <1>1 DEF Majority
  <1> QED
    BY <1>1, <1>3, <1>5, <1>6, <1>7, <1>8 DEF Calm

-----------------------------------------------------------------------------
(* After a restart: quorum ids are given a second time *)

\* The id of the group of i has been given since the restart, and i will not take
\* the group for that of another quorum: the ids it has not met yet are higher.
Renewed(i) ==
  /\ pg[i] # None
  /\ quorumId[i] <= lighthouse.id
  /\ quorumId[i] = lighthouse.id => pg[i].members = lighthouse.prev
  /\ pc[i] \in Working /\ quorum[i].id = quorumId[i] => Fits(i)

WillConfigure(i) == pc[i] = "quorum" /\ quorumId[i] # quorum[i].id

\* G is a smaller group of the same id as the first new quorum F, whose members
\* keep it: those up to date are all in G, and somebody else in F has no part in
\* it, so that its collective fails and there is a new id.
Lucky(G, F) ==
  /\ G.members \subseteq F /\ G.members # F
  /\ \E s : /\ IsQuorum(s) /\ MaxParticipants(s) \subseteq G.members
            /\ \A i \in Alive : pc[i] \in Working /\ quorum[i].id = 1 => AnswerTo(i, s)
  /\ lighthouse.id = 1 =>
       /\ \A m \in G.members : pg[m] = G
       /\ \E j \in F \ G.members :
            WillConfigure(j) \/ (pc[j] \in Working /\ Fits(j)) \/ WillFail(j)

\* No collective of G ends with members that a quorum takes for its own, but
\* for a lucky one.
Kept(G, F) ==
  \/ \E m \in G.members : Renewed(m) \/ WillConfigure(m)
  \/ G.prefix[2] # 1 /\ \E m \in G.members : quorumId[m] = 1
  \/ G.prefix[2] = 1 /\ ~(G.members \subseteq F)
  \/ G.prefix[2] = 1 /\ Lucky(G, F)

\* Those at work know the quorums of the new numbering, which started with F.
Renumbered(F) ==
  /\ Majority(F)
  /\ lighthouse.prev # None
  /\ lighthouse.id # 0
  /\ lighthouse.id = 1 => lighthouse.prev = F
  /\ \A i \in Alive : pc[i] \in Working =>
       /\ quorum[i].id # 0
       /\ quorum[i].id <= lighthouse.id
       /\ quorum[i].id = 1 => quorum[i].members = F
       /\ quorum[i].id = lighthouse.id => quorum[i].members = lighthouse.prev
       /\ \A j \in Alive : pc[j] \in Working /\ quorum[j].id = quorum[i].id =>
            quorum[j].members = quorum[i].members

After(F) == Renumbered(F) /\ \A i \in Alive : pg[i] # None => Kept(pg[i], F)

\* A collective that ends after a restart is still of one quorum, and of all of
\* it that are up to date.
LEMMA AfterEnded ==
  ASSUME Answered, Named, NEW F, After(F),
         NEW G \in {pg[i] : i \in Ids}, CollectiveEnds(G)
  PROVE  \E s : WholeGroup(G, s)
  <1> USE DEF Answered, Standing
  <1>1. /\ G # None /\ \A m \in G.members : pc[m] = "posted" /\ pg[m] = G
        /\ G \in Groups /\ G.members \subseteq Ids
    BY DEF CollectiveEnds, TypeOK, Groups
  <1>2. PICK i \in G.members : TRUE
    BY <1>1 DEF InOwnGroup
  <1>3. \A m \in G.members :
          /\ m \in Alive /\ pc[m] \in Working /\ pc[m] \in Active
          /\ quorumId[m] = G.prefix[2] /\ quorum[m].id = G.prefix[2]
    BY <1>1 DEF Alive, Working, Active, Named
  <1>4. PICK M : M = quorum[i].members
    OBVIOUS
  <1>5. \A m \in G.members : quorum[m].members = M /\ m \in M
    BY <1>2, <1>3, <1>4 DEF After, Renumbered, OwnQuorum
  <1>6. PICK s : \A m \in Alive :
          pc[m] \in Active /\ quorum[m].members = M => IsQuorum(s) /\ AnswerTo(m, s)
    BY DEF OneAnswer
  <1>7. IsQuorum(s) /\ DOMAIN s = M /\ \A m \in G.members : AnswerTo(m, s)
    BY <1>2, <1>3, <1>4, <1>5, <1>6 DEF AnswerTo
  <1>8. ASSUME G.members = M
        PROVE  \E x : WholeGroup(G, x)
    BY <1>7, <1>8 DEF WholeGroup, OneQuorum, MaxParticipants
  <1>9. Kept(G, F)
    BY <1>1, <1>2, <1>3 DEF After
  <1>10. ASSUME NEW m \in G.members, Renewed(m) \/ WillConfigure(m)
         PROVE  G.members = M
    <2>1. ~WillConfigure(m)
      BY <1>1 DEF WillConfigure
    <2>2. Fits(m)
      BY <1>3, <1>10, <2>1 DEF Renewed
    <2> QED
      BY <1>1, <1>5, <2>2 DEF Fits
  <1>11. ~(G.prefix[2] # 1 /\ \E m \in G.members : quorumId[m] = 1)
    BY <1>3
  <1>12. G.prefix[2] = 1 => G.members \subseteq F
    BY <1>2, <1>3, <1>4, <1>5 DEF After, Renumbered
  <1>13. ASSUME G.prefix[2] = 1, Lucky(G, F)
         PROVE  \E x : WholeGroup(G, x)
    <2>1. PICK x : /\ IsQuorum(x) /\ MaxParticipants(x) \subseteq G.members
                   /\ \A j \in Alive : pc[j] \in Working /\ quorum[j].id = 1 => AnswerTo(j, x)
      BY <1>13 DEF Lucky
    <2>2. \A m \in G.members : AnswerTo(m, x)
      BY <1>3, <1>13, <2>1
    <2>3. G.members \subseteq DOMAIN x
      BY <2>2 DEF AnswerTo
    <2> QED
      BY <2>1, <2>2, <2>3 DEF WholeGroup, OneQuorum
  <1> QED
    BY <1>8, <1>9, <1>10, <1>11, <1>12, <1>13 DEF Kept

\* The first new quorum: the members of its predecessor have finished their step.
LEMMA AfterFirst ==
  ASSUME Standing, Named, NobodyDead, Quorate, NEW P \in SUBSET Ids, NEW k \in Nat, Calm(P, k),
         lighthouse.prev = None, lighthouse.id = 0, NEW S, FormQuorum(S)
  PROVE  After(S)'
  <1> USE DEF Standing
  <1>0. MayForm(S) /\ S \in SUBSET Ids
    BY DEF FormQuorum, MayForm, Registered
  <1>1. /\ Alive' = Alive /\ Alive \subseteq Ids /\ Majority(S) /\ S # {}
        /\ pg' = pg /\ quorumId' = quorumId
        /\ \A i \in S : i \in Alive /\ pc[i] = "waiting"
        /\ \A j \in Ids : pc'[j] = IF j \in S THEN "quorum" ELSE pc[j]
        /\ \A j \in Alive : pc[j] \in Idle
    <2>1. Majority(S) /\ S # {} /\ S \cap Alive = S
          /\ \A i \in S : i \in Alive /\ pc[i] = "waiting"
      BY <1>0, AllIdle
    <2>2. \A j \in Alive : pc[j] \in Idle
      BY <1>0, AllIdle
    <2> QED
      BY <2>1, <2>2, FormLives DEF FormQuorum, Alive, local
  <1>2. lighthouse'.id = 1 /\ lighthouse'.prev = S
    BY DEF FormQuorum, QuorumIdFor
  <1>3. \A j \in S : quorum'[j].id = 1 /\ quorum'[j].members = S
    <2>1. QuorumIdFor(S) = 1
      BY DEF QuorumIdFor
    <2> QED
      BY <1>1, <2>1, FormNames
  <1>4. \A j \in Alive : pc'[j] \in Working <=> j \in S
    BY <1>1 DEF Working, Idle
  <1>5. S # None /\ Majority(S)'
    BY <1>0, <1>1, NoneAssumption DEF Majority
  <1>6. Renumbered(S)'
    <2>1. \A j \in Alive : pc'[j] \in Working => quorum'[j].id = 1 /\ quorum'[j].members = S
      BY <1>3, <1>4
    <2> QED
      BY <1>1, <1>2, <1>5, <2>1 DEF Renumbered
  <1>7. ASSUME NEW i \in Alive, NEW G, G = pg[i], G # None
        PROVE  Kept(G, S)'
    <2>1. i \in Ids /\ i \in G.members /\ G \in Groups /\ Majority(G.members)
          /\ quorumId[i] = G.prefix[2]
      BY <1>1, <1>7 DEF InOwnGroup, TypeOK, Quorate, Named
    <2>2. PICK x \in G.members : x \in S
      BY <1>1, <2>1, MajoritiesMeet
    <2>3. ASSUME NEW m \in S, quorumId[m] # 1
          PROVE  WillConfigure(m)'
      BY <1>0, <1>1, <1>3, <2>3 DEF WillConfigure
    <2>4. CASE G.prefix[2] # 1
      <3>1. CASE quorumId[x] = 1
        BY <1>1, <2>4, <3>1 DEF Kept
      <3>2. CASE quorumId[x] # 1
        BY <2>2, <2>3, <3>2 DEF Kept
      <3> QED
        BY <3>1, <3>2
    <2>5. CASE G.prefix[2] = 1 /\ ~(G.members \subseteq S)
      BY <2>5 DEF Kept
    <2>6. CASE G.prefix[2] = 1 /\ G.members \subseteq S /\ \E m \in G.members : quorumId[m] # 1
      BY <2>3, <2>6 DEF Kept
    <2>7. CASE /\ G.prefix[2] = 1 /\ G.members \subseteq S
               /\ \A m \in G.members : quorumId[m] = 1
      <3>1. CASE G.members = S
        <4>1. Renewed(i)'
          <5>1. quorum'[i].members = S /\ pg'[i] = G
            BY <1>1, <1>3, <1>7, <2>1, <3>1
          <5> QED
            BY <1>1, <1>2, <1>7, <2>1, <2>7, <3>1, <5>1 DEF Renewed, Fits
        <4> QED
          BY <2>1, <4>1 DEF Kept
      <3>2. CASE G.members # S
        <4>1. CalmAt(i, P, k)
          BY DEF Calm
        <4>2. k # 0 /\ P # {}
          BY <2>1, <2>7, <4>1 DEF Calm, CalmAt
        <4>3. PICK g \in Groups : OneGroup(P, k, g)
          BY <4>2 DEF Calm
        <4>4. \A j \in P : j \in Alive /\ pc[j] # "quorum"
          BY <1>1, <4>2 DEF Calm, Majority, Idle
        <4>5. \A j \in P : quorumId[j] = k /\ pg[j] = g
          BY <4>3, <4>4 DEF OneGroup
        <4>6. k = 1
          <5>1. PICK j \in P : j \in G.members
            BY <2>1, <4>2, MajoritiesMeet DEF Calm
          <5> QED
            BY <2>7, <4>5, <5>1
        <4>7. i \in P
          BY <2>1, <2>7, <4>1, <4>6 DEF CalmAt
        <4>8. G = g /\ G.members = P
          BY <1>7, <4>3, <4>5, <4>7 DEF OneGroup
        <4>9. PICK s : s = StepsOf(S)
          OBVIOUS
        <4>10. IsQuorum(s) /\ DOMAIN s = S /\ \A j \in S : s[j] = step[j] /\ step[j] \in Nat
          <5>1. IsQuorum(s) /\ DOMAIN s = S
            BY <1>0, <4>9, StepsOfQuorum
          <5>2. \A j \in S : s[j] = lighthouse.requests[j].step
            BY <4>9 DEF StepsOf
          <5>3. \A j \in S : lighthouse.requests[j].step = step[j]
            BY <1>0, <1>1 DEF MayForm, Registered, Requested
          <5> QED
            BY <1>0, <5>1, <5>2, <5>3 DEF TypeOK
        <4>11. \A j \in S : IF j \in P THEN s[j] > 0 ELSE s[j] = 0 /\ quorumId[j] = -1
          <5>1. \A j \in S : CalmAt(j, P, k) /\ pc[j] \notin Active
            BY <1>1 DEF Calm, Active
          <5> QED
            BY <4>6, <4>10, <5>1 DEF CalmAt
        <4>12. MaxParticipants(s) \subseteq P
          <5>1. i \in S /\ i \in P /\ s[i] > 0
            BY <2>1, <2>7, <4>7, <4>11
          <5>2. s[i] <= MaxStep(s) /\ MaxStep(s) \in Nat /\ s[i] \in Nat
            BY <4>10, <5>1, MaxStepFits
          <5>3. \A j \in S : s[j] = MaxStep(s) => j \in P
            BY <4>11, <5>1, <5>2
          <5> QED
            BY <4>10, <5>3 DEF MaxParticipants
        <4>13. \A j \in Alive : pc'[j] \in Working /\ quorum'[j].id = 1 => AnswerTo(j, s)'
          BY <1>1, <1>4, <4>9, AnswersFit
        <4>14. \A m \in G.members : pg'[m] = G
          BY <1>1, <4>5, <4>8
        <4>15. \E j \in S \ G.members : WillConfigure(j)'
          <5>1. PICK j \in S : j \notin G.members
            BY <2>7, <3>2
          <5>2. quorumId[j] # 1
            BY <4>8, <4>11, <5>1
          <5> QED
            BY <2>3, <5>1, <5>2
        <4>16. Lucky(G, S)'
          BY <1>1, <2>7, <3>2, <4>8, <4>10, <4>12, <4>13, <4>14, <4>15 DEF Lucky
        <4> QED
          BY <2>7, <4>16 DEF Kept
      <3> QED
        BY <3>1, <3>2
    <2> QED
      BY <2>4, <2>5, <2>6, <2>7
  <1>8. ASSUME NEW i \in Alive, pg'[i] # None
        PROVE  Kept(pg[i], S)'
    <2>1. PICK G : G = pg[i]
      OBVIOUS
    <2>2. pg'[i] = G /\ Kept(G, S)'
      BY <1>1, <1>7, <1>8, <2>1
    <2> QED
      BY <2>2
  <1> QED
    BY <1>1, <1>6, <1>8 DEF After

LEMMA RenumberedForm ==
  ASSUME Standing, NobodyDead, Quorate, NEW F, Renumbered(F), NEW S, FormQuorum(S)
  PROVE  Renumbered(F)' /\ (QuorumIdFor(S) = lighthouse.id => lighthouse.prev = S)
  <1> USE DEF Standing
  <1>0. MayForm(S) /\ S \in SUBSET Ids
    BY DEF FormQuorum, MayForm, Registered
  <1>1. PICK n : n = QuorumIdFor(S)
    OBVIOUS
  <1>2. /\ Alive' = Alive /\ Alive \subseteq Ids
        /\ lighthouse'.id = n /\ lighthouse'.prev = S
        /\ \A j \in Ids : pc'[j] = IF j \in S \cap Alive THEN "quorum" ELSE pc[j]
        /\ \A j \in Ids \ (S \cap Alive) : quorum'[j] = quorum[j]
    BY <1>1, FormLives DEF FormQuorum, Alive
  <1>3. \A j \in S \cap Alive : quorum'[j].id = n /\ quorum'[j].members = S
    BY <1>1, FormNames
  <1>4. /\ lighthouse.id \in Nat /\ lighthouse.id # 0 /\ n \in Nat
        /\ n = lighthouse.id => lighthouse.prev = S
        /\ n = lighthouse.id \/ n = lighthouse.id + 1
    BY <1>1 DEF QuorumIdFor, TypeOK, Renumbered
  <1>5. S # None /\ (Majority(F)' <=> Majority(F))
    BY <1>0, <1>2, NoneAssumption DEF Majority
  <1> DEFINE At(i, j) ==
        /\ quorum[i].id # 0
        /\ quorum[i].id <= lighthouse.id
        /\ quorum[i].id = 1 => quorum[i].members = F
        /\ quorum[i].id = lighthouse.id => quorum[i].members = lighthouse.prev
        /\ quorum[j].id = quorum[i].id => quorum[j].members = quorum[i].members
  <1>6. \A i \in Alive : \A j \in Alive : pc[i] \in Working /\ pc[j] \in Working => At(i, j)
    BY DEF Renumbered
  <1>7. ASSUME NEW i \in Alive, NEW j \in Alive, pc'[i] \in Working, pc'[j] \in Working
        PROVE  At(i, j)'
    <2>1. ASSUME NEW x \in Alive, x \notin S, pc'[x] \in Working
          PROVE  pc[x] \in Working /\ quorum'[x] = quorum[x] /\ quorum[x].id \in Nat
      <3>1. pc[x] \in Working /\ quorum'[x] = quorum[x]
        BY <1>2, <2>1
      <3> QED
        BY <1>2, <3>1 DEF TypeOK, Typed, Working, Active
    <2>2. n = 1 => S = F
      <3>1. n = 1 => lighthouse.id = 1
        BY <1>4
      <3> QED
        BY <1>4, <3>1 DEF Renumbered
    <2>3. CASE i \in S /\ j \in S
      BY <1>2, <1>3, <1>4, <2>2, <2>3
    <2>4. CASE i \in S /\ j \notin S
      <3>1. At(j, j) /\ quorum'[j] = quorum[j] /\ quorum[j].id \in Nat
        BY <1>6, <1>7, <2>1, <2>4
      <3> QED
        BY <1>2, <1>3, <1>4, <2>2, <2>4, <3>1
    <2>5. CASE i \notin S /\ j \in S
      <3>1. At(i, i) /\ quorum'[i] = quorum[i] /\ quorum[i].id \in Nat
        BY <1>6, <1>7, <2>1, <2>5
      <3> QED
        BY <1>2, <1>3, <1>4, <2>2, <2>5, <3>1
    <2>6. CASE i \notin S /\ j \notin S
      <3>1. /\ At(i, j) /\ quorum'[i] = quorum[i] /\ quorum[i].id \in Nat
            /\ quorum'[j] = quorum[j]
        BY <1>6, <1>7, <2>1, <2>6
      <3> QED
        BY <1>2, <1>4, <3>1
    <2> QED
      BY <2>3, <2>4, <2>5, <2>6
  <1>8. n # 0 /\ (n = 1 => S = F)
    <2>1. n = 1 => lighthouse.id = 1
      BY <1>4
    <2> QED
      BY <1>4, <2>1 DEF Renumbered
  <1>9. Renumbered(F)'
    <2>1. Majority(F)' /\ lighthouse'.prev # None /\ lighthouse'.id # 0
          /\ (lighthouse'.id = 1 => lighthouse'.prev = F)
      BY <1>2, <1>5, <1>8 DEF Renumbered
    <2> QED
      BY <1>2, <1>7, <2>1 DEF Renumbered
  <1> QED
    BY <1>1, <1>4, <1>9

LEMMA AfterForm ==
  ASSUME Standing, NobodyDead, Quorate, NEW F, After(F), NEW S, FormQuorum(S)
  PROVE  After(F)'
  <1> USE DEF Standing
  <1>0. MayForm(S) /\ S \in SUBSET Ids
    BY DEF FormQuorum, MayForm, Registered
  <1>1. PICK n : n = QuorumIdFor(S)
    OBVIOUS
  <1>2. /\ Alive' = Alive /\ Alive \subseteq Ids /\ S \subseteq Alive
        /\ lighthouse'.id = n /\ lighthouse'.prev = S
        /\ pg' = pg /\ quorumId' = quorumId
        /\ \A j \in S : pc[j] = "waiting" /\ lighthouse.requests[j].failed = failures[j]
        /\ \A j \in Ids : pc'[j] = IF j \in S THEN "quorum" ELSE pc[j]
        /\ \A j \in Ids \ S : quorum'[j] = quorum[j]
    <2>1. S \subseteq Alive /\ S \cap Alive = S
      BY <1>0, FormMajority DEF Majority
    <2>2. \A j \in S : pc[j] = "waiting" /\ lighthouse.requests[j].failed = failures[j]
      BY <1>0, <2>1 DEF MayForm, Registered, Requested
    <2> QED
      BY <1>1, <2>1, <2>2, FormLives DEF FormQuorum, Alive, local
  <1>3. \A j \in S : quorum'[j].id = n /\ quorum'[j].members = S
    BY <1>1, <1>2, FormNames
  <1>4. Renumbered(F)' /\ (n = lighthouse.id => lighthouse.prev = S)
    BY <1>1, RenumberedForm DEF After
  <1>5. /\ lighthouse.id \in Nat /\ lighthouse.id # 0 /\ n \in Nat
        /\ n = lighthouse.id \/ n = lighthouse.id + 1
        /\ n = lighthouse.id => \A j \in S : ~failures[j]
    <2>1. n = lighthouse.id => \A j \in S : ~lighthouse.requests[j].failed
      BY <1>1 DEF QuorumIdFor, TypeOK
    <2>2. lighthouse.id # 0
      BY DEF After, Renumbered
    <2> QED
      BY <1>1, <1>2, <2>1, <2>2 DEF QuorumIdFor, TypeOK
  <1>6. ASSUME NEW m \in Alive, Renewed(m)
        PROVE  Renewed(m)'
    <2>1. quorumId[m] \in Int /\ quorumId[m] <= lighthouse.id
      BY <1>2, <1>6 DEF Renewed, TypeOK
    <2>2. quorumId[m] = n => pg[m].members = S
      <3>1. quorumId[m] = n => n = lighthouse.id
        BY <1>5, <2>1
      <3> QED
        BY <1>4, <1>6, <3>1 DEF Renewed
    <2>3. quorumId[m] <= n
      BY <1>5, <2>1
    <2>4. pc'[m] \in Working /\ quorum'[m].id = quorumId[m] => pg[m].members = quorum'[m].members
      <3>1. CASE m \in S
        BY <1>3, <2>2, <3>1
      <3>2. CASE m \notin S
        BY <1>2, <1>6, <3>2 DEF Renewed, Fits
      <3> QED
        BY <3>1, <3>2
    <2> QED
      BY <1>2, <1>6, <2>2, <2>3, <2>4 DEF Renewed, Fits
  <1>7. ASSUME NEW m \in Alive, WillConfigure(m)
        PROVE  WillConfigure(m)'
    <2>1. m \notin S /\ m \in Ids
      BY <1>2, <1>7 DEF WillConfigure
    <2> QED
      BY <1>2, <1>7, <2>1 DEF WillConfigure
  <1>8. ASSUME NEW G, Lucky(G, F)
        PROVE  Lucky(G, F)'
    <2>1. n # 1
      <3> SUFFICES ASSUME n = 1
                   PROVE  FALSE
        OBVIOUS
      <3>1. lighthouse.id = 1 /\ n = lighthouse.id
        BY <1>5
      <3>2. S = F
        BY <1>4, <3>1 DEF After, Renumbered
      <3>3. PICK j \in F \ G.members :
              WillConfigure(j) \/ (pc[j] \in Working /\ Fits(j)) \/ WillFail(j)
        BY <1>8, <3>1 DEF Lucky
      <3>4. pc[j] = "waiting" /\ ~failures[j]
        BY <1>2, <1>5, <3>1, <3>2, <3>3
      <3> QED
        BY <3>3, <3>4 DEF WillConfigure, WillFail, Working
    <2>2. PICK s : /\ IsQuorum(s) /\ MaxParticipants(s) \subseteq G.members
                   /\ \A i \in Alive : pc[i] \in Working /\ quorum[i].id = 1 => AnswerTo(i, s)
      BY <1>8 DEF Lucky
    <2>3. \A i \in Alive : pc'[i] \in Working /\ quorum'[i].id = 1 => AnswerTo(i, s)'
      <3> SUFFICES ASSUME NEW i \in Alive, pc'[i] \in Working, quorum'[i].id = 1
                   PROVE  AnswerTo(i, s)'
        OBVIOUS
      <3>1. i \notin S
        BY <1>3, <2>1
      <3>2. pc'[i] = pc[i] /\ quorum'[i] = quorum[i]
        BY <1>2, <3>1
      <3>3. AnswerTo(i, s)
        BY <2>2, <3>2
      <3> QED
        BY <3>2, <3>3 DEF AnswerTo
    <2> QED
      BY <1>2, <1>8, <2>1, <2>2, <2>3 DEF Lucky
  <1>9. ASSUME NEW i \in Alive, NEW G, G = pg[i], G # None
        PROVE  Kept(G, F)'
    <2>1. Kept(G, F) /\ G.members \subseteq Alive
      BY <1>9 DEF After, Quorate, Majority
    <2>2. CASE \E m \in G.members : Renewed(m) \/ WillConfigure(m)
      BY <1>6, <1>7, <2>1, <2>2 DEF Kept
    <2>3. CASE G.prefix[2] # 1 /\ \E m \in G.members : quorumId[m] = 1
      BY <1>2, <2>3 DEF Kept
    <2>4. CASE G.prefix[2] = 1 /\ ~(G.members \subseteq F)
      BY <2>4 DEF Kept
    <2>5. CASE G.prefix[2] = 1 /\ Lucky(G, F)
      BY <1>8, <2>5 DEF Kept
    <2> QED
      BY <2>1, <2>2, <2>3, <2>4, <2>5 DEF Kept
  <1>10. ASSUME NEW i \in Alive, pg'[i] # None
         PROVE  Kept(pg[i], F)'
    <2>1. PICK G : G = pg[i]
      OBVIOUS
    <2>2. pg'[i] = G /\ Kept(G, F)'
      BY <1>2, <1>9, <1>10, <2>1
    <2> QED
      BY <2>2
  <1> QED
    BY <1>2, <1>4, <1>10 DEF After

\* A replica does not start to work on a quorum by itself, and a group it
\* configures is a renewed one.
LEMMA ReplicaRenews ==
  ASSUME Standing, NEW F, After(F), NEW i \in Ids, Replica(i), ~Fault
  PROVE  /\ pc'[i] \in Working => pc[i] \in Working
         /\ Renewed(i) => Renewed(i)'
         /\ WillConfigure(i) => WillConfigure(i)' \/ Renewed(i)'
         /\ Renewed(i)' \/ (pg'[i] = pg[i] /\ quorumId'[i] = quorumId[i])
         /\ pg'[i] # pg[i] => i \in pg'[i].members /\ Renewed(i)'
         /\ quorumId'[i] # quorumId[i] => Renewed(i)'
  <1> USE DEF Standing
  <1>1. i \in Alive /\ quorum' = quorum /\ SameLighthouse
    BY ReplicaLives, ReplicaFrame
  <1>2. CASE Configure(i) /\ quorum[i].id # quorumId[i]
    <2>1. /\ pc[i] = "quorum" /\ pc[i] \in Working /\ pc'[i] = "recover"
          /\ quorumId'[i] = quorum[i].id /\ pg'[i] = Group(i)
      BY <1>2 DEF Configure, TypeOK, Working
    <2>2. Typed(quorum[i])
      BY <2>1 DEF TypeOK, Active
    <2>3. Group(i) # None /\ Group(i).members = quorum[i].members
      BY <2>2, NoneAssumption DEF Typed, Group, Groups
    <2>4. /\ quorum[i].id <= lighthouse.id
          /\ quorum[i].id = lighthouse.id => quorum[i].members = lighthouse.prev
      BY <1>1, <2>1 DEF After, Renumbered
    <2>5. Renewed(i)'
      BY <1>1, <2>1, <2>3, <2>4 DEF Renewed, Fits, SameLighthouse
    <2>6. i \in pg'[i].members
      BY <1>1, <2>1, <2>3 DEF OwnQuorum, Active
    <2> QED
      BY <2>1, <2>5, <2>6
  <1>3. CASE ~(Configure(i) /\ quorum[i].id # quorumId[i])
    <2>1. pg' = pg /\ quorumId' = quorumId /\ (pc[i] = "quorum" => quorumId[i] = quorum[i].id)
      BY <1>3 DEF Replica, StartQuorum, RetryQuorum, MissQuorum, Configure, Recover, ReceiveCheckpoint,
         HealFails, Allreduce, CollectiveTimesOut, ShouldCommit, local
    <2>2. pc'[i] \in Working => pc[i] \in Working
      BY DEF Replica, StartQuorum, RetryQuorum, MissQuorum, Configure, Recover, ReceiveCheckpoint,
         HealFails, Allreduce, CollectiveTimesOut, ShouldCommit, Working, TypeOK
    <2>3. Renewed(i) => Renewed(i)'
      BY <1>1, <2>1, <2>2 DEF Renewed, Fits, SameLighthouse
    <2> QED
      BY <2>1, <2>2, <2>3 DEF WillConfigure
  <1> QED
    BY <1>2, <1>3

\* A replica of the first new quorum that is in no smaller group fails.
LEMMA FailsLater ==
  ASSUME Standing, NEW F, After(F), lighthouse.id = 1, NEW i \in Ids, Replica(i), ~Fault,
         WillConfigure(i) \/ (pc[i] \in Working /\ Fits(i)) \/ WillFail(i)
  PROVE  (WillConfigure(i) \/ (pc[i] \in Working /\ Fits(i)) \/ WillFail(i))'
  <1> USE DEF Standing
  <1>1. i \in Alive /\ quorum' = quorum
    BY ReplicaLives, ReplicaFrame
  <1>2. CASE WillConfigure(i)
    <2>1. pc[i] = "quorum" /\ quorumId[i] # quorum[i].id
      BY <1>2 DEF WillConfigure
    <2>2. Configure(i)
      BY <2>1 DEF Replica, StartQuorum, RetryQuorum, MissQuorum, Configure, Recover, ReceiveCheckpoint,
         HealFails, Allreduce, CollectiveTimesOut, ShouldCommit
    <2>3. pc'[i] = "recover" /\ pg'[i] = Group(i)
      BY <2>1, <2>2 DEF Configure, TypeOK
    <2>4. Typed(quorum[i])
      BY <2>1 DEF TypeOK, Active
    <2>5. Group(i) # None /\ Group(i).members = quorum[i].members
      BY <2>4, NoneAssumption DEF Typed, Group, Groups
    <2> QED
      BY <1>1, <2>3, <2>5 DEF Fits, Working
  <1>3. CASE pc[i] \in Working /\ Fits(i) /\ ~WillConfigure(i)
    <2>1. pg' = pg
      BY <1>3 DEF Replica, StartQuorum, RetryQuorum, MissQuorum, Configure, Recover, ReceiveCheckpoint,
         HealFails, Allreduce, CollectiveTimesOut, ShouldCommit, WillConfigure, Working, local
    <2>2. Fits(i)'
      BY <1>1, <1>3, <2>1 DEF Fits
    <2>3. pc'[i] \in Working \/ (pc'[i] = "reduced" /\ errored'[i])
      BY <1>3 DEF Replica, StartQuorum, RetryQuorum, MissQuorum, Configure, Recover, ReceiveCheckpoint,
         HealFails, Allreduce, CollectiveTimesOut, ShouldCommit, Working, TypeOK, local
    <2> QED
      BY <2>2, <2>3 DEF WillFail
  <1>4. CASE WillFail(i) /\ pc[i] \notin {"quorum"}
    <2>1. CASE pc[i] \in {"start", "waiting"}
      <3>1. pc'[i] \in {"start", "waiting"} /\ failures' = failures
        BY <2>1 DEF Replica, StartQuorum, RetryQuorum, MissQuorum, Configure, Recover, ReceiveCheckpoint,
           HealFails, Allreduce, CollectiveTimesOut, ShouldCommit, TypeOK, local
      <3> QED
        BY <1>4, <2>1, <3>1 DEF WillFail
    <2>2. CASE pc[i] = "ready"
      <3>1. pc'[i] = "reduced" /\ errored' = errored
        BY <1>4, <2>2 DEF Replica, StartQuorum, RetryQuorum, MissQuorum, Configure, Recover,
           ReceiveCheckpoint, HealFails, Allreduce, CollectiveTimesOut, ShouldCommit, TypeOK, local, WillFail
      <3> QED
        BY <1>4, <2>2, <3>1 DEF WillFail
    <2>3. CASE pc[i] = "reduced"
      <3>1. ShouldCommit(i) /\ errored[i]
        BY <1>4, <2>3 DEF Replica, StartQuorum, RetryQuorum, MissQuorum, Configure, Recover,
           ReceiveCheckpoint, HealFails, Allreduce, CollectiveTimesOut, ShouldCommit, WillFail
      <3>2. pc'[i] = "start" /\ failures'[i]
        BY <3>1 DEF ShouldCommit, TypeOK
      <3> QED
        BY <3>2 DEF WillFail
    <2> QED
      BY <1>4, <2>1, <2>2, <2>3 DEF WillFail
  <1> QED
    BY <1>2, <1>3, <1>4 DEF WillFail

LEMMA AfterReplica ==
  ASSUME Standing, Quorate, NEW F, After(F), NEW i \in Ids, Replica(i), ~Fault
  PROVE  After(F)'
  <1> USE DEF Standing
  <1>1. /\ Alive' = Alive /\ i \in Alive /\ Alive \subseteq Ids /\ quorum' = quorum
        /\ lighthouse'.id = lighthouse.id /\ lighthouse'.prev = lighthouse.prev
        /\ \A k \in Ids \ {i} : Same(k)
    BY ReplicaLives, ReplicaFrame DEF Alive, SameLighthouse
  <1>2. /\ Renewed(i) => Renewed(i)'
        /\ WillConfigure(i) => WillConfigure(i)' \/ Renewed(i)'
        /\ pg'[i] # pg[i] => i \in pg'[i].members /\ Renewed(i)'
        /\ quorumId'[i] # quorumId[i] => Renewed(i)'
    BY ReplicaRenews
  <1>3. \A k \in Alive : pc'[k] \in Working => pc[k] \in Working
    BY <1>1, ReplicaRenews DEF Same
  <1>4. Renumbered(F)'
    <2>1. Majority(F)' <=> Majority(F)
      BY <1>1 DEF Majority
    <2> QED
      BY <1>1, <1>3, <2>1 DEF After, Renumbered
  <1>5. ASSUME NEW m \in Alive
        PROVE  /\ Renewed(m) => Renewed(m)'
               /\ WillConfigure(m) => WillConfigure(m)' \/ Renewed(m)'
    <2>1. CASE m = i
      BY <1>2, <2>1
    <2>2. CASE m # i
      BY <1>1, <2>2 DEF Same, Renewed, WillConfigure, Fits
    <2> QED
      BY <2>1, <2>2
  <1>6. ASSUME NEW G, G.members \subseteq Alive, G.prefix[2] = 1, Lucky(G, F)
        PROVE  Kept(G, F)'
    <2>1. PICK s : /\ IsQuorum(s) /\ MaxParticipants(s) \subseteq G.members
                   /\ \A k \in Alive : pc[k] \in Working /\ quorum[k].id = 1 => AnswerTo(k, s)
      BY <1>6 DEF Lucky
    <2>2. \A k \in Alive : pc'[k] \in Working /\ quorum'[k].id = 1 => AnswerTo(k, s)'
      BY <1>1, <1>3, <2>1 DEF AnswerTo
    <2>3. CASE lighthouse.id # 1
      BY <1>1, <1>6, <2>1, <2>2, <2>3 DEF Lucky, Kept
    <2>4. CASE lighthouse.id = 1 /\ i \in G.members /\ pg'[i] # pg[i]
      BY <1>2, <2>4 DEF Kept
    <2>5. CASE lighthouse.id = 1 /\ (i \notin G.members \/ pg'[i] = pg[i])
      <3>1. \A m \in G.members : pg'[m] = G
        BY <1>1, <1>6, <2>5 DEF Lucky, Same
      <3>2. PICK j \in F \ G.members :
              WillConfigure(j) \/ (pc[j] \in Working /\ Fits(j)) \/ WillFail(j)
        BY <1>6, <2>5 DEF Lucky
      <3>3. (WillConfigure(j) \/ (pc[j] \in Working /\ Fits(j)) \/ WillFail(j))'
        <4>1. CASE j = i
          BY <2>5, <3>2, <4>1, FailsLater
        <4>2. CASE j # i
          <5>1. Same(j)
            BY <1>1, <4>2 DEF After, Renumbered, Majority
          <5> QED
            BY <1>1, <3>2, <5>1 DEF Same, WillConfigure, WillFail, Fits
        <4> QED
          BY <4>1, <4>2
      <3> QED
        BY <1>1, <1>6, <2>1, <2>2, <3>1, <3>3 DEF Lucky, Kept
    <2> QED
      BY <2>3, <2>4, <2>5
  <1>7. ASSUME NEW G, G.members \subseteq Alive, Kept(G, F)
        PROVE  Kept(G, F)'
    <2>1. CASE \E m \in G.members : Renewed(m) \/ WillConfigure(m)
      BY <1>5, <1>7, <2>1 DEF Kept
    <2>2. CASE G.prefix[2] # 1 /\ \E m \in G.members : quorumId[m] = 1
      <3>1. PICK m \in G.members : quorumId[m] = 1
        BY <2>2
      <3>2. quorumId'[m] = 1 \/ Renewed(m)'
        BY <1>1, <1>2, <1>7, <3>1 DEF Same
      <3> QED
        BY <2>2, <3>2 DEF Kept
    <2>3. CASE G.prefix[2] = 1 /\ ~(G.members \subseteq F)
      BY <2>3 DEF Kept
    <2>4. CASE G.prefix[2] = 1 /\ Lucky(G, F)
      BY <1>6, <1>7, <2>4
    <2> QED
      BY <1>7, <2>1, <2>2, <2>3, <2>4 DEF Kept
  <1>8. ASSUME NEW k \in Alive, pg'[k] # None
        PROVE  Kept(pg[k], F)'
    <2>1. PICK G : G = pg'[k]
      OBVIOUS
    <2>2. CASE k = i /\ pg'[i] # pg[i]
      <3>1. Kept(G, F)'
        BY <1>2, <2>1, <2>2 DEF Kept
      <3> QED
        BY <2>1, <3>1
    <2>3. CASE pg'[k] = pg[k]
      <3>1. Kept(G, F) /\ G.members \subseteq Alive
        BY <1>8, <2>1, <2>3 DEF After, Quorate, Majority
      <3>2. Kept(G, F)'
        BY <1>7, <3>1
      <3> QED
        BY <2>1, <3>2
    <2> QED
      BY <1>1, <2>2, <2>3 DEF Same
  <1> QED
    BY <1>1, <1>4, <1>8 DEF After

LEMMA AfterEnds ==
  ASSUME Standing, Quorate, NEW F, After(F),
         NEW G \in {pg[i] : i \in Ids}, CollectiveEnds(G), ~Fault
  PROVE  After(F)'
  <1> USE DEF Standing
  <1>1. /\ Alive' = Alive /\ Alive \subseteq Ids /\ quorum' = quorum /\ lighthouse' = lighthouse
        /\ pg' = pg /\ quorumId' = quorumId /\ failures' = failures /\ step' = step
        /\ \A m \in G.members : pc[m] = "posted" /\ pg[m] = G
        /\ \A j \in Ids : pc'[j] = IF j \in G.members THEN "reduced" ELSE pc[j]
        /\ G \in Groups /\ G # None
    BY CollectiveLives DEF CollectiveEnds, Alive, TypeOK
  <1>2. \A j \in Ids : errored'[j] = errored[j]
    <2>1. PICK Ok \in SUBSET G.members :
            /\ IF Ok = G.members THEN UNCHANGED faults ELSE Fault
            /\ errored' = [j \in Ids |-> IF j \in G.members \ Ok THEN TRUE ELSE errored[j]]
      BY DEF CollectiveEnds
    <2>2. Ok = G.members
      BY <2>1
    <2> QED
      BY <2>1, <2>2
  <1>3. \A k \in Alive : pc'[k] \in Working => pc[k] \in Working
    BY <1>1 DEF Working
  <1>4. Renumbered(F)'
    <2>1. Majority(F)' <=> Majority(F)
      BY <1>1 DEF Majority
    <2> QED
      BY <1>1, <1>3, <2>1 DEF After, Renumbered
  <1>5. ASSUME NEW m \in Alive
        PROVE  (Renewed(m) => Renewed(m)') /\ (WillConfigure(m) => WillConfigure(m)')
    <2>1. m \in Ids /\ (pc[m] = "quorum" => pc'[m] = "quorum")
      BY <1>1
    <2> QED
      BY <1>1, <1>3, <2>1 DEF Renewed, WillConfigure, Fits
  <1>6. ASSUME NEW g, g.members \subseteq Alive, g.members # {}, Lucky(g, F)
        PROVE  Lucky(g, F)'
    <2>1. PICK s : /\ IsQuorum(s) /\ MaxParticipants(s) \subseteq g.members
                   /\ \A k \in Alive : pc[k] \in Working /\ quorum[k].id = 1 => AnswerTo(k, s)
      BY <1>6 DEF Lucky
    <2>2. \A k \in Alive : pc'[k] \in Working /\ quorum'[k].id = 1 => AnswerTo(k, s)'
      BY <1>1, <1>3, <2>1 DEF AnswerTo
    <2>3. CASE lighthouse.id # 1
      BY <1>1, <1>6, <2>1, <2>2, <2>3 DEF Lucky
    <2>4. CASE lighthouse.id = 1
      <3>1. PICK j \in F \ g.members :
              WillConfigure(j) \/ (pc[j] \in Working /\ Fits(j)) \/ WillFail(j)
        BY <1>6, <2>4 DEF Lucky
      <3>2. j \in Alive /\ j \in Ids
        BY <1>1 DEF After, Renumbered, Majority
      <3>3. CASE j \notin G.members
        <4>1. pc'[j] = pc[j] /\ errored'[j] = errored[j]
          BY <1>1, <1>2, <3>2, <3>3
        <4>2. (WillConfigure(j) \/ (pc[j] \in Working /\ Fits(j)) \/ WillFail(j))'
          BY <1>1, <3>1, <4>1 DEF WillConfigure, WillFail, Fits
        <4> QED
          BY <1>1, <1>6, <2>1, <2>2, <4>2 DEF Lucky
      <3>4. CASE j \in G.members
        <4>1. pc[j] = "posted" /\ pc[j] \in Working /\ pg[j] = G
          BY <1>1, <3>4 DEF Working
        <4>2. Fits(j)
          BY <3>1, <4>1 DEF WillConfigure, WillFail
        <4>3. quorum[j].id = 1
          <5>1. quorum[j].id # 0 /\ quorum[j].id <= 1
            BY <2>4, <3>2, <4>1 DEF After, Renumbered
          <5>2. quorum[j].id \in Nat
            BY <3>2, <4>1 DEF TypeOK, Typed, Active
          <5> QED
            BY <5>1, <5>2
        <4>4. G.members = F
          BY <3>2, <4>1, <4>2, <4>3 DEF After, Renumbered, Fits
        <4>5. PICK m \in g.members : TRUE
          BY <1>6
        <4>6. m \in F /\ pg[m] = g
          BY <1>6, <2>4 DEF Lucky
        <4>7. pg[m] = G
          BY <1>1, <4>4, <4>6
        <4> QED
          BY <1>6, <4>4, <4>6, <4>7 DEF Lucky
      <3> QED
        BY <3>3, <3>4
    <2> QED
      BY <2>3, <2>4
  <1>7. ASSUME NEW k \in Alive, pg'[k] # None
        PROVE  Kept(pg[k], F)'
    <2>1. PICK g : g = pg[k]
      OBVIOUS
    <2>2. Kept(g, F) /\ g.members \subseteq Alive /\ g.members # {} /\ pg'[k] = g
      BY <1>1, <1>7, <2>1, MajorityNotEmpty DEF After, Quorate, Majority
    <2>3. CASE \E m \in g.members : Renewed(m) \/ WillConfigure(m)
      BY <1>5, <2>2, <2>3 DEF Kept
    <2>4. CASE \/ g.prefix[2] # 1 /\ \E m \in g.members : quorumId[m] = 1
               \/ g.prefix[2] = 1 /\ ~(g.members \subseteq F)
      BY <1>1, <2>2, <2>4 DEF Kept
    <2>5. CASE g.prefix[2] = 1 /\ Lucky(g, F)
      BY <1>6, <2>2, <2>5 DEF Kept
    <2> QED
      BY <2>2, <2>3, <2>4, <2>5 DEF Kept
  <1> QED
    BY <1>1, <1>4, <1>7 DEF After

-----------------------------------------------------------------------------
(* Whether or not the lighthouse restarts *)

\* The members P of the lighthouse's latest quorum, if it has formed one.
Latest(P) == (P = {} => lighthouse.prev = None) /\ (P # {} => lighthouse.prev = P)

BeforeRestart ==
  /\ Grouped
  /\ faults = 0 => /\ NobodyDead /\ Quorate
                   /\ \E P \in SUBSET Ids : Latest(P) /\ Calm(P, lighthouse.id)

\* The restart was the last fault.
AfterRestart ==
  /\ ~(faults < MaxFaults)
  /\ NobodyDead /\ Quorate
  /\ \/ /\ lighthouse.prev = None /\ lighthouse.id = 0
        /\ \E P \in SUBSET Ids : \E k \in Nat : Calm(P, k)
     \/ \E F : After(F)

EpochInv == Answered /\ Named /\ Paced /\ faults \in Nat /\ (BeforeRestart \/ AfterRestart)

LEMMA InitEpoch == Init => EpochInv
  <1> SUFFICES ASSUME Init
               PROVE  EpochInv
    OBVIOUS
  <1>1. Answered /\ Grouped /\ Paced
    BY InitGroup, InitAnswer, InitPaced DEF Answered, GroupInv
  <1>2. Named
    BY DEF Init, Named, Alive
  <1>3. NobodyDead
    BY DEF Init, NobodyDead
  <1>4. Quorate
    BY DEF Init, Quorate, Active, Alive
  <1>5. \A i \in Alive : CalmAt(i, {}, 0)
    BY DEF Init, CalmAt, Working, Idle, Alive
  <1>6. Calm({}, lighthouse.id) /\ Latest({}) /\ faults \in Nat
    BY <1>5 DEF Calm, Init, Latest
  <1> QED
    BY <1>1, <1>2, <1>3, <1>4, <1>6 DEF EpochInv, BeforeRestart

LEMMA FaultsCounted ==
  ASSUME Next
  PROVE  Fault \/ faults' = faults
  <1>1. \A G : CollectiveEnds(G) => Fault \/ faults' = faults
    BY DEF CollectiveEnds
  <1>2. \A i : Replica(i) \/ Crash(i) => Fault \/ faults' = faults
    <2> SUFFICES ASSUME NEW i, Replica(i) \/ Crash(i)
                 PROVE  Fault \/ faults' = faults
      OBVIOUS
    <2>1. CASE Configure(i)
      BY <2>1 DEF Configure
    <2>2. CASE HealFails(i)
      BY <2>2 DEF HealFails
    <2>3. CASE ~Configure(i) /\ ~HealFails(i)
      BY <2>3 DEF Replica, Crash, StartQuorum, RetryQuorum, MissQuorum, Recover, ReceiveCheckpoint,
         Allreduce, CollectiveTimesOut, ShouldCommit
    <2> QED
      BY <2>1, <2>2, <2>3
  <1> QED
    BY <1>1, <1>2 DEF Next, FormQuorum, RestartLighthouse

\* What is said of the replicas does not depend on the lighthouse.
LEMMA CalmStays ==
  ASSUME UNCHANGED <<pc, quorum, local>>, NEW P, NEW k, Calm(P, k)
  PROVE  Calm(P, k)'
  <1>1. Alive' = Alive
    BY DEF Alive
  <1>2. \A i : NumParticipants(i)' = NumParticipants(i) /\ Group(i)' = Group(i)
    BY DEF NumParticipants, Group
  <1>3. \A i : CalmAt(i, P, k)' <=> CalmAt(i, P, k)
    BY <1>2 DEF CalmAt, local
  <1>4. \A g : OneGroup(P, k, g)' <=> OneGroup(P, k, g)
    BY <1>2 DEF OneGroup, local
  <1>5. Majority(P)' <=> Majority(P)
    BY <1>1 DEF Majority
  <1> QED
    BY <1>1, <1>3, <1>4, <1>5 DEF Calm

LEMMA AfterStays ==
  ASSUME UNCHANGED vars, NEW F, After(F)
  PROVE  After(F)'
  <1>1. Alive' = Alive /\ pc' = pc /\ quorum' = quorum /\ pg' = pg /\ lighthouse' = lighthouse
        /\ quorumId' = quorumId /\ failures' = failures /\ errored' = errored
    BY DEF Alive, vars, local
  <1>2. \A i : (Renewed(i)' <=> Renewed(i)) /\ (WillConfigure(i)' <=> WillConfigure(i))
             /\ (WillFail(i)' <=> WillFail(i)) /\ (Fits(i)' <=> Fits(i))
    BY <1>1 DEF Renewed, WillConfigure, WillFail, Fits
  <1>3. \A i, s : AnswerTo(i, s)' <=> AnswerTo(i, s)
    BY <1>1 DEF AnswerTo
  <1>4. Renumbered(F)'
    BY <1>1 DEF After, Renumbered, Majority
  <1>5. ASSUME NEW G, Lucky(G, F)
        PROVE  Lucky(G, F)'
    <2>1. PICK s : /\ IsQuorum(s) /\ MaxParticipants(s) \subseteq G.members
                   /\ \A i \in Alive : pc[i] \in Working /\ quorum[i].id = 1 => AnswerTo(i, s)
      BY <1>5 DEF Lucky
    <2>2. \A i \in Alive : pc[i] \in Working /\ quorum[i].id = 1 => AnswerTo(i, s)'
      BY <1>3, <2>1
    <2>3. lighthouse.id = 1 =>
            \E j \in F \ G.members :
               WillConfigure(j)' \/ (pc[j] \in Working /\ Fits(j)') \/ WillFail(j)'
      BY <1>2, <1>5 DEF Lucky
    <2> QED
      BY <1>1, <1>5, <2>1, <2>2, <2>3 DEF Lucky
  <1>6. ASSUME NEW G, Kept(G, F)
        PROVE  Kept(G, F)'
    BY <1>1, <1>2, <1>5, <1>6 DEF Kept
  <1>7. ASSUME NEW i \in Alive, pg[i] # None
        PROVE  Kept(pg[i], F)'
    <2>1. PICK G : G = pg[i]
      OBVIOUS
    <2>2. Kept(G, F)' /\ pg'[i] = G
      BY <1>1, <1>6, <1>7, <2>1 DEF After
    <2> QED
      BY <2>2
  <1> QED
    BY <1>1, <1>4, <1>7 DEF After

LEMMA NextCalm ==
  ASSUME Answered, Paced, Named, NobodyDead, Quorate, NEW P \in SUBSET Ids, Calm(P, lighthouse.id),
         Latest(P), Next, ~Fault
  PROVE  \E S \in SUBSET Ids : (Latest(S) /\ Calm(S, lighthouse.id))'
  <1> USE DEF Answered, Standing
  <1>1. lighthouse.id \in Nat
    BY DEF TypeOK
  <1>2. ASSUME NEW S \in SUBSET Registered, FormQuorum(S)
        PROVE  (Latest(S) /\ Calm(S, lighthouse.id))' /\ S \in SUBSET Ids
    <2>1. PICK n : n = QuorumIdFor(S)
      OBVIOUS
    <2>2. Calm(S, n)'
      BY <1>1, <1>2, <2>1, CalmForm DEF Latest
    <2>3. S # {} /\ lighthouse'.id = n /\ lighthouse'.prev = S
      BY <1>2, <2>1 DEF FormQuorum, MayForm
    <2> QED
      BY <2>2, <2>3 DEF Latest, Registered
  <1>3. ASSUME NEW k \in Nat, k = lighthouse.id, lighthouse'.id = k, lighthouse'.prev = lighthouse.prev,
               Calm(P, k)'
        PROVE  (Latest(P) /\ Calm(P, lighthouse.id))'
    BY <1>3 DEF Latest
  <1>4. PICK k \in Nat : k = lighthouse.id
    BY <1>1
  <1>5. ASSUME NEW G \in {pg[i] : i \in Ids}, CollectiveEnds(G)
        PROVE  (Latest(P) /\ Calm(P, lighthouse.id))'
    <2>1. Calm(P, k)'
      BY <1>4, <1>5, CalmEnds
    <2> QED
      BY <1>3, <1>4, <1>5, <2>1 DEF CollectiveEnds
  <1>6. ASSUME NEW i \in Ids, Replica(i)
        PROVE  (Latest(P) /\ Calm(P, lighthouse.id))'
    <2>1. Calm(P, k)'
      BY <1>4, <1>6, CalmReplica
    <2> QED
      BY <1>3, <1>4, <1>6, <2>1, ReplicaFrame DEF SameLighthouse
  <1> QED
    BY <1>2, <1>5, <1>6 DEF Next, RestartLighthouse, Crash

LEMMA NextAfterRestart ==
  ASSUME Answered, Paced, Named, AfterRestart, [Next]_vars
  PROVE  AfterRestart'
  <1> USE DEF Answered, Standing
  <1>1. ~Fault /\ \A i \in Ids : ~Crash(i)
    BY DEF AfterRestart, Fault, Crash
  <1>2. NobodyDead' /\ Quorate'
    BY <1>1, NextQuorate DEF AfterRestart
  <1>3. ~(faults' < MaxFaults)
    BY <1>1, FaultsCounted DEF AfterRestart, vars
  <1>4. CASE UNCHANGED vars
    <2>1. UNCHANGED <<pc, quorum, local>> /\ lighthouse' = lighthouse
      BY <1>4 DEF vars
    <2> QED
      BY <1>2, <1>3, <1>4, <2>1, CalmStays, AfterStays DEF AfterRestart
  <1>5. CASE Next /\ \E F : After(F)
    <2>1. PICK F : After(F)
      BY <1>5
    <2>2. After(F)'
      BY <1>1, <1>5, <2>1, AfterForm, AfterReplica, AfterEnds DEF Next, RestartLighthouse, AfterRestart
    <2> QED
      BY <1>2, <1>3, <2>2 DEF AfterRestart
  <1>6. CASE /\ Next
             /\ lighthouse.prev = None /\ lighthouse.id = 0
             /\ \E P \in SUBSET Ids : \E k \in Nat : Calm(P, k)
    <2>1. PICK P \in SUBSET Ids : \E k \in Nat : Calm(P, k)
      BY <1>6
    <2>2. PICK k \in Nat : Calm(P, k)
      BY <2>1
    <2>3. ASSUME NEW S \in SUBSET Registered, FormQuorum(S)
          PROVE  After(S)'
      BY <1>6, <2>2, <2>3, AfterFirst DEF AfterRestart
    <2>4. ASSUME NEW G \in {pg[i] : i \in Ids}, CollectiveEnds(G)
          PROVE  Calm(P, k)' /\ lighthouse'.prev = None /\ lighthouse'.id = 0
      <3>1. Calm(P, k)'
        BY <1>1, <2>2, <2>4, CalmEnds
      <3> QED
        BY <1>6, <2>4, <3>1 DEF CollectiveEnds
    <2>5. ASSUME NEW i \in Ids, Replica(i)
          PROVE  Calm(P, k)' /\ lighthouse'.prev = None /\ lighthouse'.id = 0
      <3>1. Calm(P, k)'
        BY <1>1, <2>2, <2>5, CalmReplica
      <3> QED
        BY <1>6, <2>5, <3>1, ReplicaFrame DEF SameLighthouse
    <2>6. \/ \E S : After(S)'
          \/ Calm(P, k)' /\ lighthouse'.prev = None /\ lighthouse'.id = 0
      BY <1>1, <1>6, <2>3, <2>4, <2>5 DEF Next, RestartLighthouse
    <2> QED
      BY <1>2, <1>3, <2>6 DEF AfterRestart
  <1> QED
    BY <1>4, <1>5, <1>6 DEF AfterRestart

LEMMA NextEpoch ==
  ASSUME ~LighthouseFaults \/ MaxFaults <= 1, EpochInv, [Next]_vars
  PROVE  EpochInv'
  <1> USE DEF EpochInv
  <1>1. Answered' /\ Named' /\ Paced'
    BY NextAnswered, NextNamed, NextPaced DEF Answered
  <1>2. faults' \in Nat /\ MaxFaults \in Nat
    BY FaultsCounted, ProtocolAssumption DEF Fault, vars
  <1>3. CASE AfterRestart
    BY <1>1, <1>2, <1>3, NextAfterRestart
  <1>4. CASE BeforeRestart /\ RestartLighthouse
    <2>1. faults = 0 /\ ~(faults' < MaxFaults)
      BY <1>2, <1>4 DEF RestartLighthouse, Fault
    <2>2. /\ NobodyDead /\ Quorate /\ lighthouse.id \in Nat
          /\ \E P \in SUBSET Ids : \E k \in Nat : Calm(P, k)
      BY <1>4, <2>1 DEF BeforeRestart, Answered, Standing, TypeOK
    <2>3. UNCHANGED <<pc, quorum, local>> /\ lighthouse'.prev = None /\ lighthouse'.id = 0
      BY <1>4 DEF RestartLighthouse
    <2>4. \E P \in SUBSET Ids : \E k \in Nat : Calm(P, k)'
      BY <2>2, <2>3, CalmStays
    <2>5. \A i \in Ids : ~Crash(i)
      <3> SUFFICES ASSUME NEW i \in Ids, Crash(i)
                   PROVE  FALSE
        OBVIOUS
      <3>1. pc'[i] = "dead" /\ pc[i] # "dead"
        BY CrashFrame DEF Answered, Standing, Alive
      <3> QED
        BY <2>3, <3>1
    <2>6. NobodyDead' /\ Quorate'
      BY <2>2, <2>5, NextQuorate DEF Answered
    <2> QED
      BY <1>1, <1>2, <2>1, <2>3, <2>4, <2>6 DEF AfterRestart
  <1>5. CASE BeforeRestart /\ ~RestartLighthouse
    <2>1. Grouped'
      BY <1>5, NextGroup DEF BeforeRestart, GroupInv, Answered
    <2>2. ASSUME faults' = 0
          PROVE  /\ NobodyDead' /\ Quorate'
                 /\ \E P \in SUBSET Ids : (Latest(P) /\ Calm(P, lighthouse.id))'
      <3>1. ~Fault /\ faults = 0
        BY <2>2, FaultsCounted DEF Fault, vars
      <3>2. \A i \in Ids : ~Crash(i)
        BY <3>1 DEF Crash
      <3>3. /\ NobodyDead /\ Quorate
            /\ \E P \in SUBSET Ids : Latest(P) /\ Calm(P, lighthouse.id)
        BY <1>5, <3>1 DEF BeforeRestart
      <3>4. NobodyDead' /\ Quorate'
        BY <3>2, <3>3, NextQuorate DEF Answered
      <3>5. PICK P \in SUBSET Ids : Latest(P) /\ Calm(P, lighthouse.id)
        BY <3>3
      <3>6. CASE Next
        BY <3>1, <3>3, <3>4, <3>5, <3>6, NextCalm
      <3>7. CASE UNCHANGED vars
        <4>1. PICK k : k = lighthouse.id
          OBVIOUS
        <4>2. Calm(P, k)' /\ lighthouse' = lighthouse
          BY <3>5, <3>7, <4>1, CalmStays DEF vars
        <4>3. (Latest(P) /\ Calm(P, lighthouse.id))'
          BY <3>5, <4>1, <4>2 DEF Latest
        <4> QED
          BY <3>4, <4>3
      <3> QED
        BY <3>6, <3>7
    <2> QED
      BY <1>1, <1>2, <2>1, <2>2 DEF BeforeRestart
  <1> QED
    BY <1>3, <1>4, <1>5

\* Whenever a collective ends, its members have their answers from one quorum.
LEMMA EndedInEpoch ==
  ASSUME EpochInv, NEW G \in {pg[i] : i \in Ids}, CollectiveEnds(G)
  PROVE  \E s : WholeGroup(G, s)
  <1> USE DEF EpochInv
  <1>1. CASE Grouped
    BY <1>1, EndedGroup
  <1>2. CASE \E F : After(F)
    BY <1>2, AfterEnded
  <1>3. CASE \E P \in SUBSET Ids : \E k \in Nat : Calm(P, k)
    <2>1. PICK P \in SUBSET Ids : \E k \in Nat : Calm(P, k)
      BY <1>3
    <2>2. PICK k \in Nat : Calm(P, k)
      BY <2>1
    <2>3. G.members = P /\ \A m \in P : m \in Alive /\ pc[m] = "posted" /\ quorum[m].members = P
      BY <2>2, CalmEnded
    <2>4. PICK s : \A m \in Alive :
            pc[m] \in Active /\ quorum[m].members = P => IsQuorum(s) /\ AnswerTo(m, s)
      BY DEF Answered, OneAnswer
    <2>5. G.members # {}
      BY DEF CollectiveEnds, Answered, Standing, InOwnGroup
    <2>6. IsQuorum(s) /\ DOMAIN s = G.members /\ \A m \in G.members : AnswerTo(m, s)
      BY <2>3, <2>4, <2>5 DEF AnswerTo, Active
    <2>7. MaxParticipants(s) \subseteq G.members
      BY <2>6 DEF MaxParticipants
    <2> QED
      BY <2>6, <2>7 DEF WholeGroup, OneQuorum
  <1> QED
    BY <1>1, <1>2, <1>3 DEF BeforeRestart, AfterRestart

AverageInv ==
  /\ IF Stragglers THEN EpochInv ELSE Answered /\ \E P : Everybody(P)
  /\ AveragesParticipants

LEMMA InitAveraged == Init => AverageInv
  <1>1. Init => AveragesParticipants
    BY DEF Init, AveragesParticipants, Alive
  <1>2. Init => EpochInv /\ \E P : Everybody(P)
    BY InitEpoch, InitEverybody
  <1> QED
    BY <1>1, <1>2 DEF AverageInv, EpochInv

LEMMA NextAveraged ==
  ASSUME ~InitSync, ~LighthouseFaults \/ ~Stragglers \/ MaxFaults <= 1, AverageInv, [Next]_vars
  PROVE  AverageInv'
  <1> USE DEF AverageInv
  <1>1. IF Stragglers THEN EpochInv' ELSE Answered' /\ \E P : Everybody(P)'
    <2>1. CASE Stragglers
      BY <2>1, NextEpoch
    <2>2. CASE ~Stragglers
      <3>1. Answered /\ Standing /\ \E P : Everybody(P)
        BY <2>2 DEF Answered
      <3>2. PICK P : Everybody(P)
        BY <3>1
      <3>3. Answered' /\ \E Q : Everybody(Q)'
        BY <2>2, <3>1, <3>2, NextAnswered, NextEverybody
      <3> QED
        BY <2>2, <3>3
    <2> QED
      BY <2>1, <2>2
  <1>2. CASE UNCHANGED vars
    <2>1. \A k : NumParticipants(k)' = NumParticipants(k)
      BY <1>2 DEF NumParticipants, vars
    <2> QED
      BY <1>1, <1>2, <2>1 DEF AveragesParticipants, Alive, vars, local
  <1>3. CASE Next
    <2>1. Answered /\ \A G \in {pg[i] : i \in Ids} : CollectiveEnds(G) => \E s : WholeGroup(G, s)
      BY EndedInEpoch, EndedEverybody DEF EpochInv
    <2> QED
      BY <1>1, <1>3, <2>1, NextAverages
  <1> QED
    BY <1>2, <1>3

\* "by the number of replicas participating in the current step"
\* (manager.py:1026): whatever stragglers, crashes and partial failures there
\* are, and whether or not there are spares, a gradient is divided by the number
\* of replicas that contributed to it.  The lighthouse may restart too, if nobody
\* is ever left out of a quorum or that is the only fault: otherwise a replica may
\* take its group of before the restart for that of a new quorum with the same id.
THEOREM AveragesAreOfParticipants ==
  ASSUME ~InitSync, ~LighthouseFaults \/ ~Stragglers \/ MaxFaults <= 1
  PROVE  Spec => []AveragesParticipants
  BY InitAveraged, NextAveraged, PTL DEF Spec, AverageInv

-----------------------------------------------------------------------------
(* One history: without crashes and partial failures *)

\* Replica i is about to append to its history.
Committing(i) == pc[i] = "reduced" /\ ~errored[i] /\ NumParticipants(i) >= MinReplicas

\* Replica i has made step n, or has its average.
Reached(i, n) == step[i] > n \/ (step[i] = n /\ Committing(i))

\* A step that one has made, a majority has made.
Reaching ==
  \A n \in Nat : (\E i \in Alive : Reached(i, n)) =>
    \E D : Majority(D) /\ \A m \in D : Reached(m, n)

\* Who has to heal has healed, or says so, and has the weights of its source as
\* long as that works on the same quorum.
Healed ==
  \A i \in Alive :
    /\ pc[i] \in {"ready", "posted", "reduced"} /\ ~errored[i] /\ quorum[i].heal => pending[i] # None
    /\ \A p \in Ids :
         /\ pending[i] # None /\ p = quorum[i].recover_src
         /\ pc[p] \in Active /\ quorum[p].members = quorum[i].members
         => pending[i] = weights[p]

\* At step n, a replica has the weights H[n]; under init_sync from the first step
\* on, before which each has its own.
OnHistory(i, H) ==
  /\ ~InitSync \/ step[i] > 0 => Restored(i) = H[step[i]]
  /\ Committing(i) => H[step[i] + 1] = Append(Restored(i), <<reduced[i], NumParticipants(i)>>)

HistoryInv ==
  /\ Answered /\ Paced /\ NobodyDead /\ Quorate /\ Healed
  /\ Reaching
  /\ \E H : \A i \in Alive : OnHistory(i, H)

LEMMA InitHistory == Init => HistoryInv
  <1> SUFFICES ASSUME Init
               PROVE  HistoryInv
    OBVIOUS
  <1>1. Answered /\ Paced
    BY InitGroup, InitAnswer, InitPaced DEF Answered, GroupInv
  <1>2. NobodyDead /\ Quorate
    BY DEF Init, NobodyDead, Quorate, Active, Alive
  <1>3. \A i \in Alive : step[i] = 0 /\ pc[i] # "reduced" /\ (~InitSync => Restored(i) = <<>>)
    BY DEF Init, Restored, Alive
  <1>4. Reaching
    BY <1>3 DEF Reaching, Reached, Committing
  <1>6. Healed
    BY DEF Init, Healed, Alive
  <1> DEFINE H == [n \in Nat |-> <<>>]
  <1>5. \A i \in Alive : OnHistory(i, H)
    BY <1>3 DEF OnHistory, Committing
  <1> QED
    BY <1>1, <1>2, <1>4, <1>5, <1>6 DEF HistoryInv

LEMMA FormHealed ==
  ASSUME Answered, Paced, Healed, NEW S, FormQuorum(S)
  PROVE  Healed'
  <1> USE DEF Answered, Standing, Paced
  <1>1. /\ MayForm(S) /\ Alive' = Alive /\ Alive \subseteq Ids
        /\ weights' = weights /\ pending' = pending /\ errored' = errored
        /\ \A k \in Ids : pc'[k] = IF k \in S \cap Alive THEN "quorum" ELSE pc[k]
        /\ \A k \in Ids \ (S \cap Alive) : quorum'[k] = quorum[k]
    BY FormLives DEF FormQuorum, Alive, local
  <1>2. \A k \in S \cap Alive : pending[k] = None
    BY <1>1 DEF MayForm, Registered, Requested, Pendings
  <1>3. \A k \in S \cap Alive : quorum'[k].members = S
    <2> SUFFICES ASSUME NEW k \in S \cap Alive
                 PROVE  quorum'[k].members = S
      OBVIOUS
    <2>1. PICK s : s = StepsOf(S)
      OBVIOUS
    <2>2. AnswerTo(k, s)' /\ DOMAIN s = S
      BY <1>1, <2>1, AnswersFit, StepsOfQuorum
    <2> QED
      BY <2>2 DEF AnswerTo
  <1>4. ASSUME NEW k \in Alive, pending[k] # None
        PROVE  /\ pc'[k] = pc[k] /\ quorum'[k] = quorum[k]
               /\ k \notin S /\ quorum[k].members # S
    BY <1>1, <1>2, <1>4 DEF Pendings, OwnQuorum, Active
  <1>5. ASSUME NEW k \in Alive
        PROVE  pc'[k] \in {"ready", "posted", "reduced"} =>
                 pc'[k] = pc[k] /\ quorum'[k] = quorum[k]
    BY <1>1, <1>5
  <1>6. ASSUME NEW k \in Alive, NEW p \in Ids,
               pending[k] # None, p = quorum'[k].recover_src,
               pc'[p] \in Active, quorum'[p].members = quorum'[k].members
        PROVE  pending[k] = weights[p]
    <2>1. p \notin S \cap Alive
      BY <1>3, <1>4, <1>6
    <2> QED
      BY <1>1, <1>4, <1>6, <2>1 DEF Healed
  <1> QED
    BY <1>1, <1>5, <1>6 DEF Healed

LEMMA ReplicaHealed ==
  ASSUME Answered, Paced, Healed, NEW i \in Ids, Replica(i)
  PROVE  Healed'
  <1> USE DEF Answered, Standing, Paced
  <1>1. /\ Alive' = Alive /\ i \in Alive /\ Alive \subseteq Ids /\ quorum' = quorum
        /\ pc'[i] \in Active => pc[i] \in Active
        /\ \A k \in Ids \ {i} : Same(k)
    BY ReplicaFrame, ReplicaLives DEF Alive
  <1>2. \A p \in Ids : pc'[p] \in Active => pc[p] \in Active
    BY <1>1 DEF Same
  <1>3. CASE ReceiveCheckpoint(i)
    <2>1. PICK o : o = quorum[i].recover_src
      OBVIOUS
    <2>2. o \in Ids /\ serving[o] # None
      BY <1>1, <1>3, <2>1 DEF ReceiveCheckpoint, Served, HealingFits, TypeOK, Typed, Active
    <2>3. serving[o].weights = weights[o] /\ weights[o] # None
      BY <2>2, NoneAssumption DEF Offers, TypeOK
    <2>4. /\ pending'[i] = weights[o] /\ weights' = weights /\ errored' = errored
      BY <1>3, <2>1, <2>3 DEF ReceiveCheckpoint, TypeOK
    <2>5. ASSUME NEW k \in Alive
          PROVE  /\ pc'[k] \in {"ready", "posted", "reduced"} /\ ~errored'[k] /\ quorum[k].heal
                      => pending'[k] # None
                 /\ \A p \in Ids :
                      /\ pending'[k] # None /\ p = quorum[k].recover_src
                      /\ pc'[p] \in Active /\ quorum[p].members = quorum[k].members
                      => pending'[k] = weights[p]
      <3>1. CASE k = i
        BY <2>1, <2>3, <2>4, <3>1
      <3>2. CASE k # i
        BY <1>1, <1>2, <2>4, <3>2 DEF Same, Healed
      <3> QED
        BY <3>1, <3>2
    <2> QED
      BY <1>1, <2>4, <2>5 DEF Healed
  <1>4. CASE ShouldCommit(i)
    <2>1. pending'[i] = None /\ pc'[i] = "start"
      BY <1>4 DEF ShouldCommit, TypeOK
    <2>2. ASSUME NEW k \in Alive
          PROVE  /\ pc'[k] \in {"ready", "posted", "reduced"} /\ ~errored'[k] /\ quorum[k].heal
                      => pending'[k] # None
                 /\ \A p \in Ids :
                      /\ pending'[k] # None /\ p = quorum[k].recover_src
                      /\ pc'[p] \in Active /\ quorum[p].members = quorum[k].members
                      => pending'[k] = weights'[p]
      <3>1. CASE k = i
        BY <2>1, <3>1
      <3>2. CASE k # i
        <4>1. \A p \in Ids : pc'[p] \in Active => p # i
          BY <2>1 DEF Active
        <4> QED
          BY <1>1, <1>2, <3>2, <4>1 DEF Same, Healed
      <3> QED
        BY <3>1, <3>2
    <2> QED
      BY <1>1, <2>2 DEF Healed
  <1>5. CASE ~ReceiveCheckpoint(i) /\ ~ShouldCommit(i)
    <2>1. pending' = pending /\ weights' = weights
      BY <1>5 DEF Replica, StartQuorum, RetryQuorum, MissQuorum, Configure, Recover,
         HealFails, Allreduce, CollectiveTimesOut, local
    <2>2. pc'[i] \in {"ready", "posted", "reduced"} /\ ~errored'[i] =>
            \/ pc[i] \in {"ready", "posted", "reduced"} /\ ~errored[i]
            \/ ~quorum[i].heal
      <3>1. CASE Recover(i)
        BY <3>1 DEF Recover, TypeOK
      <3>2. CASE ~Recover(i)
        BY <1>5, <3>2 DEF Replica, StartQuorum, RetryQuorum, MissQuorum, Configure,
           HealFails, Allreduce, CollectiveTimesOut, local, TypeOK
      <3> QED
        BY <3>1, <3>2
    <2>3. ASSUME NEW k \in Alive
          PROVE  pc'[k] \in {"ready", "posted", "reduced"} /\ ~errored'[k] /\ quorum[k].heal
                   => pending[k] # None
      <3>1. CASE k = i
        BY <2>2, <3>1 DEF Healed
      <3>2. CASE k # i
        BY <1>1, <3>2 DEF Same, Healed
      <3> QED
        BY <3>1, <3>2
    <2> QED
      BY <1>1, <1>2, <2>1, <2>3 DEF Healed
  <1> QED
    BY <1>3, <1>4, <1>5

LEMMA NextHealed ==
  ASSUME Answered, Paced, Healed, [Next]_vars, \A i \in Ids : ~Crash(i)
  PROVE  Healed'
  <1> USE DEF Answered, Standing, Paced
  <1>1. CASE UNCHANGED vars
    BY <1>1 DEF vars, local, Healed, Alive
  <1>2. CASE RestartLighthouse
    BY <1>2 DEF RestartLighthouse, local, Healed, Alive
  <1>3. ASSUME NEW G \in {pg[i] : i \in Ids}, CollectiveEnds(G)
        PROVE  Healed'
    <2>1. /\ quorum' = quorum /\ Alive' = Alive /\ Alive \subseteq Ids
          /\ weights' = weights /\ pending' = pending
          /\ \A m \in G.members : pc[m] = "posted"
          /\ \A k \in Ids : pc'[k] = IF k \in G.members THEN "reduced" ELSE pc[k]
          /\ \A k \in Ids : errored'[k] = errored[k] \/ errored'[k] = TRUE
      BY <1>3, CollectiveLives DEF CollectiveEnds, Alive
    <2>2. \A p \in Ids : pc'[p] \in Active => pc[p] \in Active
      BY <2>1 DEF Active
    <2>3. \A k \in Alive : pc'[k] \in {"ready", "posted", "reduced"} =>
                              pc[k] \in {"ready", "posted", "reduced"}
      BY <2>1
    <2> QED
      BY <2>1, <2>2, <2>3 DEF Healed
  <1> QED
    BY <1>1, <1>2, <1>3, FormHealed, ReplicaHealed DEF Next

\* In the first step under init_sync, all recover from the primary.
LEMMA FirstSource ==
  ASSUME NEW s, IsQuorum(s)
  PROVE  /\ InitSync /\ MaxStep(s) = 0 => UpToDate(s, 0, InitSync) = {Primary(s, 0)}
         /\ \A d \in Recovering(s, 0, InitSync) :
              RecoverSrc(s, d, 0, InitSync) \in UpToDate(s, 0, InitSync)
  <1>1. InitSync \in BOOLEAN /\ 0 \in Nat
    BY ProtocolAssumption
  <1>2. InitSync /\ MaxStep(s) = 0 => UpToDate(s, 0, InitSync) = {Primary(s, 0)}
    BY <1>1, UpToDateFits
  <1>3. \A d \in Recovering(s, 0, InitSync) :
          RecoverSrc(s, d, 0, InitSync) \in UpToDate(s, 0, InitSync)
    BY <1>1, SourceFits
  <1> QED
    BY <1>2, <1>3

\* In the first step under init_sync, those that reduce have the primary's weights.
LEMMA FirstWeights ==
  ASSUME InitSync, HistoryInv, NEW G, NEW s, WholeGroup(G, s), MaxStep(s) = 0,
         \A m \in G.members : m \in Alive /\ pc[m] = "posted" /\ ~errored[m]
  PROVE  \A m \in G.members : Restored(m) = weights[Primary(s, 0)]
  <1> USE DEF HistoryInv, Answered, Standing, Paced
  <1> DEFINE p == Primary(s, 0)
  <1>1. IsQuorum(s) /\ p \in G.members
    BY PrimaryFits DEF WholeGroup, OneQuorum
  <1>2. /\ Recovering(s, 0, InitSync) = DOMAIN s \ {p}
        /\ UpToDate(s, 0, InitSync) = {p}
    <2>1. UpToDate(s, 0, InitSync) = {p}
      BY <1>1, FirstSource
    <2>2. Recovering(s, 0, InitSync) \subseteq DOMAIN s
      BY DEF Recovering
    <2> QED
      BY <2>1, <2>2 DEF UpToDate
  <1> HIDE DEF p
  <1>3. p \in Ids /\ pc[p] \in Active
    BY <1>1 DEF Alive, Active
  <1> SUFFICES ASSUME NEW m \in G.members
               PROVE  Restored(m) = weights[p]
    BY DEF p
  <1>4. /\ AnswerTo(m, s) /\ AnswerTo(p, s) /\ m \in Alive
        /\ pc[m] = "posted" /\ ~errored[m] /\ (healing[m] <=> quorum[m].heal)
    BY <1>1 DEF WholeGroup, OneQuorum, HealingFits
  <1>5. CASE m = p
    <2>1. ~healing[m]
      BY <1>2, <1>4, <1>5 DEF AnswerTo
    <2> QED
      BY <1>5, <2>1 DEF Restored
  <1>6. CASE m # p
    <2>1. m \in Recovering(s, 0, InitSync) /\ quorum[m].heal /\ healing[m]
      BY <1>2, <1>4, <1>6 DEF AnswerTo
    <2>2. quorum[m].recover_src = p
      <3>1. RecoverSrc(s, m, 0, InitSync) \in UpToDate(s, 0, InitSync)
        BY <1>1, <2>1, FirstSource
      <3> QED
        BY <1>2, <1>4, <2>1, <3>1 DEF AnswerTo
    <2>3. quorum[m].members = quorum[p].members
      BY <1>4 DEF AnswerTo
    <2>4. pending[m] # None /\ pending[m] = weights[p]
      BY <1>3, <1>4, <2>1, <2>2, <2>3 DEF Healed
    <2> QED
      BY <2>1, <2>4 DEF Restored
  <1> QED
    BY <1>5, <1>6

\* A replica that joins a history is at a step that another has made.
LEMMA ReceivedHistory ==
  ASSUME HistoryInv, NEW i \in Ids, ReceiveCheckpoint(i)
  PROVE  \E o \in Alive :
           /\ step'[i] = step[o] /\ step[i] <= step'[i]
           /\ Restored(i)' = Restored(o)
           /\ pc[i] = "heal" /\ pc'[i] = "ready"
  <1> USE DEF HistoryInv, Answered, Standing, Paced
  <1>1. /\ i \in Alive /\ pc[i] = "heal" /\ pc[i] \in Active /\ pc'[i] = "ready"
        /\ healing[i] /\ healing' = healing /\ weights' = weights
    BY DEF ReceiveCheckpoint, Alive, Active, TypeOK, HealingFits
  <1>2. PICK o : o = quorum[i].recover_src
    OBVIOUS
  <1>3. o \in Ids /\ quorum[i].max_step \in Nat
    BY <1>1, <1>2 DEF TypeOK, Typed
  <1>4. serving[o] # None /\ serving[o].step = quorum[i].max_step
    BY <1>2 DEF ReceiveCheckpoint, Served
  <1>5. /\ o \in Alive /\ pending[o] = None
        /\ step[o] = quorum[i].max_step /\ serving[o].weights = weights[o]
    BY <1>3, <1>4 DEF Offers, Alive
  <1>6. Restored(o) = weights[o] /\ weights[o] \in Weights
    BY <1>3, <1>5 DEF Restored, TypeOK
  <1>7. pending'[i] = weights[o] /\ step'[i] = quorum[i].max_step
    BY <1>2, <1>5 DEF ReceiveCheckpoint, TypeOK
  <1>8. Restored(i)' = weights[o]
    BY <1>1, <1>6, <1>7, NoneAssumption DEF Restored
  <1>9. step[i] <= quorum[i].max_step
    BY <1>1 DEF StepFits
  <1> QED
    BY <1>1, <1>5, <1>6, <1>7, <1>8, <1>9

LEMMA ReplicaHistory ==
  ASSUME HistoryInv, NEW i \in Ids, Replica(i)
  PROVE  Reaching' /\ \E H : \A k \in Alive' : OnHistory(k, H)'
  <1> USE DEF HistoryInv, Answered, Standing, Paced
  <1>1. /\ Alive' = Alive /\ i \in Alive /\ Alive \subseteq Ids /\ quorum' = quorum
        /\ \A k \in Ids \ {i} : Same(k)
    BY ReplicaLives, ReplicaFrame DEF Alive
  <1>2. \A k : NumParticipants(k)' = NumParticipants(k)
    BY <1>1 DEF NumParticipants
  <1>3. ASSUME NEW k \in Alive, k # i
        PROVE  /\ Restored(k)' = Restored(k) /\ (Committing(k)' <=> Committing(k))
               /\ step'[k] = step[k] /\ reduced'[k] = reduced[k]
    BY <1>1, <1>2, <1>3 DEF Same, Restored, Committing
  <1>4. PICK H : \A k \in Alive : OnHistory(k, H)
    OBVIOUS
  <1>5. step[i] \in Nat /\ step'[i] \in Nat
    BY NextType DEF TypeOK, Next
  <1>6. \/ /\ step'[i] = step[i] /\ Restored(i)' = Restored(i)
           /\ (Committing(i)' <=> Committing(i))
           /\ Committing(i) => reduced'[i] = reduced[i]
        \/ /\ ~Committing(i)' /\ ~Committing(i) /\ step[i] <= step'[i]
           /\ \E o \in Alive : step'[i] = step[o] /\ Restored(i)' = Restored(o)
        \/ /\ ~Committing(i)' /\ Committing(i)
           /\ step'[i] = step[i] + 1
           /\ Restored(i)' = Append(Restored(i), <<reduced[i], NumParticipants(i)>>)
    <2>1. CASE ReceiveCheckpoint(i)
      BY <1>1, <2>1, ReceivedHistory DEF Committing
    <2>2. CASE Commits(i)
      <3>1. Committing(i) /\ ~Committing(i)' /\ step'[i] = step[i] + 1
        BY <2>2 DEF Commits, ShouldCommit, Committing, TypeOK
      <3>2. pending'[i] = None
        BY <2>2 DEF Commits, ShouldCommit, TypeOK
      <3>3. weights'[i] = Append(Restored(i), <<reduced[i], NumParticipants(i)>>)
        <4>1. PICK new : new = Append(Restored(i), <<reduced[i], NumParticipants(i)>>)
          OBVIOUS
        <4>2. weights' = [weights EXCEPT ![i] = new]
          BY <2>2, <4>1 DEF Commits, ShouldCommit
        <4> QED
          BY <4>1, <4>2 DEF TypeOK
      <3>4. Restored(i)' = weights'[i]
        BY <3>2 DEF Restored
      <3> QED
        BY <3>1, <3>3, <3>4
    <2>3. CASE ~ReceiveCheckpoint(i) /\ ~Commits(i)
      <3>1. step'[i] = step[i] /\ Restored(i)' = Restored(i)
        BY <2>3, HistoryKept DEF Keeps
      <3>2. Committing(i)' <=> Committing(i)
        <4>1. CASE pc[i] = "reduced"
          <5>1. ShouldCommit(i) /\ ~Committing(i)
            BY <2>3, <4>1 DEF Replica, StartQuorum, RetryQuorum, MissQuorum, Configure, Recover,
               ReceiveCheckpoint, HealFails, Allreduce, CollectiveTimesOut, ShouldCommit, Commits, Committing
          <5>2. ~Committing(i)'
            BY <5>1 DEF ShouldCommit, Committing, TypeOK
          <5> QED
            BY <5>1, <5>2
        <4>2. CASE pc[i] # "reduced"
          <5>1. pc'[i] = "reduced" => errored'[i]
            BY <2>3, <4>2 DEF Replica, StartQuorum, RetryQuorum, MissQuorum, Configure, Recover,
               ReceiveCheckpoint, HealFails, Allreduce, CollectiveTimesOut, ShouldCommit, TypeOK, local
          <5> QED
            BY <4>2, <5>1 DEF Committing
        <4> QED
          BY <4>1, <4>2
      <3>3. Committing(i) => reduced'[i] = reduced[i]
        <4>1. Committing(i) => pc[i] = "reduced" /\ pc'[i] = "reduced"
          BY <3>2 DEF Committing
        <4>2. pc[i] = "reduced" => pc'[i] = "start"
          BY DEF Replica, StartQuorum, RetryQuorum, MissQuorum, Configure, Recover,
             ReceiveCheckpoint, HealFails, Allreduce, CollectiveTimesOut, ShouldCommit, TypeOK
        <4> QED
          BY <4>1, <4>2
      <3> QED
        BY <3>1, <3>2, <3>3
    <2> QED
      BY <2>1, <2>2, <2>3
  <1>7. OnHistory(i, H)'
    <2>1. OnHistory(i, H)
      BY <1>1, <1>4
    <2>2. CASE /\ step'[i] = step[i] /\ Restored(i)' = Restored(i)
               /\ (Committing(i)' <=> Committing(i))
               /\ Committing(i) => reduced'[i] = reduced[i]
      BY <1>2, <2>1, <2>2 DEF OnHistory
    <2>3. CASE /\ ~Committing(i)'
               /\ \E o \in Alive : step'[i] = step[o] /\ Restored(i)' = Restored(o)
      BY <1>4, <2>3 DEF OnHistory
    <2>4. CASE /\ ~Committing(i)' /\ Committing(i)
               /\ step'[i] = step[i] + 1
               /\ Restored(i)' = Append(Restored(i), <<reduced[i], NumParticipants(i)>>)
      BY <2>1, <2>4 DEF OnHistory
    <2> QED
      BY <1>6, <2>2, <2>3, <2>4
  <1>8. \A k \in Alive' : OnHistory(k, H)'
    <2>1. ASSUME NEW k \in Alive, k # i
          PROVE  OnHistory(k, H)'
      BY <1>2, <1>3, <1>4, <2>1 DEF OnHistory
    <2> QED
      BY <1>1, <1>7, <2>1
  <1>9. ASSUME NEW k \in Alive, NEW n \in Nat, Reached(k, n)
        PROVE  Reached(k, n)'
    <2>1. CASE k # i
      BY <1>3, <1>9, <2>1 DEF Reached
    <2>2. CASE k = i
      BY <1>5, <1>6, <1>9, <2>2 DEF Reached
    <2> QED
      BY <2>1, <2>2
  <1>10. ASSUME NEW k \in Alive, NEW n \in Nat, Reached(k, n)'
         PROVE  \E o \in Alive : Reached(o, n)
    <2>1. CASE k # i
      BY <1>3, <1>10, <2>1 DEF Reached
    <2>2. CASE k = i
      <3>1. CASE step'[i] = step[i] /\ (Committing(i)' <=> Committing(i))
        BY <1>10, <2>2, <3>1 DEF Reached
      <3>2. CASE ~Committing(i)' /\ \E o \in Alive : step'[i] = step[o]
        BY <1>10, <2>2, <3>2 DEF Reached
      <3>3. CASE ~Committing(i)' /\ Committing(i) /\ step'[i] = step[i] + 1
        BY <1>1, <1>5, <1>10, <2>2, <3>3 DEF Reached
      <3> QED
        BY <1>6, <3>1, <3>2, <3>3
    <2> QED
      BY <2>1, <2>2
  <1>11. Reaching'
    <2> SUFFICES ASSUME NEW n \in Nat, NEW k \in Alive, Reached(k, n)'
                 PROVE  \E D : Majority(D)' /\ \A m \in D : Reached(m, n)'
      BY <1>1 DEF Reaching
    <2>1. PICK D : Majority(D) /\ \A m \in D : Reached(m, n)
      BY <1>10 DEF Reaching
    <2>2. Majority(D)' /\ D \subseteq Alive
      BY <1>1, <2>1 DEF Majority
    <2>3. \A m \in D : Reached(m, n)'
      BY <1>9, <2>1, <2>2
    <2> QED
      BY <2>2, <2>3
  <1> QED
    BY <1>8, <1>11

LEMMA CollectiveHistory ==
  ASSUME ~PartialFailures, HistoryInv, NEW G \in {pg[i] : i \in Ids}, CollectiveEnds(G),
         \E s : WholeGroup(G, s)
  PROVE  Reaching' /\ \E H : \A k \in Alive' : OnHistory(k, H)'
  <1> USE DEF HistoryInv, Answered, Standing, Paced
  <1>1. /\ Alive' = Alive /\ Alive \subseteq Ids /\ quorum' = quorum
        /\ step' = step /\ weights' = weights /\ healing' = healing /\ pending' = pending
        /\ \A m \in G.members : pc[m] = "posted" /\ pg[m] = G
        /\ \A j \in Ids : pc'[j] = IF j \in G.members THEN "reduced" ELSE pc[j]
        /\ G \in Groups /\ G # None
    BY CollectiveLives DEF CollectiveEnds, Alive, TypeOK
  <1>2. /\ \A k : Restored(k)' = Restored(k)
        /\ \A k : NumParticipants(k)' = NumParticipants(k)
    BY <1>1 DEF Restored, NumParticipants
  <1>3. G.members \subseteq Alive /\ \A m \in G.members : m \in Ids /\ ~errored[m]
    BY <1>1 DEF Groups, Alive, OwnQuorum
  <1>4. PICK H : \A k \in Alive : OnHistory(k, H)
    OBVIOUS
  <1>5. \A k \in Alive : step[k] \in Nat
    BY <1>1 DEF TypeOK
  <1>6. PICK Ok \in {{}, G.members} :
          /\ errored' = [j \in Ids |-> IF j \in G.members \ Ok THEN TRUE ELSE errored[j]]
          /\ reduced' = [j \in Ids |-> IF j \in Ok THEN {m \in G.members : Participating(m)}
                                       ELSE reduced[j]]
    BY DEF CollectiveEnds
  <1>7. ASSUME NEW k \in Alive, k \notin G.members
        PROVE  /\ Committing(k)' <=> Committing(k)
               /\ reduced'[k] = reduced[k]
    <2>1. pc'[k] = pc[k] /\ errored'[k] = errored[k] /\ reduced'[k] = reduced[k]
      BY <1>1, <1>6, <1>7
    <2> QED
      BY <1>2, <2>1 DEF Committing
  <1>8. \A m \in G.members : ~Committing(m)
    BY <1>1 DEF Committing
  <1>9. ASSUME NEW k \in Alive, NEW n \in Nat, Reached(k, n)
        PROVE  Reached(k, n)'
    BY <1>1, <1>7, <1>8, <1>9 DEF Reached
  <1>10. CASE \A m \in G.members : ~Committing(m)'
    <2>1. \A k \in Alive : Committing(k)' <=> Committing(k)
      BY <1>7, <1>8, <1>10
    <2>2. \A k \in Alive : OnHistory(k, H)'
      BY <1>1, <1>2, <1>4, <1>7, <1>8, <2>1 DEF OnHistory
    <2>3. \A k \in Alive : \A n \in Nat : Reached(k, n)' <=> Reached(k, n)
      BY <1>1, <2>1 DEF Reached
    <2>4. \A D : Majority(D)' <=> Majority(D)
      BY <1>1 DEF Majority
    <2>5. \A D : Majority(D) => D \subseteq Alive
      BY DEF Majority
    <2>6. Reaching'
      <3> SUFFICES ASSUME NEW n \in Nat, NEW k \in Alive, Reached(k, n)'
                   PROVE  \E D : Majority(D)' /\ \A m \in D : Reached(m, n)'
        BY <1>1 DEF Reaching
      <3>1. PICK D : Majority(D) /\ \A m \in D : Reached(m, n)
        BY <2>3 DEF Reaching
      <3> QED
        BY <2>3, <2>4, <2>5, <3>1
    <2> QED
      BY <1>1, <2>2, <2>6
  <1>11. CASE \E m \in G.members : Committing(m)'
    <2>1. PICK s : WholeGroup(G, s) /\ OneQuorum(G, s)
      BY DEF WholeGroup
    <2>2. PICK n : n = MaxStep(s)
      OBVIOUS
    <2>3. PICK R : R = {m \in G.members : Participating(m)}
      OBVIOUS
    <2>4. Ok = G.members
      <3>1. PICK m \in G.members : Committing(m)'
        BY <1>11
      <3>2. ~errored'[m]
        BY <3>1 DEF Committing
      <3> QED
        BY <1>3, <1>6, <3>1, <3>2
    <2>5. \A m \in G.members :
            /\ step[m] = n /\ NumParticipants(m) = Size(s) /\ pc'[m] = "reduced"
            /\ ~errored'[m] /\ reduced'[m] = R
      <3> SUFFICES ASSUME NEW m \in G.members
                   PROVE  /\ step[m] = n /\ NumParticipants(m) = Size(s) /\ pc'[m] = "reduced"
                          /\ ~errored'[m] /\ reduced'[m] = R
        OBVIOUS
      <3>1. AnswerTo(m, s) /\ m \in Alive /\ m \in Ids /\ pc[m] = "posted" /\ pc[m] \in Active
        BY <1>1, <1>3, <2>1 DEF OneQuorum, Active
      <3>2. step[m] = n
        BY <1>3, <2>2, <3>1 DEF StepFits, AnswerTo
      <3>3. NumParticipants(m) = Size(s)
        BY <3>1, SizeFits
      <3>4. ~errored'[m] /\ reduced'[m] = R
        BY <1>3, <1>6, <2>3, <2>4, <3>1
      <3> QED
        BY <1>1, <3>1, <3>2, <3>3, <3>4
    <2>6. n \in Nat
      BY <2>1, <2>2, MaxStepFits DEF OneQuorum
    <2>7. \A m \in G.members : Committing(m)'
      BY <1>2, <1>11, <2>5 DEF Committing
    <2>8. Majority(G.members) /\ Majority(G.members)'
      <3>1. PICK m \in G.members : TRUE
        BY <1>11
      <3>2. m \in Alive /\ pg[m] = G
        BY <1>1, <1>3, <3>1
      <3> QED
        BY <1>1, <3>2 DEF Quorate, Majority
    <2>9. ASSUME NEW k \in Alive, Reached(k, n)
          PROVE  FALSE
      <3>1. PICK D : Majority(D) /\ \A m \in D : Reached(m, n)
        BY <2>6, <2>9 DEF Reaching
      <3>2. PICK m \in D : m \in G.members
        BY <2>8, <3>1, MajoritiesMeet
      <3>3. Reached(m, n) /\ step[m] = n /\ ~Committing(m)
        BY <1>8, <2>5, <3>1, <3>2
      <3> QED
        BY <2>6, <3>3 DEF Reached
    <2>10. \A k \in Alive : step[k] <= n /\ (Committing(k) => step[k] < n)
      <3> SUFFICES ASSUME NEW k \in Alive
                   PROVE  step[k] <= n /\ (Committing(k) => step[k] < n)
        OBVIOUS
      <3>1. ~(step[k] > n) /\ ~(step[k] = n /\ Committing(k))
        BY <2>9 DEF Reached
      <3> QED
        BY <1>5, <2>6, <3>1
    <2>14. PICK W : \A m \in G.members : Restored(m) = W
      <3>1. ASSUME ~InitSync \/ n > 0, NEW m \in G.members
            PROVE  Restored(m) = H[n]
        <4>1. step[m] = n /\ OnHistory(m, H)
          BY <1>3, <1>4, <2>5
        <4> QED
          BY <3>1, <4>1 DEF OnHistory
      <3>2. ASSUME InitSync, n = 0
            PROVE  \A m \in G.members : Restored(m) = weights[Primary(s, 0)]
        <4>1. \A m \in G.members : m \in Alive /\ pc[m] = "posted" /\ ~errored[m]
          BY <1>1, <1>3
        <4> QED
          BY <2>1, <2>2, <3>2, <4>1, FirstWeights
      <3> QED
        BY <2>6, <3>1, <3>2
    <2> DEFINE N == [x \in Nat |-> IF x = n + 1 THEN Append(W, <<R, Size(s)>>) ELSE H[x]]
    <2>11. /\ \A x \in Nat : x # n + 1 => N[x] = H[x]
           /\ N[n + 1] = Append(W, <<R, Size(s)>>)
      BY <2>6
    <2> HIDE DEF N
    <2>12. ASSUME NEW k \in Alive
           PROVE  OnHistory(k, N)'
      <3>1. OnHistory(k, H) /\ step[k] \in Nat
        BY <1>4, <1>5
      <3>2. step[k] # n + 1 /\ N[step[k]] = H[step[k]]
        BY <2>6, <2>10, <2>11, <3>1
      <3>3. ~InitSync \/ step'[k] > 0 => Restored(k)' = N[step'[k]]
        BY <1>1, <1>2, <3>1, <3>2 DEF OnHistory
      <3>4. CASE k \in G.members
        <4>1. N[step[k] + 1] = Append(Restored(k)', <<reduced'[k], NumParticipants(k)'>>)
          <5>1. /\ step[k] = n /\ reduced'[k] = R /\ NumParticipants(k)' = Size(s)
                /\ Restored(k)' = W
            BY <1>2, <2>5, <2>14, <3>4
          <5> QED
            BY <2>11, <5>1
        <4> QED
          BY <1>1, <3>3, <4>1 DEF OnHistory
      <3>5. CASE k \notin G.members
        <4>1. Committing(k)' => N[step[k] + 1] = H[step[k] + 1]
          <5>1. Committing(k)' => step[k] < n
            BY <1>7, <2>10, <3>5
          <5> QED
            BY <2>6, <2>11, <3>1, <5>1
        <4>2. reduced'[k] = reduced[k] /\ (Committing(k)' <=> Committing(k))
          BY <1>7, <3>5
        <4> QED
          BY <1>1, <1>2, <3>1, <3>2, <3>3, <4>1, <4>2 DEF OnHistory
      <3> QED
        BY <3>4, <3>5
    <2>13. Reaching'
      <3> SUFFICES ASSUME NEW x \in Nat, NEW k \in Alive, Reached(k, x)'
                   PROVE  \E D : Majority(D)' /\ \A m \in D : Reached(m, x)'
        BY <1>1 DEF Reaching
      <3>1. CASE k \in G.members \/ x = n
        <4>1. x <= n
          BY <1>1, <2>5, <2>6, <3>1 DEF Reached
        <4>2. \A m \in G.members : Reached(m, x)'
          BY <1>1, <2>5, <2>6, <2>7, <4>1 DEF Reached
        <4> QED
          BY <2>8, <4>2
      <3>2. CASE k \notin G.members
        <4>1. Reached(k, x)
          BY <1>1, <1>7, <3>2 DEF Reached
        <4>2. PICK D : Majority(D) /\ \A m \in D : Reached(m, x)
          BY <4>1 DEF Reaching
        <4>3. Majority(D)' /\ D \subseteq Alive
          BY <1>1, <4>2 DEF Majority
        <4> QED
          BY <1>9, <4>2, <4>3
      <3> QED
        BY <3>1, <3>2
    <2> QED
      BY <1>1, <2>12, <2>13
  <1> QED
    BY <1>10, <1>11

LEMMA HistoryStays ==
  ASSUME HistoryInv, Alive' = Alive, UNCHANGED local,
         \A k \in Alive : (pc'[k] = "reduced" <=> pc[k] = "reduced")
                            /\ (pc[k] = "reduced" => quorum'[k] = quorum[k])
  PROVE  Reaching' /\ \E H : \A k \in Alive' : OnHistory(k, H)'
  <1> USE DEF HistoryInv, local
  <1>1. \A k \in Alive : Committing(k)' <=> Committing(k)
    BY DEF Committing, NumParticipants
  <1>2. \A k \in Alive : Committing(k) => NumParticipants(k)' = NumParticipants(k)
    BY DEF Committing, NumParticipants
  <1>3. \A k : Restored(k)' = Restored(k)
    BY DEF Restored
  <1>4. \A k \in Alive : \A n : Reached(k, n)' <=> Reached(k, n)
    BY <1>1 DEF Reached
  <1>5. \A D : Majority(D) => Majority(D)' /\ D \subseteq Alive
    BY DEF Majority
  <1>6. Reaching'
    <2> SUFFICES ASSUME NEW n \in Nat, NEW k \in Alive, Reached(k, n)'
                 PROVE  \E D : Majority(D)' /\ \A m \in D : Reached(m, n)'
      BY DEF Reaching
    <2>1. PICK D : Majority(D) /\ \A m \in D : Reached(m, n)
      BY <1>4 DEF Reaching
    <2> QED
      BY <1>4, <1>5, <2>1
  <1>7. PICK H : \A k \in Alive : OnHistory(k, H)
    OBVIOUS
  <1>8. \A k \in Alive : OnHistory(k, H)'
    BY <1>1, <1>2, <1>3, <1>7 DEF OnHistory
  <1> QED
    BY <1>6, <1>8

LEMMA NextHistory ==
  ASSUME ~PartialFailures, HistoryInv, [Next]_vars, \A i \in Ids : ~Crash(i),
         \A G \in {pg[i] : i \in Ids} : CollectiveEnds(G) => \E s : WholeGroup(G, s)
  PROVE  HistoryInv'
  <1> USE DEF HistoryInv
  <1>1. Answered' /\ Paced' /\ NobodyDead' /\ Quorate' /\ Healed'
    BY NextAnswered, NextPaced, NextQuorate, NextHealed DEF Answered
  <1>2. CASE UNCHANGED vars
    BY <1>1, <1>2, HistoryStays DEF vars, Alive
  <1>3. CASE RestartLighthouse
    BY <1>1, <1>3, HistoryStays DEF RestartLighthouse, Alive
  <1>4. ASSUME NEW S \in SUBSET Registered, FormQuorum(S)
        PROVE  HistoryInv'
    <2>1. /\ Alive' = Alive /\ UNCHANGED local
          /\ \A k \in Ids : pc'[k] = IF k \in S \cap Alive THEN "quorum" ELSE pc[k]
          /\ \A k \in Ids \ (S \cap Alive) : quorum'[k] = quorum[k]
      BY <1>4, FormLives DEF FormQuorum, Answered, Standing
    <2>2. \A k \in S \cap Alive : pc[k] = "waiting"
      BY <1>4 DEF Registered, Requested, Answered, Standing
    <2>3. \A k \in Alive : /\ pc'[k] = "reduced" <=> pc[k] = "reduced"
                           /\ pc[k] = "reduced" => quorum'[k] = quorum[k]
      BY <2>1, <2>2 DEF Alive
    <2> QED
      BY <1>1, <2>1, <2>3, HistoryStays
  <1> QED
    BY <1>1, <1>2, <1>3, <1>4, CollectiveHistory, ReplicaHistory DEF Next

\* Without crashes.
LEMMA NoCrash ==
  ASSUME Lives = 1, NEW i \in Ids
  PROVE  ~Crash(i)
  <1>1. i \in Nat /\ i % 1 = 0
    BY IdsFinite
  <1> QED
    BY <1>1 DEF Crash

OneHistoryInv == EpochInv /\ HistoryInv

LEMMA InitOneHistory == Init => OneHistoryInv
  BY InitEpoch, InitHistory DEF OneHistoryInv

LEMMA NextOneHistory ==
  ASSUME Lives = 1, ~PartialFailures, ~LighthouseFaults \/ MaxFaults <= 1,
         OneHistoryInv, [Next]_vars
  PROVE  OneHistoryInv'
  <1> USE DEF OneHistoryInv
  <1>1. \A G \in {pg[i] : i \in Ids} : CollectiveEnds(G) => \E s : WholeGroup(G, s)
    BY EndedInEpoch
  <1> QED
    BY <1>1, NextEpoch, NextHistory, NoCrash

LEMMA OneHistorySuffices == OneHistoryInv => SameStepSameWeights
  BY DEF OneHistoryInv, HistoryInv, OnHistory, SameStepSameWeights

\* "Replicas with the same max_step have the same model parameters"
\* (docs/source/protocol.rst:8), also when join_timeout leaves live replicas out
\* of a quorum and when the lighthouse restarts, if that is the only fault: those
\* left out lag behind or have made the same steps, for a step is made by a
\* majority or not at all, and the first one, under init_sync, by those that have
\* the primary's weights.  Without crashes and partial failures, that is; with
\* them it is a theorem where nobody is left out (SameStepsSameWeights).
THEOREM OneHistory ==
  ASSUME Lives = 1, ~PartialFailures, ~LighthouseFaults \/ MaxFaults <= 1
  PROVE  Spec => []SameStepSameWeights
  BY InitOneHistory, NextOneHistory, OneHistorySuffices, PTL DEF Spec

=============================================================================
