------------------------ MODULE ManagerServerProofs ------------------------
(***************************************************************************)
(* Theorems about ManagerServer, for every set of local ranks, any number  *)
(* of retries and with or without failed heals and timed out votes.        *)
(***************************************************************************)
EXTENDS MCManagerServer, FiniteSetTheorems, TLAPS

CallsType == [Ranks -> Call \cup {None}]

\* A rank waits in the call its loop has got to, and the reply is of its kind;
\* no quorum is at the bound on steps.
CallsFit ==
  \A g \in Ranks :
    calls[g] # None =>
      /\ calls[g].kind = "quorum" =>
           /\ pc[g] = "quorum"
           /\ calls[g].reply \in {None} \cup {q \in QuorumReply : q.max_step < MaxStep}
      /\ calls[g].kind = "commit" =>
           /\ pc[g] = "train"
           /\ calls[g].reply \in {None} \cup CommitReply

\* A rank inside a step has not used up the bound on steps.
StepsLeft == \A g \in Ranks : pc[g] # "start" => step[g] < MaxStep

TypeInv == TypeOK /\ CallsFit /\ StepsLeft

-----------------------------------------------------------------------------
(* Type correctness *)

LEMMA RepliedType ==
  ASSUME NEW cs \in CallsType, NEW kind, NEW value \in QuorumReply \cup CommitReply
  PROVE  Replied(cs, kind, value) \in CallsType
  <1>1. ASSUME NEW g \in Ranks, cs[g] # None
        PROVE  [cs[g] EXCEPT !.reply = value] \in Call
    <2>1. cs[g] \in Call
      BY <1>1 DEF CallsType
    <2> QED
      BY <2>1 DEF Call
  <1> QED
    BY <1>1 DEF Replied, CallsType

LEMMA SubscribeType ==
  ASSUME calls \in CallsType, NEW g \in Ranks, NEW kind \in {"quorum", "commit"}
  PROVE  Subscribe(g, kind) \in CallsType
  <1>1. [kind |-> kind, reply |-> None] \in Call
    BY DEF Call
  <1> QED
    BY <1>1 DEF Subscribe, CallsType

LEMMA TypeInit == Init => TypeInv
  BY ManagerBoundsAssumption DEF Init, TypeInv, TypeOK, CallsFit, StepsLeft

LEMMA TypeStep == TypeInv /\ [Next]_vars => TypeInv'
  <1> SUFFICES ASSUME TypeInv, [Next]_vars PROVE TypeInv'
    OBVIOUS
  <1> USE ManagerBoundsAssumption DEF TypeInv
  <1>1. ASSUME NEW g \in Ranks, StartQuorum(g)
        PROVE  TypeInv'
    <2>1. calls' \in CallsType
      BY <1>1, SubscribeType DEF StartQuorum, TypeOK, CallsType
    <2>2. [participants EXCEPT ![g] = step[g]] \in [Ranks -> (0..MaxStep) \cup {None}]
      BY DEF TypeOK
    <2>3. CASE AllJoined([participants EXCEPT ![g] = step[g]])
      <3>1. [round |-> rounds + 1, step |-> step[g], attempts |-> 0] \in Task /\ rounds' \in 0..MaxRounds
        BY <1>1, <2>3 DEF StartQuorum, TypeOK, Task
      <3>2. TypeOK'
        BY <1>1, <2>1, <2>3, <3>1 DEF StartQuorum, TypeOK, CallsType
      <3> QED
        BY <1>1, <3>2 DEF StartQuorum, TypeOK, CallsFit, StepsLeft, Subscribe
    <2>4. CASE ~AllJoined([participants EXCEPT ![g] = step[g]])
      <3>1. TypeOK'
        BY <1>1, <2>1, <2>2, <2>4 DEF StartQuorum, TypeOK, CallsType
      <3> QED
        BY <1>1, <3>1 DEF StartQuorum, TypeOK, CallsFit, StepsLeft, Subscribe
    <2> QED
      BY <2>3, <2>4
  <1>2. ASSUME NEW g \in Ranks, QuorumArrives(g)
        PROVE  TypeInv'
    <2>1. calls[g] \in Call /\ calls[g].kind = "quorum"
      BY <1>2 DEF QuorumArrives, TypeOK, CallsFit, Call
    <2>2. calls[g].reply \in QuorumReply /\ calls[g].reply.max_step < MaxStep
      BY <1>2, <2>1 DEF QuorumArrives, CallsFit
    <2>3. calls[g].reply.max_step \in 0..MaxStep
      BY <2>2 DEF QuorumReply
    <2>4. step' \in [Ranks -> 0..MaxStep] /\ step'[g] < MaxStep
      BY <1>2, <2>2, <2>3 DEF QuorumArrives, TypeOK, StepsLeft
    <2>5. \A k \in Ranks \ {g} : step'[k] = step[k]
      BY <1>2 DEF QuorumArrives, TypeOK
    <2>6. TypeOK'
      BY <1>2, <2>4 DEF QuorumArrives, TypeOK, server
    <2> QED
      BY <1>2, <2>4, <2>5, <2>6 DEF QuorumArrives, TypeOK, CallsFit, StepsLeft
  <1>3. ASSUME NEW g \in Ranks, ReportError(g)
        PROVE  TypeInv'
    BY <1>3 DEF ReportError, TypeOK, CallsFit, StepsLeft, server
  <1>4. ASSUME NEW g \in Ranks, ShouldCommit(g)
        PROVE  TypeInv'
    <2> DEFINE count    == commitCount \cup {g}
               failures == IF errored[g] THEN commitFailures \cup {g} ELSE commitFailures
               decision == [should_commit |-> Decision(failures, g)]
    <2>1. decision \in CommitReply
      BY DEF CommitReply, Decision
    <2>2. Subscribe(g, "commit") \in CallsType
      BY SubscribeType DEF TypeOK, CallsType
    <2>3. Replied(Subscribe(g, "commit"), "commit", decision) \in CallsType
      BY <2>1, <2>2, RepliedType
    <2>4. calls' \in CallsType
      BY <1>4, <2>2, <2>3 DEF ShouldCommit
    <2>5. [step |-> step[g], commit |-> ~errored[g]] \in Vote
      BY DEF TypeOK, Vote
    <2>6. commitCount' \subseteq Ranks /\ commitFailures' \subseteq commitCount'
      BY <1>4 DEF ShouldCommit, ResetVotes, TypeOK
    <2>7. TypeOK'
      BY <1>4, <2>4, <2>5, <2>6 DEF ShouldCommit, TypeOK, CallsType
    <2>8. CallsFit'
      <3>1. ASSUME NEW k \in Ranks, calls'[k] # None
            PROVE  /\ calls'[k].kind = "quorum" =>
                        /\ pc'[k] = "quorum"
                        /\ calls'[k].reply \in {None} \cup {q \in QuorumReply : q.max_step < MaxStep}
                   /\ calls'[k].kind = "commit" =>
                        /\ pc'[k] = "train"
                        /\ calls'[k].reply \in {None} \cup CommitReply
        <4>1. Subscribe(g, "commit")[k] =
                IF k = g THEN [kind |-> "commit", reply |-> None] ELSE calls[k]
          BY DEF Subscribe, TypeOK
        <4>2. pc' = pc /\ pc[g] = "train"
          BY <1>4 DEF ShouldCommit
        <4>3. \/ calls'[k] = Subscribe(g, "commit")[k]
              \/ /\ Subscribe(g, "commit")[k] # None
                 /\ Subscribe(g, "commit")[k].kind = "commit"
                 /\ calls'[k] = [Subscribe(g, "commit")[k] EXCEPT !.reply = decision]
          BY <1>4 DEF ShouldCommit, Replied
        <4>4. CASE calls'[k] = Subscribe(g, "commit")[k]
          BY <3>1, <4>1, <4>2, <4>4 DEF CallsFit
        <4>5. CASE /\ Subscribe(g, "commit")[k] # None
                   /\ Subscribe(g, "commit")[k].kind = "commit"
                   /\ calls'[k] = [Subscribe(g, "commit")[k] EXCEPT !.reply = decision]
          <5>1. Subscribe(g, "commit")[k] \in Call
            BY <2>2, <4>5 DEF CallsType
          <5>2. calls'[k].kind = "commit" /\ calls'[k].reply = decision
            BY <4>5, <5>1 DEF Call
          <5>3. pc[k] = "train"
            BY <4>1, <4>2, <4>5 DEF CallsFit
          <5> QED
            BY <2>1, <4>2, <5>2, <5>3
        <4> QED
          BY <4>3, <4>4, <4>5
      <3> QED
        BY <3>1 DEF CallsFit
    <2> QED
      BY <1>4, <2>7, <2>8 DEF ShouldCommit, StepsLeft
  <1>5. ASSUME NEW g \in Ranks, Decided(g)
        PROVE  TypeInv'
    <2>1. step[g] + 1 \in 0..MaxStep
      BY <1>5 DEF Decided, TypeOK, StepsLeft
    <2>2. step' \in [Ranks -> 0..MaxStep] /\ \A k \in Ranks \ {g} : step'[k] = step[k]
      BY <1>5, <2>1 DEF Decided, TypeOK
    <2>3. TypeOK'
      BY <1>5, <2>2 DEF Decided, TypeOK, server
    <2> QED
      BY <1>5, <2>2, <2>3 DEF Decided, TypeOK, CallsFit, StepsLeft
  <1>6. ASSUME NEW g \in Ranks, VoteTimesOut(g)
        PROVE  TypeInv'
    BY <1>6 DEF VoteTimesOut, TypeOK, CallsFit, StepsLeft, server
  <1>7. ASSUME NEW t \in tasks, LighthouseAnswers(t)
        PROVE  TypeInv'
    <2>1. PICK maxStep \in t.step..(MaxStep - 1) :
            calls' = Replied(calls, "quorum", [max_step |-> maxStep, heal |-> t.step # maxStep])
      BY <1>7 DEF LighthouseAnswers
    <2> DEFINE reply == [max_step |-> maxStep, heal |-> t.step # maxStep]
    <2>2. t.step \in 0..MaxStep
      BY DEF TypeOK, Task
    <2>3. reply \in QuorumReply /\ reply.max_step < MaxStep
      BY <2>1, <2>2 DEF QuorumReply
    <2>4. calls' \in CallsType
      BY <2>1, <2>3, RepliedType DEF TypeOK, CallsType
    <2>5. TypeOK'
      BY <1>7, <2>4 DEF LighthouseAnswers, TypeOK, CallsType
    <2>6. ASSUME NEW k \in Ranks, calls'[k] # None
          PROVE  /\ calls'[k].kind = "quorum" =>
                      /\ pc'[k] = "quorum"
                      /\ calls'[k].reply \in {None} \cup {q \in QuorumReply : q.max_step < MaxStep}
                 /\ calls'[k].kind = "commit" =>
                      /\ pc'[k] = "train"
                      /\ calls'[k].reply \in {None} \cup CommitReply
      <3>1. pc' = pc
        BY <1>7 DEF LighthouseAnswers
      <3>2. \/ calls'[k] = calls[k]
            \/ /\ calls[k] # None
               /\ calls[k].kind = "quorum"
               /\ calls'[k] = [calls[k] EXCEPT !.reply = reply]
        BY <2>1 DEF Replied
      <3>3. CASE calls'[k] = calls[k]
        BY <2>6, <3>1, <3>3 DEF CallsFit
      <3>4. CASE /\ calls[k] # None
                 /\ calls[k].kind = "quorum"
                 /\ calls'[k] = [calls[k] EXCEPT !.reply = reply]
        <4>1. calls'[k].kind = "quorum" /\ calls'[k].reply = reply
          BY <3>4 DEF TypeOK, Call
        <4> QED
          BY <2>3, <3>1, <3>4, <4>1 DEF CallsFit
      <3> QED
        BY <3>2, <3>3, <3>4
    <2> QED
      BY <1>7, <2>5, <2>6 DEF LighthouseAnswers, CallsFit, StepsLeft
  <1>8. ASSUME NEW t \in tasks, LighthouseFails(t)
        PROVE  TypeInv'
    <2>1. [t EXCEPT !.attempts = @ + 1] \in Task
      BY <1>8 DEF LighthouseFails, TypeOK, Task
    <2> QED
      BY <1>8, <2>1 DEF LighthouseFails, TypeOK, CallsFit, StepsLeft
  <1>9. CASE UNCHANGED vars
    BY <1>9 DEF vars, server, TypeOK, CallsFit, StepsLeft
  <1> QED
    BY <1>1, <1>2, <1>3, <1>4, <1>5, <1>6, <1>7, <1>8, <1>9 DEF Next, Lighthouse, Trainer

LEMMA TypeInvariant == Spec => []TypeInv
  <1> QED
    BY TypeInit, TypeStep, PTL DEF Spec

\* The server and its clients keep their types.
THEOREM TypeCorrect == Spec => []TypeOK
  <1>1. TypeInv => TypeOK
    BY DEF TypeInv
  <1> QED
    BY <1>1, TypeInvariant, PTL

-----------------------------------------------------------------------------
(* Nobody is left behind *)

\* After a broadcast no call of its kind waits; the others are as they were.
LEMMA RepliedWaiting ==
  ASSUME NEW cs \in CallsType, NEW kind, NEW value, value # None,
         NEW g \in Ranks, Replied(cs, kind, value)[g] # None,
         Replied(cs, kind, value)[g].reply = None
  PROVE  Replied(cs, kind, value)[g] = cs[g] /\ cs[g].kind # kind
  <1>1. CASE cs[g] # None /\ cs[g].kind = kind /\ cs[g].reply = None
    <2>1. cs[g] \in Call
      BY <1>1 DEF CallsType
    <2>2. [cs[g] EXCEPT !.reply = value].reply = value
      BY <2>1 DEF Call
    <2>3. Replied(cs, kind, value)[g] = [cs[g] EXCEPT !.reply = value]
      BY <1>1 DEF Replied
    <2> QED
      BY <2>2, <2>3
  <1>2. CASE ~(cs[g] # None /\ cs[g].kind = kind /\ cs[g].reply = None)
    <2>1. Replied(cs, kind, value)[g] = cs[g]
      BY <1>2 DEF Replied
    <2> QED
      BY <1>2, <2>1
  <1> QED
    BY <1>1, <1>2

LEMMA NoLostInit == Init => NoLostRank
  BY DEF Init, NoLostRank, Waiting

LEMMA NoLostStep == TypeInv /\ NoLostRank /\ [Next]_vars => NoLostRank'
  <1> SUFFICES ASSUME TypeInv, NoLostRank, [Next]_vars,
                      NEW k \in Ranks
               PROVE  /\ Waiting(k, "commit")' => k \in commitCount'
                      /\ Waiting(k, "quorum")' => participants'[k] # None \/ tasks' # {}
    BY DEF NoLostRank
  <1> USE NoneAssumption
  <1>0. TypeOK /\ calls \in CallsType
    BY DEF TypeInv, TypeOK, CallsType
  <1>1. ASSUME NEW g \in Ranks, StartQuorum(g)
        PROVE  /\ Waiting(k, "commit")' => k \in commitCount'
               /\ Waiting(k, "quorum")' => participants'[k] # None \/ tasks' # {}
    <2>1. calls'[k] = IF k = g THEN [kind |-> "quorum", reply |-> None] ELSE calls[k]
      BY <1>0, <1>1 DEF StartQuorum, Subscribe, CallsType
    <2>2. Waiting(k, "commit")' => k \in commitCount'
      BY <1>1, <2>1 DEF StartQuorum, NoLostRank, Waiting
    <2>3. CASE AllJoined([participants EXCEPT ![g] = step[g]])
      BY <1>1, <2>2, <2>3 DEF StartQuorum
    <2>4. CASE ~AllJoined([participants EXCEPT ![g] = step[g]])
      <3>1. participants' = [participants EXCEPT ![g] = step[g]] /\ tasks' = tasks
        BY <1>1, <2>4 DEF StartQuorum
      <3>2. step[g] # None
        BY <1>0, ManagerBoundsAssumption DEF TypeOK
      <3>3. CASE k = g
        BY <1>0, <2>2, <3>1, <3>2, <3>3 DEF TypeOK
      <3>4. CASE k # g
        BY <1>0, <2>1, <2>2, <3>1, <3>4 DEF TypeOK, NoLostRank, Waiting
      <3> QED
        BY <3>3, <3>4
    <2> QED
      BY <2>3, <2>4
  <1>2. ASSUME NEW g \in Ranks, QuorumArrives(g) \/ Decided(g) \/ VoteTimesOut(g)
        PROVE  /\ Waiting(k, "commit")' => k \in commitCount'
               /\ Waiting(k, "quorum")' => participants'[k] # None \/ tasks' # {}
    <2>1. calls'[k] = IF k = g THEN None ELSE calls[k]
      BY <1>0, <1>2 DEF QuorumArrives, Decided, VoteTimesOut, CallsType
    <2>2. UNCHANGED server
      BY <1>2 DEF QuorumArrives, Decided, VoteTimesOut
    <2> QED
      BY <2>1, <2>2 DEF server, NoLostRank, Waiting
  <1>3. ASSUME NEW g \in Ranks, ReportError(g)
        PROVE  /\ Waiting(k, "commit")' => k \in commitCount'
               /\ Waiting(k, "quorum")' => participants'[k] # None \/ tasks' # {}
    BY <1>3 DEF ReportError, server, NoLostRank, Waiting
  <1>4. ASSUME NEW g \in Ranks, ShouldCommit(g)
        PROVE  /\ Waiting(k, "commit")' => k \in commitCount'
               /\ Waiting(k, "quorum")' => participants'[k] # None \/ tasks' # {}
    <2> DEFINE count    == commitCount \cup {g}
               failures == IF errored[g] THEN commitFailures \cup {g} ELSE commitFailures
               decision == [should_commit |-> Decision(failures, g)]
               cs       == Subscribe(g, "commit")
    <2>1. decision \in CommitReply /\ decision # None
      <3>1. decision \in CommitReply
        BY DEF CommitReply, Decision
      <3> QED
        BY <3>1
    <2>2. cs \in CallsType
      BY <1>0, SubscribeType
    <2>3. cs[k] = IF k = g THEN [kind |-> "commit", reply |-> None] ELSE calls[k]
      BY <1>0 DEF Subscribe, CallsType
    <2>4. UNCHANGED <<participants, tasks>>
      BY <1>4 DEF ShouldCommit
    <2>5. CASE Cardinality(count) = Cardinality(Ranks)
      <3>1. calls' = Replied(cs, "commit", decision)
        BY <1>4, <2>5 DEF ShouldCommit
      <3>2. ~Waiting(k, "commit")'
        BY <2>1, <2>2, <3>1, RepliedWaiting DEF Waiting
      <3>3. Waiting(k, "quorum")' => Waiting(k, "quorum")
        BY <2>1, <2>2, <2>3, <3>1, RepliedWaiting DEF Waiting
      <3> QED
        BY <2>4, <3>2, <3>3 DEF NoLostRank
    <2>6. CASE Cardinality(count) # Cardinality(Ranks)
      <3>1. calls' = cs /\ commitCount' = count
        BY <1>4, <2>6 DEF ShouldCommit
      <3> QED
        BY <2>3, <2>4, <3>1 DEF NoLostRank, Waiting
    <2> QED
      BY <2>5, <2>6
  <1>5. ASSUME NEW t \in tasks, LighthouseAnswers(t)
        PROVE  /\ Waiting(k, "commit")' => k \in commitCount'
               /\ Waiting(k, "quorum")' => participants'[k] # None \/ tasks' # {}
    <2>1. PICK maxStep \in t.step..(MaxStep - 1) :
            calls' = Replied(calls, "quorum", [max_step |-> maxStep, heal |-> t.step # maxStep])
      BY <1>5 DEF LighthouseAnswers
    <2> DEFINE reply == [max_step |-> maxStep, heal |-> t.step # maxStep]
    <2>2. t.step \in 0..MaxStep
      BY <1>0 DEF TypeOK, Task
    <2>3. reply \in QuorumReply /\ reply # None
      <3>1. reply \in QuorumReply
        BY <2>1, <2>2, ManagerBoundsAssumption DEF QuorumReply
      <3> QED
        BY <3>1
    <2>4. calls' = Replied(calls, "quorum", reply)
      BY <2>1
    <2>5. ~Waiting(k, "quorum")'
      BY <1>0, <2>3, <2>4, RepliedWaiting DEF Waiting
    <2>6. Waiting(k, "commit")' => Waiting(k, "commit")
      BY <1>0, <2>3, <2>4, RepliedWaiting DEF Waiting
    <2>7. commitCount' = commitCount
      BY <1>5 DEF LighthouseAnswers
    <2> QED
      BY <2>5, <2>6, <2>7 DEF NoLostRank
  <1>6. ASSUME NEW t \in tasks, LighthouseFails(t)
        PROVE  /\ Waiting(k, "commit")' => k \in commitCount'
               /\ Waiting(k, "quorum")' => participants'[k] # None \/ tasks' # {}
    BY <1>6 DEF LighthouseFails, NoLostRank, Waiting
  <1>7. CASE UNCHANGED vars
    BY <1>7 DEF vars, server, NoLostRank, Waiting
  <1> QED
    BY <1>1, <1>2, <1>3, <1>4, <1>5, <1>6, <1>7 DEF Next, Lighthouse, Trainer

\* Whatever the ranks, the lighthouse and the timeouts do, a rank that waits for
\* the decision is counted in the round that makes it, and one that waits for a
\* quorum is registered or has a request under way.
THEOREM RanksKept == Spec => []NoLostRank
  <1> QED
    BY NoLostInit, NoLostStep, TypeInvariant, PTL DEF Spec

-----------------------------------------------------------------------------
(* The ranks keep step, and commit together *)

\* The quorum is asked once for all: while a request is under way every rank
\* waits for its answer, at the step of the member in the request.
RoundsInOrder ==
  /\ tasks # {} => \A g \in Ranks : Waiting(g, "quorum") /\ participants[g] = None
  /\ \A t \in tasks : \A g \in Ranks : t.step = step[g]
  /\ \A t, u \in tasks : t = u
  /\ \A g \in Ranks : participants[g] # None => Waiting(g, "quorum")

CallsInOrder ==
  \A g \in Ranks :
    /\ pc[g] = "quorum" => calls[g] # None
    /\ Told(g, "quorum") /\ ~calls[g].reply.heal => step[g] = calls[g].reply.max_step

\* The votes that are counted are the last ones of ranks that are in the step
\* and have not been answered.
VotesOfRound ==
  \A g \in commitCount :
    /\ pc[g] = "train"
    /\ ~Told(g, "commit")
    /\ voted[g] = [step |-> step[g], commit |-> g \notin commitFailures]
    /\ g \in commitFailures => errored[g]

StepInv == RoundsInOrder /\ CallsInOrder /\ VotesOfRound /\ RanksInStep

\* All the ranks have joined when each has registered.
LEMMA AllJoinedMeansAll ==
  ASSUME NEW ps, AllJoined(ps)
  PROVE  \A g \in Ranks : ps[g] # None
  <1> DEFINE S == {g \in Ranks : ps[g] # None}
  <1>1. S \subseteq Ranks /\ IsFiniteSet(Ranks) /\ Cardinality(S) = Cardinality(Ranks)
    BY RanksAssumption DEF AllJoined
  <1>2. S = Ranks
    BY <1>1, FS_Subset
  <1> QED
    BY <1>2

\* A rank waits in at most one way, and the place in its loop says which.
LEMMA CallsByPlace ==
  ASSUME TypeInv, NEW g \in Ranks
  PROVE  /\ pc[g] = "start" => calls[g] = None
         /\ pc[g] = "quorum" => ~Waiting(g, "commit") /\ ~Told(g, "commit")
         /\ pc[g] = "train" => ~Waiting(g, "quorum") /\ ~Told(g, "quorum")
         /\ calls[g] # None => calls[g].kind \in {"quorum", "commit"}
         /\ step[g] \in Nat
         /\ pc[g] \in {"start", "quorum", "train"}
  <1>1. calls[g] # None => calls[g].kind \in {"quorum", "commit"}
    BY DEF TypeInv, TypeOK, Call
  <1>2. step[g] \in Nat /\ pc[g] \in {"start", "quorum", "train"}
    BY ManagerBoundsAssumption DEF TypeInv, TypeOK
  <1> QED
    BY <1>1, <1>2 DEF TypeInv, CallsFit, Waiting, Told

\* A step after which every rank is between steps if it was, at its old level.
LEMMA LevelsFrame ==
  ASSUME RanksInStep,
         \A g \in Ranks : (Between(g)' <=> Between(g)) /\ Level(g)' = Level(g)
  PROVE  RanksInStep'
  BY DEF RanksInStep

\* A rank whose call and place stay as they were is where it was.
LEMMA RankFrame ==
  ASSUME NEW g \in Ranks, calls'[g] = calls[g], pc'[g] = pc[g], step'[g] = step[g]
  PROVE  /\ Between(g)' <=> Between(g)
         /\ Level(g)' = Level(g)
         /\ Waiting(g, "quorum")' <=> Waiting(g, "quorum")
         /\ Told(g, "quorum")' <=> Told(g, "quorum")
         /\ Told(g, "commit")' <=> Told(g, "commit")
  BY DEF Between, Level, Waiting, Told

LEMMA StepInvInit == Init => StepInv
  BY DEF Init, StepInv, RoundsInOrder, CallsInOrder, VotesOfRound, RanksInStep,
         Told, Waiting, Level, Between

LEMMA StartQuorumKeepsStep ==
  ASSUME TypeInv, StepInv, NEW g \in Ranks, StartQuorum(g)
  PROVE  StepInv'
  <1> USE NoneAssumption
  <1>1. TypeOK /\ calls[g] = None /\ pc[g] = "start" /\ step' = step
    BY CallsByPlace DEF StartQuorum, TypeInv
  <1>2. tasks = {}
    BY <1>1 DEF StepInv, RoundsInOrder, Waiting
  <1>3. \A k \in Ranks \ {g} : calls'[k] = calls[k] /\ pc'[k] = pc[k]
    BY <1>1 DEF StartQuorum, Subscribe, TypeOK
  <1>4. /\ calls'[g] = [kind |-> "quorum", reply |-> None]
        /\ pc'[g] = "quorum"
    BY <1>1 DEF StartQuorum, Subscribe, TypeOK
  <1>0. [kind |-> "quorum", reply |-> None] \in Call
    BY DEF Call
  <1>5. /\ Waiting(g, "quorum")' /\ ~Told(g, "quorum")' /\ ~Told(g, "commit")'
        /\ Between(g) /\ Between(g)'
        /\ Level(g)' = Level(g)
    BY <1>0, <1>1, <1>4 DEF Between, Level, Waiting, Told
  <1>6. RanksInStep'
    BY <1>1, <1>3, <1>5, RankFrame, LevelsFrame DEF StepInv
  <1>7. CallsInOrder'
    BY <1>0, <1>1, <1>3, <1>4 DEF StepInv, CallsInOrder, Told
  <1>8. VotesOfRound'
    <2>1. g \notin commitCount
      BY <1>1 DEF StepInv, VotesOfRound
    <2>2. commitCount \subseteq Ranks
      BY <1>1 DEF TypeOK
    <2>3. UNCHANGED <<commitCount, commitFailures, step, voted>>
          /\ \A k \in Ranks \ {g} : errored'[k] = errored[k]
      BY <1>1 DEF StartQuorum, TypeOK
    <2> QED
      BY <1>1, <1>3, <2>1, <2>2, <2>3, RankFrame DEF StepInv, VotesOfRound
  <1>9. RoundsInOrder'
    <2> DEFINE joined == [participants EXCEPT ![g] = step[g]]
    <2>1. \A k \in Ranks \ {g} : joined[k] = participants[k]
      BY <1>1 DEF TypeOK
    <2>2. \A k \in Ranks \ {g} : participants[k] # None => Waiting(k, "quorum")'
      BY <1>1, <1>3, RankFrame DEF StepInv, RoundsInOrder
    <2>3. CASE AllJoined(joined)
      <3>1. /\ participants' = [k \in Ranks |-> None]
            /\ tasks' = {[round |-> rounds + 1, step |-> step[g], attempts |-> 0]}
        BY <1>2, <2>3 DEF StartQuorum
      <3>0. \A k \in Ranks : joined[k] # None
        BY <2>3, AllJoinedMeansAll
      <3>2. \A k \in Ranks \ {g} : Waiting(k, "quorum") /\ Waiting(k, "quorum")'
        BY <2>1, <3>0, <1>1, <1>3 DEF StepInv, RoundsInOrder, Waiting
      <3>3. \A k \in Ranks : step[k] = step[g]
        <4>1. \A k \in Ranks \ {g} : Between(k) /\ Level(k) = step[k]
          BY <3>2 DEF Between, Level, Waiting, Told
        <4>2. Between(g) /\ Level(g) = step[g]
          BY <1>1 DEF Between, Level, Told
        <4> QED
          BY <4>1, <4>2 DEF StepInv, RanksInStep
      <3> QED
        BY <1>1, <1>5, <3>1, <3>2, <3>3 DEF RoundsInOrder
    <2>4. CASE ~AllJoined(joined)
      <3>1. participants' = joined /\ tasks' = {}
        BY <1>2, <2>4 DEF StartQuorum
      <3> QED
        BY <1>5, <2>1, <2>2, <3>1 DEF RoundsInOrder
    <2> QED
      BY <2>3, <2>4
  <1> QED
    BY <1>6, <1>7, <1>8, <1>9 DEF StepInv

LEMMA QuorumArrivesKeepsStep ==
  ASSUME TypeInv, StepInv, ~HealFailures, NEW g \in Ranks, QuorumArrives(g)
  PROVE  StepInv'
  <1> USE NoneAssumption
  <1>1. /\ TypeOK /\ pc[g] = "quorum" /\ Told(g, "quorum")
        /\ ~Waiting(g, "quorum") /\ ~Told(g, "commit")
    BY CallsByPlace DEF QuorumArrives, TypeInv, Told, Waiting
  <1>2. calls'[g] = None /\ pc'[g] = "train" /\ UNCHANGED <<server, voted, errored>>
    BY <1>1 DEF QuorumArrives, TypeOK
  <1>3. \A k \in Ranks \ {g} : calls'[k] = calls[k] /\ pc'[k] = pc[k] /\ step'[k] = step[k]
    BY <1>1 DEF QuorumArrives, TypeOK
  <1>4. step'[g] = calls[g].reply.max_step
    BY <1>1 DEF QuorumArrives, TypeOK, StepInv, CallsInOrder
  <1>5. ~Between(g) /\ ~Between(g)' /\ Level(g)' = Level(g)
    BY <1>1, <1>2, <1>4 DEF Between, Level, Waiting, Told
  <1>6. RanksInStep'
    BY <1>3, <1>5, RankFrame, LevelsFrame DEF StepInv
  <1>7. CallsInOrder'
    BY <1>1, <1>2, <1>3 DEF StepInv, CallsInOrder, Told
  <1>8. VotesOfRound'
    <2>1. g \notin commitCount /\ commitCount \subseteq Ranks
      BY <1>1 DEF StepInv, VotesOfRound, TypeOK
    <2> QED
      BY <1>2, <1>3, <2>1 DEF StepInv, VotesOfRound, Told, server
  <1>9. RoundsInOrder'
    <2>1. tasks = {} /\ participants[g] = None
      BY <1>1 DEF StepInv, RoundsInOrder
    <2> QED
      BY <1>2, <1>3, <2>1 DEF StepInv, RoundsInOrder, Waiting, server
  <1> QED
    BY <1>6, <1>7, <1>8, <1>9 DEF StepInv

LEMMA ReportErrorKeepsStep ==
  ASSUME TypeInv, StepInv, NEW g \in Ranks, ReportError(g)
  PROVE  StepInv'
  <1>1. /\ UNCHANGED <<server, calls, pc, step, voted>>
        /\ \A k \in Ranks : errored[k] => errored'[k]
        /\ commitCount \subseteq Ranks
    BY DEF ReportError, TypeInv, TypeOK
  <1>2. RanksInStep' /\ CallsInOrder' /\ RoundsInOrder'
    BY <1>1 DEF StepInv, RanksInStep, CallsInOrder, RoundsInOrder, Between, Level,
                Told, Waiting, server
  <1>3. VotesOfRound'
    BY <1>1 DEF StepInv, VotesOfRound, Told, server
  <1> QED
    BY <1>2, <1>3 DEF StepInv

LEMMA DecidedKeepsStep ==
  ASSUME TypeInv, StepInv, NEW g \in Ranks, Decided(g)
  PROVE  StepInv'
  <1> USE NoneAssumption
  <1>1. /\ TypeOK /\ pc[g] = "train" /\ Told(g, "commit")
        /\ ~Waiting(g, "quorum") /\ ~Told(g, "quorum")
    BY CallsByPlace DEF Decided, TypeInv, Told, Waiting
  <1>2. calls'[g] = None /\ pc'[g] = "start" /\ UNCHANGED <<server, voted, errored>>
    BY <1>1 DEF Decided, TypeOK
  <1>3. \A k \in Ranks \ {g} : calls'[k] = calls[k] /\ pc'[k] = pc[k] /\ step'[k] = step[k]
    BY <1>1 DEF Decided, TypeOK
  <1>4. step'[g] = IF calls[g].reply.should_commit THEN step[g] + 1 ELSE step[g]
    BY <1>1 DEF Decided, TypeOK
  <1>5. Between(g) /\ Between(g)' /\ Level(g)' = Level(g)
    BY <1>1, <1>2, <1>4 DEF Between, Level, Told
  <1>6. RanksInStep'
    BY <1>3, <1>5, RankFrame, LevelsFrame DEF StepInv
  <1>7. CallsInOrder'
    BY <1>1, <1>2, <1>3 DEF StepInv, CallsInOrder, Told
  <1>8. VotesOfRound'
    <2>1. g \notin commitCount /\ commitCount \subseteq Ranks
      BY <1>1 DEF StepInv, VotesOfRound, TypeOK
    <2> QED
      BY <1>2, <1>3, <2>1 DEF StepInv, VotesOfRound, Told, server
  <1>9. RoundsInOrder'
    <2>1. tasks = {} /\ participants[g] = None
      BY <1>1 DEF StepInv, RoundsInOrder
    <2> QED
      BY <1>2, <1>3, <2>1 DEF StepInv, RoundsInOrder, Waiting, server
  <1> QED
    BY <1>6, <1>7, <1>8, <1>9 DEF StepInv

LEMMA VoteTimesOutKeepsStep ==
  ASSUME TypeInv, StepInv, NEW g \in Ranks, VoteTimesOut(g)
  PROVE  StepInv'
  <1> USE NoneAssumption
  <1>1. /\ TypeOK /\ pc[g] = "train" /\ ~Told(g, "commit")
        /\ ~Waiting(g, "quorum") /\ ~Told(g, "quorum")
    BY CallsByPlace DEF VoteTimesOut, TypeInv, CallsFit, Told, Waiting
  <1>2. calls'[g] = None /\ UNCHANGED <<server, voted, errored, pc, step>>
    BY <1>1 DEF VoteTimesOut, TypeOK
  <1>3. \A k \in Ranks \ {g} : calls'[k] = calls[k]
    BY <1>1 DEF VoteTimesOut, TypeOK
  <1>4. ~Between(g) /\ ~Between(g)' /\ Level(g)' = Level(g)
    BY <1>1, <1>2 DEF Between, Level, Told, Waiting
  <1>5. RanksInStep'
    BY <1>2, <1>3, <1>4, RankFrame, LevelsFrame DEF StepInv
  <1>6. CallsInOrder'
    BY <1>1, <1>2, <1>3 DEF StepInv, CallsInOrder, Told
  <1>7. VotesOfRound'
    BY <1>1, <1>2, <1>3 DEF StepInv, VotesOfRound, Told, server, TypeOK
  <1>8. RoundsInOrder'
    <2>1. tasks = {} /\ participants[g] = None
      BY <1>1 DEF StepInv, RoundsInOrder
    <2> QED
      BY <1>2, <1>3, <2>1 DEF StepInv, RoundsInOrder, Waiting, server
  <1> QED
    BY <1>5, <1>6, <1>7, <1>8 DEF StepInv

\* What a broadcast does to the call of one rank.
LEMMA RepliedTold ==
  ASSUME NEW cs \in CallsType, NEW kind, NEW value \in QuorumReply \cup CommitReply,
         NEW g \in Ranks
  PROVE  LET new == Replied(cs, kind, value)[g]
         IN  IF cs[g] # None /\ cs[g].kind = kind /\ cs[g].reply = None
             THEN new # None /\ new.kind = kind /\ new.reply = value
             ELSE new = cs[g]
  <1> USE NoneAssumption
  <1>1. CASE cs[g] # None /\ cs[g].kind = kind /\ cs[g].reply = None
    <2>1. Replied(cs, kind, value)[g] = [cs[g] EXCEPT !.reply = value]
      BY <1>1 DEF Replied
    <2>2. cs[g] \in Call
      BY <1>1 DEF CallsType
    <2>3. [cs[g] EXCEPT !.reply = value] \in Call
      BY <2>2 DEF Call
    <2>4. [cs[g] EXCEPT !.reply = value].kind = kind
          /\ [cs[g] EXCEPT !.reply = value].reply = value
      BY <1>1, <2>2 DEF Call
    <2> QED
      BY <1>1, <2>1, <2>3, <2>4
  <1>2. CASE ~(cs[g] # None /\ cs[g].kind = kind /\ cs[g].reply = None)
    BY <1>2 DEF Replied
  <1> QED
    BY <1>1, <1>2

LEMMA LighthouseAnswersKeepsStep ==
  ASSUME TypeInv, StepInv, NEW t \in tasks, LighthouseAnswers(t)
  PROVE  StepInv'
  <1> USE NoneAssumption
  <1>1. TypeOK /\ calls \in CallsType
    BY DEF TypeInv, TypeOK, CallsType
  <1>2. PICK maxStep \in t.step..(MaxStep - 1) :
          calls' = Replied(calls, "quorum", [max_step |-> maxStep, heal |-> t.step # maxStep])
    BY DEF LighthouseAnswers
  <1> DEFINE reply == [max_step |-> maxStep, heal |-> t.step # maxStep]
  <1>3. reply \in QuorumReply /\ reply # None
    <2>1. t.step \in 0..MaxStep
      BY <1>1 DEF TypeOK, Task
    <2>2. reply \in QuorumReply
      BY <1>2, <2>1, ManagerBoundsAssumption DEF QuorumReply
    <2> QED
      BY <2>2
  <1>4. /\ \A k \in Ranks : Waiting(k, "quorum") /\ participants[k] = None /\ t.step = step[k]
        /\ tasks' = {}
    BY DEF StepInv, RoundsInOrder, LighthouseAnswers
  <1>5. UNCHANGED <<participants, commitCount, commitFailures, pc, step, errored, voted>>
    BY DEF LighthouseAnswers
  <1>6. \A k \in Ranks : calls'[k] # None /\ calls'[k].kind = "quorum" /\ calls'[k].reply = reply
    BY <1>1, <1>2, <1>3, <1>4, RepliedTold DEF Waiting
  <1>7. \A k \in Ranks : pc[k] = "quorum"
    BY <1>4 DEF Waiting, TypeInv, CallsFit
  <1>8. RanksInStep'
    BY <1>3, <1>5, <1>6, <1>7 DEF RanksInStep, Level, Told
  <1>9. CallsInOrder'
    <2>1. ASSUME NEW k \in Ranks, ~calls'[k].reply.heal
          PROVE  step'[k] = calls'[k].reply.max_step
      <3>1. calls'[k].reply.heal = (t.step # maxStep) /\ calls'[k].reply.max_step = maxStep
        BY <1>6
      <3>2. t.step = maxStep
        BY <2>1, <3>1
      <3> QED
        BY <1>4, <1>5, <3>1, <3>2
    <2> QED
      BY <1>6, <2>1 DEF CallsInOrder
  <1>10. VotesOfRound'
    <2>1. commitCount' = {}
      BY <1>1, <1>5, <1>7 DEF StepInv, VotesOfRound, TypeOK
    <2> QED
      BY <2>1 DEF VotesOfRound
  <1>11. RoundsInOrder'
    BY <1>4, <1>5 DEF RoundsInOrder
  <1> QED
    BY <1>8, <1>9, <1>10, <1>11 DEF StepInv

LEMMA LighthouseFailsKeepsStep ==
  ASSUME TypeInv, StepInv, NEW t \in tasks, LighthouseFails(t)
  PROVE  StepInv'
  <1>1. UNCHANGED <<participants, commitCount, commitFailures, calls, pc, step, errored, voted>>
    BY DEF LighthouseFails
  <1>2. RanksInStep' /\ CallsInOrder' /\ VotesOfRound'
    BY <1>1 DEF StepInv, RanksInStep, CallsInOrder, VotesOfRound, Between, Level,
                Told, Waiting
  <1>3. tasks' = {[t EXCEPT !.attempts = @ + 1]}
    BY DEF StepInv, RoundsInOrder, LighthouseFails
  <1>4. [t EXCEPT !.attempts = @ + 1].step = t.step
    BY DEF TypeInv, TypeOK, Task
  <1>5. RoundsInOrder'
    BY <1>1, <1>3, <1>4 DEF StepInv, RoundsInOrder, Waiting
  <1> QED
    BY <1>2, <1>5 DEF StepInv

\* The ranks and the failures that are counted once rank g has voted.
CountWith(g) == commitCount \cup {g}
FailuresWith(g) == IF errored[g] THEN commitFailures \cup {g} ELSE commitFailures

\* A vote that is cast again stays the vote of its step: an error that was
\* reported is not taken back before the next quorum.
LEMMA VotesCounted ==
  ASSUME TypeInv, StepInv, NEW g \in Ranks, ShouldCommit(g)
  PROVE  \A k \in CountWith(g) :
           /\ k \in Ranks
           /\ pc[k] = "train"
           /\ ~Told(k, "commit")
           /\ voted'[k] = [step |-> step[k], commit |-> k \notin FailuresWith(g)]
           /\ k \in FailuresWith(g) => errored[k]
  <1> TAKE k \in CountWith(g)
  <1>1. TypeOK /\ pc[g] = "train" /\ calls[g] = None
    BY DEF TypeInv, ShouldCommit
  <1>2. voted' = [voted EXCEPT ![g] = [step |-> step[g], commit |-> ~errored[g]]]
    BY DEF ShouldCommit
  <1>3. CASE k = g
    <2>1. errored[g] <=> g \in FailuresWith(g)
      BY <1>1 DEF StepInv, VotesOfRound, FailuresWith, TypeOK
    <2>2. ~errored[g] <=> g \notin FailuresWith(g)
      BY <2>1
    <2>3. voted'[g] = [step |-> step[g], commit |-> ~errored[g]]
      BY <1>1, <1>2 DEF TypeOK
    <2>4. (~errored[g]) = (g \notin FailuresWith(g))
      BY <2>2
    <2> QED
      BY <1>1, <1>3, <2>1, <2>3, <2>4 DEF Told
  <1>4. CASE k # g
    <2>1. k \in commitCount /\ voted'[k] = voted[k]
      BY <1>1, <1>2, <1>4 DEF CountWith, TypeOK
    <2>2. (k \notin FailuresWith(g)) = (k \notin commitFailures)
      BY <1>4 DEF FailuresWith
    <2> QED
      BY <1>1, <2>1, <2>2 DEF StepInv, VotesOfRound, TypeOK
  <1> QED
    BY <1>3, <1>4

\* The vote that decides: every rank has voted in the one step they are all in.
LEMMA LastVote ==
  ASSUME TypeInv, StepInv, NEW g \in Ranks, ShouldCommit(g),
         Cardinality(CountWith(g)) = Cardinality(Ranks)
  PROVE  /\ CountWith(g) = Ranks
         /\ \A j, k \in Ranks : step[j] = step[k]
         /\ \A k \in Ranks :
              /\ pc[k] = "train"
              /\ voted'[k] = [step |-> step[g], commit |-> k \notin FailuresWith(g)]
              /\ \/ calls'[k] = None
                 \/ /\ calls'[k] # None
                    /\ calls'[k].kind = "commit"
                    /\ calls'[k].reply = [should_commit |-> Decision(FailuresWith(g), g)]
  <1> USE NoneAssumption
  <1> DEFINE d == [should_commit |-> Decision(FailuresWith(g), g)]
  <1>1. TypeOK /\ calls \in CallsType
    BY DEF TypeInv, TypeOK, CallsType
  <1>2. CountWith(g) = Ranks
    BY <1>1, RanksAssumption, FS_Subset DEF CountWith, TypeOK
  <1>3. \A k \in Ranks : pc[k] = "train" /\ ~Told(k, "commit") /\ ~Told(k, "quorum")
                         /\ ~Waiting(k, "quorum")
    BY <1>2, VotesCounted, CallsByPlace
  <1>4. \A j, k \in Ranks : step[j] = step[k]
    <2>1. \A k \in Ranks : ~Between(k) /\ Level(k) = step[k]
      BY <1>3 DEF Between, Level
    <2> QED
      BY <2>1 DEF StepInv, RanksInStep
  <1>5. \A k \in Ranks : voted'[k] = [step |-> step[g], commit |-> k \notin FailuresWith(g)]
    BY <1>2, <1>4, VotesCounted
  <1>6. ASSUME NEW k \in Ranks
        PROVE  \/ calls'[k] = None
               \/ calls'[k] # None /\ calls'[k].kind = "commit" /\ calls'[k].reply = d
    <2> DEFINE cs == Subscribe(g, "commit")
    <2>1. cs \in CallsType /\ d \in CommitReply
      BY <1>1, SubscribeType DEF CommitReply, Decision
    <2>2. calls' = Replied(cs, "commit", d)
      BY DEF ShouldCommit, CountWith, FailuresWith
    <2>3. cs[k] = IF k = g THEN [kind |-> "commit", reply |-> None] ELSE calls[k]
      BY <1>1 DEF Subscribe, CallsType
    <2>4. CASE k = g
      <3>1. [kind |-> "commit", reply |-> None] \in Call
        BY DEF Call
      <3>2. cs[k] # None /\ cs[k].kind = "commit" /\ cs[k].reply = None
        BY <2>3, <2>4, <3>1
      <3> QED
        BY <2>1, <2>2, <3>2, RepliedTold
    <2>5. CASE k # g
      <3>1. \/ calls[k] = None
            \/ calls[k] # None /\ calls[k].kind = "commit" /\ calls[k].reply = None
        BY <1>3, CallsByPlace DEF Told, Waiting
      <3>2. cs[k] = calls[k]
        BY <2>3, <2>5
      <3> QED
        BY <2>1, <2>2, <3>1, <3>2, RepliedTold
    <2> QED
      BY <2>4, <2>5
  <1> QED
    BY <1>2, <1>3, <1>4, <1>5, <1>6

LEMMA ShouldCommitKeepsStep ==
  ASSUME TypeInv, StepInv, NEW g \in Ranks, ShouldCommit(g)
  PROVE  StepInv'
  <1> USE NoneAssumption
  <1>1. /\ TypeOK /\ pc[g] = "train" /\ calls[g] = None
        /\ UNCHANGED <<participants, tasks, pc, step, errored>>
    BY DEF TypeInv, ShouldCommit
  <1>2. tasks = {} /\ participants[g] = None
    BY <1>1 DEF StepInv, RoundsInOrder, Waiting
  <1>3. CASE Cardinality(CountWith(g)) = Cardinality(Ranks)
    <2> DEFINE d == [should_commit |-> Decision(FailuresWith(g), g)]
    <2>1. \A k \in Ranks :
            /\ pc[k] = "train"
            /\ \/ calls'[k] = None
               \/ calls'[k] # None /\ calls'[k].kind = "commit" /\ calls'[k].reply = d
      BY <1>3, LastVote
    <2>2. \A j, k \in Ranks : step[j] = step[k]
      BY <1>3, LastVote
    <2>3. RanksInStep'
      BY <1>1, <2>1, <2>2 DEF RanksInStep, Between, Level, Told, Waiting
    <2>4. CallsInOrder'
      BY <1>1, <2>1 DEF CallsInOrder, Told
    <2>5. commitCount' = {}
      BY <1>3 DEF ShouldCommit, CountWith, ResetVotes
    <2>6. VotesOfRound'
      BY <2>5 DEF VotesOfRound
    <2>7. \A k \in Ranks : participants[k] = None
      BY <2>1, CallsByPlace DEF StepInv, RoundsInOrder
    <2>8. RoundsInOrder'
      BY <1>1, <1>2, <2>7 DEF RoundsInOrder
    <2> QED
      BY <2>3, <2>4, <2>6, <2>8 DEF StepInv
  <1>4. CASE Cardinality(CountWith(g)) # Cardinality(Ranks)
    <2>1. /\ calls' = Subscribe(g, "commit")
          /\ commitCount' = CountWith(g)
          /\ commitFailures' = FailuresWith(g)
      BY <1>4 DEF ShouldCommit, CountWith, FailuresWith
    <2>2. /\ calls'[g] = [kind |-> "commit", reply |-> None]
          /\ \A k \in Ranks \ {g} : calls'[k] = calls[k]
      BY <1>1, <2>1 DEF Subscribe, TypeOK
    <2>3. ~Between(g) /\ ~Between(g)' /\ Level(g)' = Level(g)
      BY <1>1, <2>2 DEF Between, Level, Told, Waiting
    <2>4. RanksInStep'
      BY <1>1, <2>2, <2>3, RankFrame, LevelsFrame DEF StepInv
    <2>5. CallsInOrder'
      BY <1>1, <2>2 DEF StepInv, CallsInOrder, Told
    <2>6. VotesOfRound'
      <3>1. ASSUME NEW k \in CountWith(g)
            PROVE  ~Told(k, "commit")'
        <4>1. k \in Ranks /\ ~Told(k, "commit")
          BY VotesCounted
        <4>2. CASE k = g
          BY <2>2, <4>2 DEF Told
        <4>3. CASE k # g
          BY <2>2, <4>1, <4>3 DEF Told
        <4> QED
          BY <4>2, <4>3
      <3> QED
        BY <1>1, <2>1, <3>1, VotesCounted DEF VotesOfRound
    <2>7. RoundsInOrder'
      BY <1>1, <1>2, <2>2 DEF StepInv, RoundsInOrder, Waiting
    <2> QED
      BY <2>4, <2>5, <2>6, <2>7 DEF StepInv
  <1> QED
    BY <1>3, <1>4

LEMMA StepInvStep ==
  ASSUME TypeInv, StepInv, ~HealFailures, [Next]_vars
  PROVE  StepInv'
  <1>1. CASE UNCHANGED vars
    BY <1>1 DEF vars, server, StepInv, RoundsInOrder, CallsInOrder, VotesOfRound,
                RanksInStep, Between, Level, Told, Waiting
  <1>2. CASE Next
    BY <1>2, StartQuorumKeepsStep, QuorumArrivesKeepsStep, ReportErrorKeepsStep,
       ShouldCommitKeepsStep, DecidedKeepsStep, VoteTimesOutKeepsStep,
       LighthouseAnswersKeepsStep, LighthouseFailsKeepsStep
       DEF Next, Lighthouse, Trainer
  <1> QED
    BY <1>1, <1>2

\* The decision that a step broadcasts, if it broadcasts one.
LEMMA DecisionFits ==
  ASSUME TypeInv, StepInv, Next,
         NEW g \in Ranks, NEW d \in BOOLEAN, ToldTo(g, d)
  PROVE  \E f \in SUBSET Ranks :
           /\ d = (f = {})
           /\ \A k \in Ranks :
                voted'[k] = [step |-> voted'[g].step, commit |-> k \notin f]
  <1> USE NoneAssumption
  <1>1. TypeOK /\ calls \in CallsType /\ [should_commit |-> d] \in CommitReply
    BY DEF TypeInv, TypeOK, CallsType, CommitReply
  <1>2. calls'[g] # calls[g] /\ calls'[g] # None /\ calls'[g].reply = [should_commit |-> d]
    BY DEF ToldTo
  <1>3. ASSUME NEW k \in Ranks, StartQuorum(k)
        PROVE  FALSE
    <2>1. calls'[g] = IF g = k THEN [kind |-> "quorum", reply |-> None] ELSE calls[g]
      BY <1>1, <1>3 DEF StartQuorum, Subscribe, CallsType
    <2> QED
      BY <1>1, <1>2, <2>1
  <1>4. ASSUME NEW k \in Ranks, QuorumArrives(k) \/ Decided(k) \/ VoteTimesOut(k)
        PROVE  FALSE
    <2>1. calls'[g] = IF g = k THEN None ELSE calls[g]
      BY <1>1, <1>4 DEF QuorumArrives, Decided, VoteTimesOut, CallsType
    <2> QED
      BY <1>2, <2>1
  <1>5. ASSUME NEW k \in Ranks, ReportError(k)
        PROVE  FALSE
    BY <1>2, <1>5 DEF ReportError
  <1>6. ASSUME NEW t \in tasks, LighthouseFails(t)
        PROVE  FALSE
    BY <1>2, <1>6 DEF LighthouseFails
  <1>7. ASSUME NEW t \in tasks, LighthouseAnswers(t)
        PROVE  FALSE
    <2>1. PICK maxStep \in t.step..(MaxStep - 1) :
            calls' = Replied(calls, "quorum", [max_step |-> maxStep, heal |-> t.step # maxStep])
      BY <1>7 DEF LighthouseAnswers
    <2> DEFINE reply == [max_step |-> maxStep, heal |-> t.step # maxStep]
    <2>2. reply \in QuorumReply
      <3>1. t.step \in 0..MaxStep
        BY <1>1 DEF TypeOK, Task
      <3> QED
        BY <2>1, <3>1, ManagerBoundsAssumption DEF QuorumReply
    <2>3. calls'[g].reply = reply
      BY <1>1, <1>2, <2>1, <2>2, RepliedTold
    <2>4. reply # [should_commit |-> d]
      OBVIOUS
    <2> QED
      BY <1>2, <2>3, <2>4
  <1>8. ASSUME NEW j \in Ranks, ShouldCommit(j)
        PROVE  \E f \in SUBSET Ranks :
                 /\ d = (f = {})
                 /\ \A k \in Ranks :
                      voted'[k] = [step |-> voted'[g].step, commit |-> k \notin f]
    <2>1. CASE Cardinality(CountWith(j)) # Cardinality(Ranks)
      <3>1. calls' = Subscribe(j, "commit")
        BY <1>8, <2>1 DEF ShouldCommit, CountWith
      <3>2. calls'[g] = IF g = j THEN [kind |-> "commit", reply |-> None] ELSE calls[g]
        BY <1>1, <3>1 DEF Subscribe, CallsType
      <3> QED
        BY <1>1, <1>2, <3>2
    <2>2. CASE Cardinality(CountWith(j)) = Cardinality(Ranks)
      <3>1. \A k \in Ranks : voted'[k] = [step |-> step[j], commit |-> k \notin FailuresWith(j)]
        BY <1>8, <2>2, LastVote
      <3>2. calls'[g].reply = [should_commit |-> Decision(FailuresWith(j), j)]
        BY <1>2, <1>8, <2>2, LastVote
      <3>3. d = Decision(FailuresWith(j), j)
        BY <1>2, <3>2
      <3>4. FailuresWith(j) \in SUBSET Ranks
        BY <1>1 DEF FailuresWith, TypeOK
      <3>5. voted'[g].step = step[j]
        <4>1. voted'[g] = [step |-> step[j], commit |-> g \notin FailuresWith(j)]
          BY <3>1
        <4> QED
          BY <4>1
      <3> QED
        BY <3>1, <3>3, <3>4, <3>5 DEF Decision
    <2> QED
      BY <2>1, <2>2
  <1> QED
    BY <1>3, <1>4, <1>5, <1>6, <1>7, <1>8 DEF Next, Lighthouse, Trainer

LEMMA DecisionsStep ==
  ASSUME TypeInv, StepInv, Next
  PROVE  CommitsTogether /\ DiscardsForCause
  <1>1. ASSUME NEW g \in Ranks, ToldTo(g, TRUE)
        PROVE  \A k \in Ranks : voted'[k] = [step |-> voted'[g].step, commit |-> TRUE]
    BY <1>1, DecisionFits
  <1>2. ASSUME NEW g \in Ranks, ToldTo(g, FALSE)
        PROVE  \E k \in Ranks : voted'[k] = [step |-> voted'[g].step, commit |-> FALSE]
    <2>1. PICK f \in SUBSET Ranks :
            /\ FALSE = (f = {})
            /\ \A k \in Ranks :
                 voted'[k] = [step |-> voted'[g].step, commit |-> k \notin f]
      BY <1>2, DecisionFits
    <2>2. PICK k \in f : TRUE
      BY <2>1
    <2> QED
      BY <2>1, <2>2
  <1> QED
    BY <1>1, <1>2 DEF CommitsTogether, DiscardsForCause

\* Unless a rank fails to receive its checkpoint, the ranks of the group that are
\* on the same side of a round (inside the step or with its quorum to read, between
\* steps or with the decision to read) are at the same step, whatever votes time
\* out and are cast again.
THEOREM RanksStayInStep == ASSUME ~HealFailures PROVE Spec => []RanksInStep
  <1>1. TypeInv /\ StepInv /\ [Next]_vars => StepInv'
    BY StepInvStep
  <1>2. StepInv => RanksInStep
    BY DEF StepInv
  <1> QED
    BY <1>1, <1>2, StepInvInit, TypeInvariant, PTL DEF Spec

\* And the ranks that are told to commit are told so together, when all of
\* them voted to commit that very step; a step is discarded only if one of
\* them voted against that very step.
THEOREM DecisionsByVotes ==
  ASSUME ~HealFailures
  PROVE  Spec => [][CommitsTogether /\ DiscardsForCause]_vars
  <1>1. TypeInv /\ StepInv /\ [Next]_vars => StepInv'
    BY StepInvStep
  <1>2. TypeInv /\ StepInv /\ [Next]_vars => [CommitsTogether /\ DiscardsForCause]_vars
    BY DecisionsStep
  <1> QED
    BY <1>1, <1>2, StepInvInit, TypeInvariant, PTL DEF Spec

\* The same of the composed specification, in which only "votes" behaves so.
VotesInv == part = "votes" => TypeInv /\ StepInv

LEMMA VotesInvariant == ASSUME ~HealFailures PROVE MSpec => []VotesInv
  <1>1. MInit => VotesInv
    BY TypeInit, StepInvInit DEF MInit, VotesInv
  <1>2. VotesInv /\ [MNext]_<<vars, part>> => VotesInv'
    <2> SUFFICES ASSUME VotesInv, [MNext]_<<vars, part>>, part' = "votes"
                 PROVE  TypeInv' /\ StepInv'
      BY DEF VotesInv
    <2>1. part = "votes" /\ [Next]_vars
      BY DEF MNext
    <2> QED
      BY <2>1, TypeStep, StepInvStep DEF VotesInv
  <1> QED
    BY <1>1, <1>2, PTL DEF MSpec

\* Ranks inside a step, or with its quorum to read, are in one step, and so are
\* those that have decided it, for any ranks, retries and bounds.
THEOREM VotesKeepStep == ASSUME ~HealFailures PROVE MSpec => []RanksKeepStep
  <1>1. VotesInv => RanksKeepStep
    BY DEF VotesInv, StepInv, RanksKeepStep
  <1> QED
    BY <1>1, VotesInvariant, PTL

\* The votes of two steps, or those of a call that timed out, are never mixed
\* into a decision.
THEOREM VotesDecide == ASSUME ~HealFailures PROVE MSpec => DecisionsFitVotes
  <1>1. VotesInv /\ [MNext]_<<vars, part>>
          => [part = "votes" => CommitsTogether /\ DiscardsForCause]_<<vars, part>>
    BY DecisionsStep DEF VotesInv, MNext
  <1> QED
    BY <1>1, VotesInvariant, PTL DEF MSpec, DecisionsFitVotes
=============================================================================
