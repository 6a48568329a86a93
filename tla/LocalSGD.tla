------------------------------ MODULE LocalSGD ------------------------------
(***************************************************************************)
(* torchft/local_sgd.py: replicas that train alone for a number of inner   *)
(* steps and then average their parameters (LocalSGD) or the difference to *)
(* the last global parameters, one fragment of the model at a time         *)
(* (DiLoCo, streaming when delay > 0: the average of a fragment is sent    *)
(* off and only awaited `delay' inner steps later).                        *)
(*                                                                         *)
(* The manager is the one of TrainingProtocol with use_async_quorum=False, *)
(* which DiLoCo insists on: start_quorum returns with the process group    *)
(* configured and the replica healed, or with an error on record.          *)
(* Parameters are the history that made them: the replica that drew the    *)
(* initial ones, then the rounds averaged in.                              *)
(***************************************************************************)
EXTENDS Integers, Sequences, FiniteSets, QuorumResults

CONSTANTS
  NumReplicas,
  MinReplicas,
  NumFragments,  \* model fragments of DiLoCo
  Every,         \* sync_every divided by the fragments: inner steps of a round
  Algorithms,    \* [name, delay]: what the replicas run
  MaxFaults,     \* bound on crashes, lost messages and failed collectives
  StepBound,     \* bound on committed steps
  None

ASSUME ReplicasAssumption == NumReplicas \in Nat \ {0} /\ MinReplicas \in Nat \ {0}
ASSUME ScheduleAssumption ==
  /\ NumFragments \in Nat \ {0}
  /\ Every \in Nat \ {0}
  /\ \A a \in Algorithms : a.delay \in 0..(Every - 1)
  /\ \A a \in Algorithms : a.name = "LocalSGD" => a.delay = 0

Replicas == 0..(NumReplicas - 1)

\* What a replica's process group is in a round.
Groups == [round : Nat, members : SUBSET Replicas]

ASSUME NoneAssumption == None \notin Groups

VARIABLES
  algorithm,
  pc,         \* where each replica is in _step_post_hook
  localStep,  \* _local_step
  step,       \* Manager._step
  original,   \* fragment -> original_parameters; of LocalSGD, the last average
  params,     \* fragment -> [base, trained]: parameters, and inner steps on them?
  errored,    \* Manager._errored
  answer,     \* the manager server's answer to the last quorum
  group,      \* the members of the replica's process group in this round
  offer,      \* what the checkpoint transport serves
  sent,       \* the fragment whose average was asked for in this round
  work,       \* "none", or the state of that allreduce
  round,      \* quorums formed
  faults

replicaVars == <<localStep, step, original, params, errored, answer, group, offer, sent, work>>
vars == <<algorithm, pc, replicaVars, round, faults>>

\* LocalSGD averages the whole model.
Fragments == IF algorithm.name = "DiLoCo" THEN 0..(NumFragments - 1) ELSE {0}

Fault == faults < MaxFaults /\ faults' = faults + 1

Fresh(i) == [f \in Fragments |-> <<i>>]
Untrained(histories) == [f \in Fragments |-> [base |-> histories[f], trained |-> FALSE]]

Init ==
  /\ algorithm \in Algorithms
  /\ pc = [i \in Replicas |-> "inner"]
  /\ localStep = [i \in Replicas |-> 0]
  /\ step = [i \in Replicas |-> 0]
  /\ original = [i \in Replicas |-> Fresh(i)]
  /\ params = [i \in Replicas |-> Untrained(Fresh(i))]
  /\ errored = [i \in Replicas |-> FALSE]
  /\ answer = [i \in Replicas |-> None]
  /\ group = [i \in Replicas |-> None]
  /\ offer = [i \in Replicas |-> None]
  /\ sent = [i \in Replicas |-> None]
  /\ work = [i \in Replicas |-> "none"]
  /\ round = 0
  /\ faults = 0

-----------------------------------------------------------------------------
(* The inner optimizer, with its hooks *)

\* _step_post_hook counts; at the end of a round, or `delay' steps before it,
\* the replica asks for a quorum.
InnerStep(i) ==
  /\ pc[i] = "inner"
  /\ step[i] < StepBound
  /\ localStep' = [localStep EXCEPT ![i] = @ + 1]
  /\ params' = [params EXCEPT ![i] = [f \in Fragments |-> [@[f] EXCEPT !.trained = TRUE]]]
  /\ pc' = [pc EXCEPT ![i] =
              IF localStep[i] + 1 = Every - algorithm.delay THEN "waiting"
              ELSE IF localStep[i] + 1 = Every THEN "perform" ELSE "inner"]
  /\ UNCHANGED <<algorithm, step, original, errored, answer, group, offer, sent, work, round, faults>>

-----------------------------------------------------------------------------
(* start_quorum with a synchronous quorum *)

\* A majority of the replicas.  join_timeout runs out only on replicas that
\* have no step to lose: none committed and none under way (TrainingProtocol
\* shows what happens otherwise).
MayForm(S) ==
  /\ S # {}
  /\ \A i \in S : pc[i] = "waiting"
  /\ Cardinality(S) >= MinReplicas
  /\ 2 * Cardinality(S) > NumReplicas
  /\ \A i \in Replicas \ S : step[i] = 0 /\ group[i] = None

FormQuorum(S) ==
  /\ MayForm(S)
  /\ round' = round + 1
  /\ answer' = [i \in Replicas |->
                  IF i \in S THEN Reply([j \in S |-> step[j]], i, 0, TRUE) ELSE answer[i]]
  /\ group' = [i \in Replicas |->
                 IF i \in S THEN [round |-> round', members |-> S] ELSE group[i]]
  /\ errored' = [i \in Replicas |-> IF i \in S THEN FALSE ELSE errored[i]]
  /\ pc' = [i \in Replicas |-> IF i \in S THEN "quorum" ELSE pc[i]]
  /\ UNCHANGED <<algorithm, localStep, step, original, params, offer, sent, work, faults>>

\* mutant: only the model is sent, not what the fragments registered
OfferModelOnly(i) ==
  [step |-> answer[i].max_step, original |-> Fresh(i), params |-> params[i]]

\* What _manager_state_dict collects: the user's model, and for every fragment
\* its original parameters and outer optimizer (save_fn).
Offer(i) ==
  [step |-> answer[i].max_step, original |-> original[i], params |-> params[i]]

\* The process group is configured and the checkpoint offered to those behind.
\* If configure fails the error is reported and nothing is offered or healed.
Configure(i) ==
  /\ pc[i] = "quorum"
  /\ \/ /\ offer' = IF answer[i].recover_dst = {} THEN offer
                    ELSE [offer EXCEPT ![i] = Offer(i)]
        /\ pc' = [pc EXCEPT ![i] = IF answer[i].heal THEN "heal" ELSE "prepare"]
        /\ UNCHANGED <<errored, faults>>
     \/ /\ Fault
        /\ errored' = [errored EXCEPT ![i] = TRUE]
        /\ pc' = [pc EXCEPT ![i] = "prepare"]
        /\ UNCHANGED offer
  /\ UNCHANGED <<algorithm, localStep, step, original, params, answer, group, sent, work, round>>

Source(i) == answer[i].recover_src
Served(i) == offer[Source(i)] # None /\ offer[Source(i)].step = answer[i].max_step

\* mutant: a fragment's load_fn keeps the original parameters it has
HealModelOnly(i) ==
  /\ pc[i] = "heal"
  /\ Served(i)
  /\ step' = [step EXCEPT ![i] = answer[i].max_step]
  /\ params' = [params EXCEPT ![i] = offer[Source(i)].params]
  /\ pc' = [pc EXCEPT ![i] = "prepare"]
  /\ UNCHANGED <<algorithm, localStep, original, errored, answer, group, offer, sent, work, round, faults>>

\* recv_checkpoint, and the load functions of the model and of every fragment.
Heal(i) ==
  /\ pc[i] = "heal"
  /\ Served(i)
  /\ step' = [step EXCEPT ![i] = answer[i].max_step]
  /\ original' = [original EXCEPT ![i] = offer[Source(i)].original]
  /\ params' = [params EXCEPT ![i] = offer[Source(i)].params]
  /\ pc' = [pc EXCEPT ![i] = "prepare"]
  /\ UNCHANGED <<algorithm, localStep, errored, answer, group, offer, sent, work, round, faults>>

\* mutant: the checkpoint is awaited for as long as it takes
HealWaits(i) ==
  /\ pc[i] = "heal"
  /\ Fault
  /\ errored' = [errored EXCEPT ![i] = TRUE]
  /\ pc' = [pc EXCEPT ![i] = "prepare"]
  /\ UNCHANGED <<algorithm, localStep, step, original, params, answer, group, offer, sent, work, round>>

\* The source crashed, failed to configure or has ended its round, or (a
\* fault) the transfer fails.
HealFails(i) ==
  LET s == Source(i)
  IN  /\ pc[i] = "heal"
      /\ \/ Fault
         \/ ~Served(i) /\ (group[s] # group[i] \/ pc[s] # "quorum") /\ UNCHANGED faults
      /\ errored' = [errored EXCEPT ![i] = TRUE]
      /\ pc' = [pc EXCEPT ![i] = "prepare"]
      /\ UNCHANGED <<algorithm, localStep, step, original, params, answer, group, offer, sent, work, round>>

-----------------------------------------------------------------------------
(* The average of a fragment *)

CurrentFragment(i) == step[i] % Cardinality(Fragments)

\* prepare_sync, or LocalSGD's _average: ask for the average, unless the
\* manager has an error on record (allreduce then returns a finished work).
\* Without a delay perform_sync follows at once.
Prepare(i) ==
  /\ pc[i] = "prepare"
  /\ sent' = [sent EXCEPT ![i] = CurrentFragment(i)]
  /\ work' = [work EXCEPT ![i] = IF errored[i] THEN "skipped" ELSE "posted"]
  /\ pc' = [pc EXCEPT ![i] = IF localStep[i] = Every THEN "perform" ELSE "inner"]
  /\ UNCHANGED <<algorithm, localStep, step, original, params, errored, answer, group, offer, round, faults>>

Posted(i, g) == group[i] = g /\ work[i] = "posted"

\* All members have sent; a fault lets some of them see an error.
AverageEnds(g) ==
  /\ g # None
  /\ \A i \in g.members : Posted(i, g)
  /\ \E Ok \in SUBSET g.members :
       /\ IF Ok = g.members THEN UNCHANGED faults ELSE Fault
       /\ work' = [i \in Replicas |-> IF i \in Ok THEN "done"
                                      ELSE IF i \in g.members THEN "failed" ELSE work[i]]
       /\ errored' = [i \in Replicas |-> errored[i] \/ i \in g.members \ Ok]
  /\ UNCHANGED <<algorithm, pc, localStep, step, original, params, answer, group, offer, sent, round>>

\* A member will never send: it crashed, skipped the average or gave up.
AverageTimesOut(i) ==
  /\ work[i] = "posted"
  /\ \E m \in group[i].members : group[m] # group[i] \/ work[m] \in {"skipped", "failed"}
  /\ work' = [work EXCEPT ![i] = "failed"]
  /\ errored' = [errored EXCEPT ![i] = TRUE]
  /\ UNCHANGED <<algorithm, pc, localStep, step, original, params, answer, group, offer, sent, round, faults>>

Commits(i) == ~errored[i] /\ Cardinality(group[i].members) >= MinReplicas

\* Fragment f of replica i after the round: the outer optimizer's step from the
\* restored parameters, or the average itself for LocalSGD.
Averaged(i, f) == Append(IF algorithm.name = "DiLoCo" THEN original[i][f] ELSE params[i][f].base,
                         group[i].round)

\* mutant: the parameters are saved whether or not the round commits
PerformSaves(i) ==
  /\ pc[i] = "perform"
  /\ work[i] \in {"done", "failed", "skipped"}
  /\ LET f == sent[i]
     IN  /\ original' = [original EXCEPT ![i][f] = Averaged(i, f)]
         /\ params' = [params EXCEPT ![i][f] = [base |-> Averaged(i, f), trained |-> FALSE]]
         /\ step' = IF Commits(i) THEN [step EXCEPT ![i] = @ + 1] ELSE step
  /\ localStep' = [localStep EXCEPT ![i] = 0]
  /\ offer' = [offer EXCEPT ![i] = None]
  /\ group' = [group EXCEPT ![i] = None]
  /\ answer' = [answer EXCEPT ![i] = None]
  /\ sent' = [sent EXCEPT ![i] = None]
  /\ work' = [work EXCEPT ![i] = "none"]
  /\ pc' = [pc EXCEPT ![i] = "inner"]
  /\ UNCHANGED <<algorithm, errored, round, faults>>

\* mutant: the wait for the average is forgotten
PerformEarly(i) ==
  /\ pc[i] = "perform"
  /\ LET f == sent[i]
     IN  IF Commits(i)
         THEN /\ step' = [step EXCEPT ![i] = @ + 1]
              /\ original' = [original EXCEPT ![i][f] = Averaged(i, f)]
              /\ params' = [params EXCEPT ![i][f] = [base |-> Averaged(i, f), trained |-> FALSE]]
         ELSE /\ params' = IF algorithm.name = "DiLoCo"
                           THEN [params EXCEPT ![i][f] = [base |-> original[i][f], trained |-> FALSE]]
                           ELSE params
              /\ UNCHANGED <<step, original>>
  /\ localStep' = [localStep EXCEPT ![i] = 0]
  /\ offer' = [offer EXCEPT ![i] = None]
  /\ group' = [group EXCEPT ![i] = None]
  /\ answer' = [answer EXCEPT ![i] = None]
  /\ sent' = [sent EXCEPT ![i] = None]
  /\ work' = [work EXCEPT ![i] = "none"]
  /\ pc' = [pc EXCEPT ![i] = "inner"]
  /\ UNCHANGED <<algorithm, errored, round, faults>>

\* perform_sync, or the end of LocalSGD's sync.  DiLoCo restores the fragment
\* and then, if the step commits, takes the outer step and saves the result;
\* a LocalSGD replica that does not commit trains on from where it is.
Perform(i) ==
  /\ pc[i] = "perform"
  /\ work[i] \in {"done", "failed", "skipped"}
  /\ LET f == sent[i]
     IN  IF Commits(i)
         THEN /\ step' = [step EXCEPT ![i] = @ + 1]
              /\ original' = [original EXCEPT ![i][f] = Averaged(i, f)]
              /\ params' = [params EXCEPT ![i][f] = [base |-> Averaged(i, f), trained |-> FALSE]]
         ELSE /\ params' = IF algorithm.name = "DiLoCo"
                           THEN [params EXCEPT ![i][f] = [base |-> original[i][f], trained |-> FALSE]]
                           ELSE params
              /\ UNCHANGED <<step, original>>
  /\ localStep' = [localStep EXCEPT ![i] = 0]
  /\ offer' = [offer EXCEPT ![i] = None]
  /\ group' = [group EXCEPT ![i] = None]
  /\ answer' = [answer EXCEPT ![i] = None]
  /\ sent' = [sent EXCEPT ![i] = None]
  /\ work' = [work EXCEPT ![i] = "none"]
  /\ pc' = [pc EXCEPT ![i] = "inner"]
  /\ UNCHANGED <<algorithm, errored, round, faults>>

-----------------------------------------------------------------------------

\* The process dies and is started again with new parameters.
Crash(i) ==
  /\ Fault
  /\ pc' = [pc EXCEPT ![i] = "inner"]
  /\ localStep' = [localStep EXCEPT ![i] = 0]
  /\ step' = [step EXCEPT ![i] = 0]
  /\ original' = [original EXCEPT ![i] = Fresh(i)]
  /\ params' = [params EXCEPT ![i] = Untrained(Fresh(i))]
  /\ errored' = [errored EXCEPT ![i] = FALSE]
  /\ answer' = [answer EXCEPT ![i] = None]
  /\ group' = [group EXCEPT ![i] = None]
  /\ offer' = [offer EXCEPT ![i] = None]
  /\ sent' = [sent EXCEPT ![i] = None]
  /\ work' = [work EXCEPT ![i] = "none"]
  /\ UNCHANGED <<algorithm, round>>

Replica(i) ==
  \/ InnerStep(i)
  \/ Configure(i)
  \/ Heal(i)
  \/ HealFails(i)
  \/ Prepare(i)
  \/ AverageTimesOut(i)
  \/ Perform(i)

Next ==
  \/ \E S \in SUBSET Replicas : FormQuorum(S)
  \/ \E g \in {group[i] : i \in Replicas} : AverageEnds(g)
  \/ \E i \in Replicas : Replica(i) \/ Crash(i)

Spec == Init /\ [][Next]_vars

\* Every replica runs; a transfer and a collective end or time out.
Fairness ==
  /\ \A i \in Replicas : WF_vars(Replica(i)) /\ WF_vars(AverageTimesOut(i))
  /\ WF_vars(\E g \in {group[i] : i \in Replicas} : AverageEnds(g))

FairSpec == Spec /\ Fairness

-----------------------------------------------------------------------------
(* Properties *)

\* Replicas at one step hold the same global parameters in every fragment.
SameStepSameGlobals ==
  \A i, j \in Replicas : step[i] = step[j] /\ step[i] > 0 => original[i] = original[j]

\* "We need to make sure all nodes send the same fragments in order"
\* (local_sgd.py:749), and each sends its difference to the same parameters.
SameFragmentSameBase ==
  \A i, j \in Replicas :
    group[i] = group[j] /\ work[i] = "posted" /\ work[j] = "posted" =>
      /\ sent[i] = sent[j]
      /\ original[i][sent[i]] = original[j][sent[j]]

\* The replicas that meet in a round are of one mind: see the parts.
ReplicasAgree == SameStepSameGlobals /\ SameFragmentSameBase

\* The pseudogradient is the difference of the parameters to what they started
\* from, so the two are versions of the same fragment, also after a heal, a
\* crash or a discarded round.
ParamsFollowOriginal ==
  \A i \in Replicas, f \in Fragments : params[i][f].base = original[i][f]

\* Every step committed one fragment, in turn: none is skipped or repeated,
\* whoever was there when it happened.
EveryFragmentInTurn ==
  \A i \in Replicas, f \in Fragments :
    Len(original[i][f]) =
      1 + Cardinality({s \in 0..(step[i] - 1) : s % Cardinality(Fragments) = f})

\* A step counts only an average that has arrived, also when it was asked for
\* `delay' inner steps before.  A comment in perform_sync (local_sgd.py:453)
\* fears otherwise: should_commit "can return success even if the allreduce
\* failed", because the group "could have been reconfigured while the allreduce
\* was inflight", which clears the error.  The schedule rules that out, and this
\* says so: only start_quorum configures the group, once in a round and before
\* the average is asked for, and perform_sync waits for the average before the
\* next.  A failure that the process group does not tell is not modelled.
CommitsArrivedAverage ==
  [][\A i \in Replicas :
       /\ pc[i] = "perform" /\ step'[i] > step[i] => work[i] = "done"
       /\ group'[i] # group[i] /\ group'[i] # None => work[i] = "none"]_vars

\* A round that a replica has a quorum for ends; nobody waits for the others
\* forever ("avoid deadlocking", local_sgd.py:750).
RoundsEnd == \A i \in Replicas : group[i] # None ~> group[i] = None
=============================================================================
