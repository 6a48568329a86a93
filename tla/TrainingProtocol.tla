-------------------------- MODULE TrainingProtocol --------------------------
(***************************************************************************)
(* The training loop of torchft/manager.py, run by several replica groups  *)
(* of one rank each against one lighthouse: ask for a quorum, reconfigure  *)
(* the process group, heal from an up-to-date replica, allreduce, commit.  *)
(*                                                                         *)
(* The lighthouse is reduced to what Lighthouse.tla shows it does: it      *)
(* forms a quorum of the registered and healthy replicas and numbers it.   *)
(* A collective is one step of all the members of a process group, which   *)
(* may end differently for each of them.  Everything else is a step of one *)
(* replica.  Faults of every kind share one budget, MaxFaults.             *)
(*                                                                         *)
(* A replica id is slot * Lives + incarnation: a restarted replica group   *)
(* keeps its place in the order and has a new id (manager.py:316).         *)
(* Weights are the history that produced them: the slot that initialised   *)
(* them (all start alike without init_sync), then for each committed step  *)
(* who contributed to the average and the number it was divided by.        *)
(***************************************************************************)
EXTENDS Integers, Sequences, FiniteSets, QuorumResults

CONSTANTS
  Slots,             \* number of replica groups
  Lives,             \* incarnations of each: at most Lives - 1 crashes
  MinReplicas,       \* min_replicas of the lighthouse, min_replica_size of managers
  InitSync,          \* init_sync
  FixedWithSpares,   \* WorldSizeMode.FIXED_WITH_SPARES
  Stragglers,        \* may join_timeout run out on a live replica?
  PartialFailures,   \* may a collective fail at some members and not at others?
  LighthouseFaults,  \* may the lighthouse restart?
  MaxFaults,         \* bound on faults
  StepBound,         \* bound on steps
  None

ASSUME SlotsAssumption == Slots \in Nat \ {0} /\ Lives \in Nat \ {0}
ASSUME ProtocolAssumption ==
  /\ MinReplicas \in Nat \ {0}
  /\ InitSync \in BOOLEAN
  /\ FixedWithSpares \in BOOLEAN
  /\ Stragglers \in BOOLEAN
  /\ PartialFailures \in BOOLEAN
  /\ LighthouseFaults \in BOOLEAN
  /\ MaxFaults \in Nat
  /\ StepBound \in Nat

Ids == 0..(Slots * Lives - 1)
SlotOf(i) == i \div Lives

\* A history of the parameters, and a process group.
Weights == Seq(Nat \cup (({None} \cup SUBSET Ids) \X Nat))
Groups == [prefix : Nat \X Nat, members : SUBSET Ids]

ASSUME NoneAssumption ==
  /\ None \notin Weights /\ None \notin Groups
  /\ None \notin [step : Nat, weights : Weights]
  /\ \A members \in SUBSET Ids : None # members

VARIABLES
  lighthouse,  \* quorum_id, prev_quorum's members, and the registered requests
  pc,          \* where each replica is in its loop
  step,        \* Manager._step
  weights,     \* the model parameters
  quorumId,    \* Manager._quorum_id
  failures,    \* Manager._commit_failures > 0
  errored,     \* Manager._errored
  healing,     \* Manager._healing
  pending,     \* Manager._pending_state_dict, the user's part
  serving,     \* what the checkpoint transport offers, None when disallowed
  quorum,      \* the last answer of the manager server
  pg,          \* the process group: store prefix and members
  reduced,     \* what the step's allreduce returned
  faults       \* faults so far

local == <<step, weights, quorumId, failures, errored, healing, pending, serving, pg, reduced>>
vars  == <<lighthouse, pc, quorum, local, faults>>

Alive == {i \in Ids : pc[i] \notin {"unborn", "dead"}}

Fault == faults < MaxFaults /\ faults' = faults + 1

Init ==
  /\ lighthouse = [id |-> 0, prev |-> None, requests |-> [i \in Ids |-> None]]
  /\ pc = [i \in Ids |-> IF i % Lives = 0 THEN "start" ELSE "unborn"]
  /\ step = [i \in Ids |-> 0]
  /\ weights = [i \in Ids |-> IF InitSync THEN <<SlotOf(i)>> ELSE <<>>]
  /\ quorumId = [i \in Ids |-> -1]
  /\ failures = [i \in Ids |-> FALSE]
  /\ errored = [i \in Ids |-> FALSE]
  /\ healing = [i \in Ids |-> FALSE]
  /\ pending = [i \in Ids |-> None]
  /\ serving = [i \in Ids |-> None]
  /\ quorum = [i \in Ids |-> None]
  /\ pg = [i \in Ids |-> None]
  /\ reduced = [i \in Ids |-> None]
  /\ faults = 0

-----------------------------------------------------------------------------
(* The lighthouse *)

Registered == {i \in Ids : lighthouse.requests[i] # None}

\* The members of a quorum: everybody registered and alive, perhaps some that
\* died a moment ago.  Live replicas heartbeat whether or not they ask; those
\* that have not asked are waited for, until join_timeout, unless the previous
\* members are all here.
MayForm(S) ==
  /\ S # {}
  /\ S \subseteq Registered
  /\ Registered \cap Alive \subseteq S
  /\ \/ lighthouse.prev # None /\ lighthouse.prev \subseteq S
     \/ /\ Cardinality(S) >= MinReplicas
        /\ 2 * Cardinality(S) > Cardinality(S \cup Alive)
        /\ Stragglers \/ Alive \subseteq S

\* mutant: a commit failure leaves the id as it is
QuorumIdIgnoringFailures(S) ==
  IF lighthouse.prev = None \/ lighthouse.prev # S
  THEN lighthouse.id + 1 ELSE lighthouse.id

QuorumIdFor(S) ==
  IF lighthouse.prev = None \/ lighthouse.prev # S
       \/ \E i \in S : lighthouse.requests[i].failed
  THEN lighthouse.id + 1 ELSE lighthouse.id

\* What the manager server makes of the quorum for replica i.
Answer(S, i) ==
  LET reply == Reply([j \in S |-> lighthouse.requests[j].step], i, 0, InitSync)
  IN  [field \in {"id", "members"} \cup DOMAIN reply |->
         CASE field = "id"      -> QuorumIdFor(S)
           [] field = "members" -> S
           [] OTHER             -> reply[field]]

FormQuorum(S) ==
  /\ MayForm(S)
  /\ lighthouse' = [id |-> QuorumIdFor(S), prev |-> S, requests |-> [i \in Ids |-> None]]
  /\ quorum' = [i \in Ids |->
                  IF i \in S \cap Alive
                  THEN Answer(S, i)
                  ELSE quorum[i]]
  /\ pc' = [i \in Ids |-> IF i \in S \cap Alive THEN "quorum" ELSE pc[i]]
  /\ UNCHANGED <<local, faults>>

\* Nothing is persisted; the managers' retries (manager.rs:250) register again.
RestartLighthouse ==
  /\ LighthouseFaults
  /\ Fault
  /\ lighthouse' = [id |-> 0, prev |-> None, requests |-> [i \in Ids |-> None]]
  /\ UNCHANGED <<pc, quorum, local>>

-----------------------------------------------------------------------------
(* One replica: start_quorum and _async_quorum *)

Request(i) ==
  [lighthouse EXCEPT !.requests[i] = [step |-> step[i], failed |-> failures[i]]]

StartQuorum(i) ==
  /\ pc[i] = "start"
  /\ step[i] < StepBound
  /\ lighthouse' = Request(i)
  /\ pc' = [pc EXCEPT ![i] = "waiting"]
  /\ errored' = [errored EXCEPT ![i] = FALSE]
  /\ healing' = [healing EXCEPT ![i] = FALSE]
  /\ UNCHANGED <<step, weights, quorumId, failures, pending, serving, quorum, pg, reduced, faults>>

RetryQuorum(i) ==
  /\ pc[i] = "waiting"
  /\ lighthouse.requests[i] = None
  /\ lighthouse' = Request(i)
  /\ UNCHANGED <<pc, quorum, local, faults>>

\* The quorum formed but its answer was lost: the manager asks again.
MissQuorum(i) ==
  /\ pc[i] = "quorum"
  /\ Fault
  /\ lighthouse' = Request(i)
  /\ pc' = [pc EXCEPT ![i] = "waiting"]
  /\ UNCHANGED <<quorum, local>>

\* _participating_replica_world_size and whether _participating_replica_rank
\* is not None, with use_async_quorum.
NumParticipants(i) ==
  IF FixedWithSpares /\ quorum[i].max_world_size > MinReplicas
  THEN MinReplicas ELSE quorum[i].max_world_size

\* mutant: spares take part as well
HasAnyRank(i) == quorum[i].max_rank # NoRank

HasRank(i) ==
  /\ quorum[i].max_rank # NoRank
  /\ FixedWithSpares => quorum[i].max_rank < MinReplicas

Group(i) ==
  [prefix |-> <<quorum[i].store, quorum[i].id>>, members |-> quorum[i].members]

\* A new quorum id reconfigures the process group.  _quorum_id is set first;
\* if configure fails, the error is reported and there is no recovery.
Configure(i) ==
  /\ pc[i] = "quorum"
  /\ \/ /\ quorum[i].id = quorumId[i]
        /\ pc' = [pc EXCEPT ![i] = "recover"]
        /\ UNCHANGED <<quorumId, pg, errored, faults>>
     \/ /\ quorum[i].id # quorumId[i]
        /\ quorumId' = [quorumId EXCEPT ![i] = quorum[i].id]
        /\ pg' = [pg EXCEPT ![i] = Group(i)]
        /\ pc' = [pc EXCEPT ![i] = "recover"]
        /\ UNCHANGED <<errored, faults>>
     \/ /\ quorum[i].id # quorumId[i]
        /\ Fault
        /\ quorumId' = [quorumId EXCEPT ![i] = quorum[i].id]
        /\ pg' = [pg EXCEPT ![i] = None]
        /\ errored' = [errored EXCEPT ![i] = TRUE]
        /\ pc' = [pc EXCEPT ![i] = "ready"]
  /\ UNCHANGED <<lighthouse, step, weights, failures, healing, pending, serving, quorum, reduced>>

\* send_checkpoint to those that recover from us, then recovery of our own.
Recover(i) ==
  /\ pc[i] = "recover"
  /\ serving' = IF quorum[i].recover_dst = {} THEN serving
                ELSE [serving EXCEPT ![i] = [step |-> quorum[i].max_step, weights |-> weights[i]]]
  /\ healing' = [healing EXCEPT ![i] = quorum[i].heal]
  /\ pc' = [pc EXCEPT ![i] = IF quorum[i].heal THEN "heal" ELSE "ready"]
  /\ UNCHANGED <<lighthouse, step, weights, quorumId, failures, errored, pending, quorum, pg, reduced, faults>>

\* The transport serves one step at a time (checkpointing/http_transport.py).
Served(i) ==
  LET offer == serving[quorum[i].recover_src]
  IN  offer # None /\ offer.step = quorum[i].max_step

\* recv_checkpoint: the weights wait for should_commit, the step is set now.
ReceiveCheckpoint(i) ==
  /\ pc[i] = "heal"
  /\ Served(i)
  /\ pending' = [pending EXCEPT ![i] = serving[quorum[i].recover_src].weights]
  /\ step' = [step EXCEPT ![i] = quorum[i].max_step]
  /\ pc' = [pc EXCEPT ![i] = "ready"]
  /\ UNCHANGED <<lighthouse, weights, quorumId, failures, errored, healing, serving, quorum, pg, reduced, faults>>

\* The source has died or is past serving, or (a fault) the transfer fails.
HealFails(i) ==
  LET src == quorum[i].recover_src
  IN  /\ pc[i] = "heal"
      /\ \/ Fault
         \/ /\ src \notin Alive \/ (~Served(i) /\ pc[src] \notin {"quorum", "recover"})
            /\ UNCHANGED faults
      /\ errored' = [errored EXCEPT ![i] = TRUE]
      /\ pc' = [pc EXCEPT ![i] = "ready"]
      /\ UNCHANGED <<lighthouse, step, weights, quorumId, failures, healing, pending, serving, quorum, pg, reduced>>

-----------------------------------------------------------------------------
(* One replica: allreduce and should_commit *)

\* After an error every allreduce is a no-op; otherwise it joins the collective.
Allreduce(i) ==
  /\ pc[i] = "ready"
  /\ pc' = [pc EXCEPT ![i] = IF errored[i] THEN "reduced" ELSE "posted"]
  /\ UNCHANGED <<lighthouse, quorum, local, faults>>

Participating(i) == HasRank(i) /\ ~healing[i]

\* All members of a group have joined: each contributes its gradient or zeros,
\* and some of them may see an error instead of the sum.
CollectiveEnds(G) ==
  /\ G # None
  /\ \A m \in G.members : pc[m] = "posted" /\ pg[m] = G
  /\ \E Ok \in IF PartialFailures THEN SUBSET G.members ELSE {{}, G.members} :
       /\ IF Ok = G.members THEN UNCHANGED faults ELSE Fault
       /\ errored' = [i \in Ids |-> IF i \in G.members \ Ok THEN TRUE ELSE errored[i]]
       /\ reduced' = [i \in Ids |-> IF i \in Ok THEN {m \in G.members : Participating(m)}
                                    ELSE reduced[i]]
  /\ pc' = [i \in Ids |-> IF i \in G.members THEN "reduced" ELSE pc[i]]
  /\ UNCHANGED <<lighthouse, step, weights, quorumId, failures, healing, pending, serving, quorum, pg>>

\* The collective of i cannot end: a member died, failed, or is in another
\* group, or there is no group.
CollectiveTimesOut(i) ==
  /\ pc[i] = "posted"
  /\ pg[i] # None =>
       \E m \in pg[i].members :
         \/ m \notin Alive
         \/ pg[m] # pg[i] /\ quorumId[m] >= quorumId[i]
         \/ pc[m] \in {"reduced", "start", "waiting"}
  /\ errored' = [errored EXCEPT ![i] = TRUE]
  /\ pc' = [pc EXCEPT ![i] = "reduced"]
  /\ UNCHANGED <<lighthouse, step, weights, quorumId, failures, healing, pending, serving, quorum, pg, reduced, faults>>

\* The parameters after _apply_pending_state_dict.
Restored(i) == IF healing[i] /\ pending[i] # None THEN pending[i] ELSE weights[i]

\* mutant: the step counts even if it is discarded
ShouldCommitAlways(i) ==
  /\ pc[i] = "reduced"
  /\ IF ~errored[i] /\ NumParticipants(i) >= MinReplicas
     THEN /\ weights' = [weights EXCEPT
               ![i] = Append(Restored(i), <<reduced[i], NumParticipants(i)>>)]
          /\ failures' = [failures EXCEPT ![i] = FALSE]
     ELSE /\ weights' = [weights EXCEPT ![i] = Restored(i)]
          /\ failures' = [failures EXCEPT ![i] = TRUE]
  /\ step' = [step EXCEPT ![i] = @ + 1]
  /\ pending' = [pending EXCEPT ![i] = None]
  /\ serving' = [serving EXCEPT ![i] = None]
  /\ reduced' = [reduced EXCEPT ![i] = None]
  /\ pc' = [pc EXCEPT ![i] = "start"]
  /\ UNCHANGED <<lighthouse, quorumId, errored, healing, quorum, pg, faults>>

\* should_commit and the optimizer step it allows.
ShouldCommit(i) ==
  /\ pc[i] = "reduced"
  /\ IF ~errored[i] /\ NumParticipants(i) >= MinReplicas
     THEN /\ step' = [step EXCEPT ![i] = @ + 1]
          /\ weights' = [weights EXCEPT
               ![i] = Append(Restored(i), <<reduced[i], NumParticipants(i)>>)]
          /\ failures' = [failures EXCEPT ![i] = FALSE]
     ELSE /\ weights' = [weights EXCEPT ![i] = Restored(i)]
          /\ failures' = [failures EXCEPT ![i] = TRUE]
          /\ UNCHANGED step
  /\ pending' = [pending EXCEPT ![i] = None]
  /\ serving' = [serving EXCEPT ![i] = None]
  /\ reduced' = [reduced EXCEPT ![i] = None]
  /\ pc' = [pc EXCEPT ![i] = "start"]
  /\ UNCHANGED <<lighthouse, quorumId, errored, healing, quorum, pg, faults>>

\* The process dies; a new one with the next id takes its place.
Crash(i) ==
  /\ i \in Alive
  /\ i % Lives # Lives - 1
  /\ Fault
  /\ pc' = [pc EXCEPT ![i] = "dead", ![i + 1] = "start"]
  /\ serving' = [serving EXCEPT ![i] = None]
  /\ UNCHANGED <<lighthouse, step, weights, quorumId, failures, errored, healing, pending, quorum, pg, reduced>>

Replica(i) ==
  \/ StartQuorum(i)
  \/ RetryQuorum(i)
  \/ MissQuorum(i)
  \/ Configure(i)
  \/ Recover(i)
  \/ ReceiveCheckpoint(i)
  \/ HealFails(i)
  \/ Allreduce(i)
  \/ CollectiveTimesOut(i)
  \/ ShouldCommit(i)

Next ==
  \/ \E S \in SUBSET Registered : FormQuorum(S)
  \/ RestartLighthouse
  \/ \E G \in {pg[i] : i \in Ids} : CollectiveEnds(G)
  \/ \E i \in Ids : Replica(i) \/ Crash(i)

Spec == Init /\ [][Next]_vars

-----------------------------------------------------------------------------
(* Properties *)

\* "Replicas with the same max_step have the same model parameters"
\* (protocol.rst:8), once they have been synchronised by a first step.  It
\* needs that nobody who holds a step is left out of the quorum that repeats it.
SameStepSameWeights ==
  \A i, j \in Alive : step[i] = step[j] /\ step[i] > 0 => Restored(i) = Restored(j)

\* "ProcessGroup will be in a healthy state after this returns"
\* (manager.py:622): unless it reported an error, a replica about to reduce has
\* a group of exactly the members of its quorum.
GroupIsQuorum ==
  \A i \in Alive :
    pc[i] \in {"ready", "posted"} /\ ~errored[i] =>
      pg[i] # None /\ pg[i].members = quorum[i].members

\* The sum is divided by "the number of replicas participating in the current
\* step" (manager.py:1026).
AveragesParticipants ==
  \A i \in Alive :
    pc[i] = "reduced" /\ ~errored[i] => NumParticipants(i) = Cardinality(reduced[i])
=============================================================================
