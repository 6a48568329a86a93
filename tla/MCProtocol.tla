----------------------------- MODULE MCProtocol -----------------------------
(***************************************************************************)
(* TrainingProtocol in two settings, and the computations of MCAlgorithms. *)
(*                                                                         *)
(* The constants of this module are those of the setting "faults": crashes *)
(* and partial failures, but no straggler is left out of a quorum.  In the *)
(* setting "spares" the world size is fixed, live replicas may be left     *)
(* out and the lighthouse may restart, and collectives fail for all        *)
(* members alike.                                                          *)
(***************************************************************************)
EXTENDS TrainingProtocol

CONSTANTS MaxReplicas, MaxSteps, MaxGroupRank, MaxRows, MaxWorld, Columns, MaxSize

ASSUME InputsAssumption ==
  /\ MaxReplicas \in Nat \ {0}
  /\ MaxSteps \in Nat
  /\ MaxGroupRank \in Nat
  /\ MaxWorld \in Nat
  /\ MaxSize \in Nat

VARIABLES setting, steps, groupRank, initSync, input

Spares == INSTANCE TrainingProtocol WITH
    Lives <- 1, InitSync <- FALSE, FixedWithSpares <- TRUE, Stragglers <- TRUE,
    PartialFailures <- FALSE, LighthouseFaults <- TRUE, MaxFaults <- 1

Algorithms == INSTANCE MCAlgorithms

protocolVars == <<lighthouse, pc, quorum, step, weights, quorumId, failures, errored,
                  healing, pending, serving, pg, reduced, faults>>
inputVars == <<steps, groupRank, initSync, input>>

NoInput == steps = [r \in {0} |-> 0] /\ groupRank = 0 /\ initSync = FALSE /\ input = None

PInit ==
  \/ setting = "faults" /\ Init /\ NoInput
  \/ setting = "spares" /\ Spares!Init /\ NoInput
  \/ setting = "algorithms" /\ Init /\ Algorithms!AlgorithmsInit

PNext ==
  \/ setting = "faults" /\ Next /\ UNCHANGED <<setting, inputVars>>
  \/ setting = "spares" /\ Spares!Next /\ UNCHANGED <<setting, inputVars>>
  \/ setting = "algorithms" /\ Algorithms!AlgorithmsNext /\ UNCHANGED <<setting, protocolVars>>

PSpec == PInit /\ [][PNext]_<<setting, protocolVars, inputVars>>

-----------------------------------------------------------------------------
\* Replicas at one step have the same weights, in either setting
\* (TrainingProtocol's SameStepSameWeights).
WeightsAgree ==
  CASE setting = "faults" -> SameStepSameWeights
    [] setting = "spares" -> Spares!SameStepSameWeights
    [] OTHER -> TRUE

\* A replica reduces in the group of its quorum, as long as the lighthouse does
\* not restart.
GroupsAreQuorums == setting = "faults" => GroupIsQuorum

\* A gradient is divided by the number of replicas that contributed to it, as
\* long as there is no init_sync.
ParticipantsAreAveraged == setting = "spares" => Spares!AveragesParticipants

\* The properties of the computed quorum results, layouts and shards.
RecoveryFits   == setting = "algorithms" => Algorithms!RecoveryFits
CollectivesSum == Algorithms!CollectivesSum
ShardsCover    == Algorithms!ShardsCover
=============================================================================
