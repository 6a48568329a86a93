------------------------------- MODULE MCWorks -------------------------------
(***************************************************************************)
(* The parts a work goes through, each on its own: the timers that guard   *)
(* it (Timeouts), the manager's wrapper around it (ManagedWork), and the   *)
(* process groups it may come from (ProcessGroupBaby, ProcessGroupNCCL,    *)
(* ErrorSwallowing). A behaviour is one of one of the Parts; the others    *)
(* rest in an initial state, in which only ManagedWork and ErrorSwallowing *)
(* could take a step.                                                      *)
(***************************************************************************)
EXTENDS Timeouts

CONSTANTS Parts, NumBuckets, Uses, MaxOps, FreesFirst, SynchronizeGloo, MaxConfigs,
          MaxComms, MaxCalls, MaxConfs

ASSUME WorksAssumption ==
    /\ Parts \subseteq {"timeouts", "managed", "baby", "nccl", "swallow"}
    /\ NumBuckets \in Nat \ {0}
    /\ MaxOps \in Nat /\ MaxComms \in Nat /\ MaxCalls \in Nat
    /\ MaxConfigs \in Nat \ {0} /\ MaxConfs \in Nat \ {0}

VARIABLES
    part,
    use, length, tells, pc, errored, op, tensor, chain, tailFails, result,
    backend, status, bGen, nextOp, reqs, answers, futPipe, worker, opId, work, watched,
    bOp, bOpGen, works, waiting, timedOps, waited, answerOf, lateWait, registered, future,
    futureOf, handler,
    pg, nErrored, nGen, aborted, nOpGen, nOp, trainer, known, nTimer, config, overlap,
    error, confs, call, callConf, answered

Managed == INSTANCE ManagedWork
Baby == INSTANCE ProcessGroupBaby
            WITH MaxGen <- MaxConfigs, gen <- bGen, op <- bOp, opGen <- bOpGen
NCCL == INSTANCE ProcessGroupNCCL
            WITH MaxGen <- MaxComms, errored <- nErrored, gen <- nGen,
                 opGen <- nOpGen, op <- nOp, timer <- nTimer
Swallow == INSTANCE ErrorSwallowing

managedVars == <<use, length, tells, pc, errored, op, tensor, chain, tailFails, result>>
babyVars == <<backend, status, bGen, nextOp, reqs, answers, futPipe, worker, opId, work,
              watched, bOp, bOpGen, works, waiting, timedOps, waited, answerOf, lateWait,
              registered, future, futureOf, handler>>
ncclVars == <<pg, nErrored, nGen, aborted, nOpGen, nOp, trainer, known, nTimer, config,
              overlap>>
swallowVars == <<error, confs, call, callConf, answered>>
worksVars == <<part, vars, managedVars, babyVars, ncclVars, swallowVars>>

WInit ==
    /\ part \in Parts
    /\ Init /\ Managed!Init /\ Baby!Init /\ NCCL!Init /\ Swallow!Init
    /\ part # "managed" => use = "ddp" /\ length = 1 /\ ~tells
    /\ part # "baby" => backend = "gloo"

WNext ==
    \/ /\ part = "timeouts" /\ Next
       /\ UNCHANGED <<part, managedVars, babyVars, ncclVars, swallowVars>>
    \/ /\ part = "managed" /\ Managed!Next
       /\ UNCHANGED <<part, vars, babyVars, ncclVars, swallowVars>>
    \/ /\ part = "baby" /\ Baby!Next
       /\ UNCHANGED <<part, vars, managedVars, ncclVars, swallowVars>>
    \/ /\ part = "nccl" /\ NCCL!Next
       /\ UNCHANGED <<part, vars, managedVars, babyVars, swallowVars>>
    \/ /\ part = "swallow" /\ Swallow!Next
       /\ UNCHANGED <<part, vars, managedVars, babyVars, ncclVars>>

\* ManagedWork's own fairness, while it is the part that runs.
ManagedFairness ==
    /\ WF_managedVars(part = "managed" /\ Managed!CallerNext)
    /\ \A b \in 1 .. NumBuckets :
        WF_managedVars(/\ part = "managed"
                       /\ \/ Managed!OpDone(b) \/ Managed!OpFails(b)
                          \/ Managed!LateCallbacks(b) \/ Managed!LateTimeout(b))

WSpec == /\ WInit /\ [][WNext]_worksVars
         /\ Fairness /\ ManagedFairness /\ Baby!Fairness /\ NCCL!Fairness

-----------------------------------------------------------------------------
\* The variables of the parts have their types.
TypesOK == TypeOK /\ Managed!TypeOK /\ Baby!TypeOK /\ NCCL!TypeOK
           /\ Swallow!TypeOK

\* The properties of the parts, stated there.
VotesAreInformed   == Managed!VotesAreInformed
StepEnds           == part = "managed" => Managed!StepEnds
AnswersMatch       == Baby!AnswersMatch
FutureCompletes    == Baby!FutureCompletes
ErrorsAreTheSteps  == NCCL!ErrorsAreTheSteps
OperationsEnd      == NCCL!OperationsEnd
NothingAfterFailure == [][Swallow!NothingAfterFailure]_swallowVars
=============================================================================
