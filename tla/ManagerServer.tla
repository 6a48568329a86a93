--------------------------- MODULE ManagerServer ---------------------------
(***************************************************************************)
(* One replica group: its manager server (src/manager.rs) and the trainer  *)
(* processes of its local ranks, as far as they talk to it                 *)
(* (torchft/manager.py).  The server collects one quorum request per rank, *)
(* asks the lighthouse once for the group and broadcasts the answer; it    *)
(* collects one vote per rank and broadcasts the decision to commit.       *)
(*                                                                         *)
(* Each RPC handler is a task: its locked section is one step, and reading *)
(* the reply from the broadcast channel another.  A spawned _run_quorum    *)
(* talks to the lighthouse without the lock.  The lighthouse, and the      *)
(* replica groups ahead of this one, are the environment: a quorum says    *)
(* what the highest step is, and the group heals when its member's step is *)
(* lower.                                                                  *)
(***************************************************************************)
EXTENDS Integers, FiniteSets

CONSTANTS
  Ranks,          \* local ranks of the group; world_size is their number
  QuorumRetries,  \* quorum_retries
  HealFailures,   \* may a rank fail to receive its checkpoint?
  VoteTimeouts,   \* may a should_commit call time out and be made again?
  MaxStep,        \* bound on steps
  MaxRounds,      \* bound on quorums asked of the lighthouse
  None

ASSUME RanksAssumption == IsFiniteSet(Ranks) /\ Ranks # {}
ASSUME ManagerBoundsAssumption ==
  /\ QuorumRetries \in Nat
  /\ HealFailures \in BOOLEAN
  /\ VoteTimeouts \in BOOLEAN
  /\ MaxStep \in Nat
  /\ MaxRounds \in Nat

VARIABLES
  participants,    \* step of the member each rank registered, None without one
  tasks,           \* the spawned _run_quorum: round, member's step, failed attempts
  rounds,          \* number of tasks spawned
  commitCount,     \* should_commit_count
  commitFailures,  \* should_commit_failures
  calls,           \* the RPC each rank waits for, with the reply broadcast to it
  pc,              \* where each trainer is in its loop
  step,            \* Manager._step of each rank
  errored,         \* Manager._errored of each rank
  voted            \* the last vote each rank cast

server == <<participants, tasks, rounds, commitCount, commitFailures>>
vars == <<server, calls, pc, step, errored, voted>>

Task == [round : 1..MaxRounds, step : 0..MaxStep, attempts : 0..(QuorumRetries + 1)]
QuorumReply == [max_step : 0..MaxStep, heal : BOOLEAN]
CommitReply == [should_commit : BOOLEAN]
Call == [kind : {"quorum", "commit"}, reply : {None} \cup QuorumReply \cup CommitReply]
Vote == [step : 0..MaxStep, commit : BOOLEAN]

ASSUME NoneAssumption ==
  None \notin Nat /\ None \notin QuorumReply /\ None \notin CommitReply /\ None \notin Call

Waiting(g, kind) == calls[g] # None /\ calls[g].kind = kind /\ calls[g].reply = None

\* What a broadcast does: every subscribed call of this kind has its reply.
Replied(cs, kind, value) ==
  [g \in Ranks |->
     IF cs[g] # None /\ cs[g].kind = kind /\ cs[g].reply = None
     THEN [cs[g] EXCEPT !.reply = value]
     ELSE cs[g]]

Subscribe(g, kind) == [calls EXCEPT ![g] = [kind |-> kind, reply |-> None]]

Init ==
  /\ participants = [g \in Ranks |-> None]
  /\ tasks = {}
  /\ rounds = 0
  /\ commitCount = {}
  /\ commitFailures = {}
  /\ calls = [g \in Ranks |-> None]
  /\ pc = [g \in Ranks |-> "start"]
  /\ step = [g \in Ranks |-> 0]
  /\ errored = [g \in Ranks |-> FALSE]
  /\ voted = [g \in Ranks |-> None]

-----------------------------------------------------------------------------
(* Quorum *)

\* mutant: the round starts one rank early
EveryoneJoined(ps) == Cardinality({g \in Ranks : ps[g] # None}) >= Cardinality(Ranks) - 1

\* state.participants.len() == self.world_size
AllJoined(ps) == Cardinality({g \in Ranks : ps[g] # None}) = Cardinality(Ranks)

\* start_quorum and the locked section of the quorum RPC.  The member sent to
\* the lighthouse is the one the last rank to join built from its own step.
StartQuorum(g) ==
  LET joined == [participants EXCEPT ![g] = step[g]]
  IN  /\ pc[g] = "start"
      /\ step[g] < MaxStep
      /\ calls' = Subscribe(g, "quorum")
      /\ pc' = [pc EXCEPT ![g] = "quorum"]
      /\ errored' = [errored EXCEPT ![g] = FALSE]
      /\ \/ /\ AllJoined(joined)
            /\ rounds < MaxRounds
            /\ participants' = [k \in Ranks |-> None]
            /\ tasks' = tasks \cup {[round |-> rounds + 1, step |-> step[g], attempts |-> 0]}
            /\ rounds' = rounds + 1
         \/ /\ ~AllJoined(joined)
            /\ participants' = joined
            /\ UNCHANGED <<tasks, rounds>>
      /\ UNCHANGED <<commitCount, commitFailures, step, voted>>

\* The lighthouse answers; max_step is at least the step of our member.
LighthouseAnswers(t) ==
  /\ t.attempts <= QuorumRetries
  /\ \E maxStep \in t.step..(MaxStep - 1) :
       calls' = Replied(calls, "quorum", [max_step |-> maxStep, heal |-> t.step # maxStep])
  /\ tasks' = tasks \ {t}
  /\ UNCHANGED <<participants, rounds, commitCount, commitFailures, pc, step, errored, voted>>

\* The request fails or times out.  After the last retry nothing is broadcast
\* ("... resulting in a hang"); such a task stays in `tasks' and does nothing.
LighthouseFails(t) ==
  /\ t.attempts <= QuorumRetries
  /\ tasks' = (tasks \ {t}) \cup {[t EXCEPT !.attempts = @ + 1]}
  /\ UNCHANGED <<participants, rounds, commitCount, commitFailures, calls, pc, step, errored, voted>>

\* The quorum arrives.  If the group heals, the rank receives its own
\* checkpoint (which sets _step) or reports the error that kept it from it.
QuorumArrives(g) ==
  /\ pc[g] = "quorum"
  /\ calls[g] # None
  /\ calls[g].reply # None
  /\ \/ /\ step' = IF calls[g].reply.heal
                   THEN [step EXCEPT ![g] = calls[g].reply.max_step] ELSE step
        /\ UNCHANGED errored
     \/ /\ HealFailures
        /\ calls[g].reply.heal
        /\ errored' = [errored EXCEPT ![g] = TRUE]
        /\ UNCHANGED step
  /\ calls' = [calls EXCEPT ![g] = None]
  /\ pc' = [pc EXCEPT ![g] = "train"]
  /\ UNCHANGED <<server, voted>>

\* An error of the process group, or of anything else in the step.
ReportError(g) ==
  /\ pc[g] = "train"
  /\ ~errored[g]
  /\ errored' = [errored EXCEPT ![g] = TRUE]
  /\ UNCHANGED <<server, calls, pc, step, voted>>

-----------------------------------------------------------------------------
(* Commit *)

\* mutant: the failures of a round are left for the next one
ResetCountOnly(failures) == commitCount' = {} /\ commitFailures' = failures

\* "reset state"
ResetVotes(failures) == commitCount' = {} /\ commitFailures' = {}

\* mutant: the last vote to arrive decides
DecisionOfLast(failures, g) == g \notin failures

\* should_commit_failures.len() == 0
Decision(failures, g) == failures = {}

\* mutant: subscribes after the decision has been sent
ShouldCommitLate(g) ==
  LET count    == commitCount \cup {g}
      failures == IF errored[g] THEN commitFailures \cup {g} ELSE commitFailures
  IN  /\ pc[g] = "train"
      /\ calls[g] = None
      /\ voted' = [voted EXCEPT ![g] = [step |-> step[g], commit |-> ~errored[g]]]
      /\ IF Cardinality(count) = Cardinality(Ranks)
         THEN /\ calls' = [Replied(calls, "commit", [should_commit |-> Decision(failures, g)])
                             EXCEPT ![g] = [kind |-> "commit", reply |-> None]]
              /\ ResetVotes(failures)
         ELSE /\ calls' = Subscribe(g, "commit")
              /\ commitCount' = count
              /\ commitFailures' = failures
      /\ UNCHANGED <<participants, tasks, rounds, pc, step, errored>>

\* The vote of a rank and the locked section of the should_commit RPC.
ShouldCommit(g) ==
  LET count    == commitCount \cup {g}
      failures == IF errored[g] THEN commitFailures \cup {g} ELSE commitFailures
  IN  /\ pc[g] = "train"
      /\ calls[g] = None
      /\ voted' = [voted EXCEPT ![g] = [step |-> step[g], commit |-> ~errored[g]]]
      /\ IF Cardinality(count) = Cardinality(Ranks)
         THEN /\ calls' = Replied(Subscribe(g, "commit"), "commit",
                                [should_commit |-> Decision(failures, g)])
              /\ ResetVotes(failures)
         ELSE /\ calls' = Subscribe(g, "commit")
              /\ commitCount' = count
              /\ commitFailures' = failures
      /\ UNCHANGED <<participants, tasks, rounds, pc, step, errored>>

\* mutant: a rank goes by its own vote
DecidedAlone(g) ==
  /\ pc[g] = "train"
  /\ calls[g] # None
  /\ calls[g].reply # None
  /\ step' = IF voted[g].commit THEN [step EXCEPT ![g] = @ + 1] ELSE step
  /\ calls' = [calls EXCEPT ![g] = None]
  /\ pc' = [pc EXCEPT ![g] = "start"]
  /\ UNCHANGED <<server, errored, voted>>

\* The decision arrives.
Decided(g) ==
  /\ pc[g] = "train"
  /\ calls[g] # None
  /\ calls[g].reply # None
  /\ step' = IF calls[g].reply.should_commit THEN [step EXCEPT ![g] = @ + 1] ELSE step
  /\ calls' = [calls EXCEPT ![g] = None]
  /\ pc' = [pc EXCEPT ![g] = "start"]
  /\ UNCHANGED <<server, errored, voted>>

\* The call times out ("If the request times out a TimeoutError is raised"):
\* the server drops the handler, the vote stays counted, and the trainer is
\* free to call again.
VoteTimesOut(g) ==
  /\ VoteTimeouts
  /\ Waiting(g, "commit")
  /\ calls' = [calls EXCEPT ![g] = None]
  /\ UNCHANGED <<server, pc, step, errored, voted>>

Trainer(g) ==
  \/ StartQuorum(g)
  \/ QuorumArrives(g)
  \/ ReportError(g)
  \/ ShouldCommit(g)
  \/ Decided(g)
  \/ VoteTimesOut(g)

Lighthouse == \E t \in tasks : LighthouseAnswers(t) \/ LighthouseFails(t)

Next == Lighthouse \/ \E g \in Ranks : Trainer(g)

Spec == Init /\ [][Next]_vars

\* Every trainer goes through its loop, a quorum task runs until it is
\* answered or has used its retries.  Errors and timeouts need not happen.
Fairness ==
  /\ WF_vars(Lighthouse)
  /\ \A g \in Ranks :
       WF_vars(StartQuorum(g) \/ QuorumArrives(g) \/ ShouldCommit(g) \/ Decided(g))

FairSpec == Spec /\ Fairness

-----------------------------------------------------------------------------
(* Properties *)

\* The server and its clients keep their shape; a member is built for a step
\* the rank is at.
TypeOK ==
  /\ participants \in [Ranks -> (0..MaxStep) \cup {None}]
  /\ tasks \subseteq Task
  /\ rounds \in 0..MaxRounds
  /\ commitCount \subseteq Ranks
  /\ commitFailures \subseteq commitCount
  /\ calls \in [Ranks -> Call \cup {None}]
  /\ pc \in [Ranks -> {"start", "quorum", "train"}]
  /\ step \in [Ranks -> 0..MaxStep]
  /\ errored \in [Ranks -> BOOLEAN]
  /\ voted \in [Ranks -> Vote \cup {None}]

\* A rank that waits for the decision is counted in the round that will decide
\* it, and one that waits for a quorum is registered or has a task running for
\* it: subscribing and broadcasting leave nobody behind.
NoLostRank ==
  \A g \in Ranks :
    /\ Waiting(g, "commit") => g \in commitCount
    /\ Waiting(g, "quorum") => participants[g] # None \/ tasks # {}

\* This step broadcasts the decision d to rank g.
ToldTo(g, d) ==
  /\ calls'[g] # None
  /\ calls'[g].reply = [should_commit |-> d]
  /\ calls'[g] # calls[g]

\* A rank is told to commit only when all have voted to commit that very step.
CommitsTogether ==
  \A g \in Ranks :
    ToldTo(g, TRUE) => \A k \in Ranks : voted'[k] = [step |-> voted'[g].step, commit |-> TRUE]

\* A rank is told to discard its step only if some rank asked for it.
DiscardsForCause ==
  \A g \in Ranks :
    ToldTo(g, FALSE) => \E k \in Ranks : voted'[k] = [step |-> voted'[g].step, commit |-> FALSE]

\* "This waits until all ranks check in at the specified step and will return
\* false if any worker passes should_commit=False" (lib.rs:244): the ranks
\* that commit together commit one step.
CommitsOneStep == [][CommitsTogether]_vars

\* The reply to the call of rank g has been broadcast and not been read.
Told(g, kind) == calls[g] # None /\ calls[g].kind = kind /\ calls[g].reply # None

\* Rank g is between steps: its step is decided, and no quorum has been
\* answered since.
Between(g) == pc[g] = "start" \/ Waiting(g, "quorum") \/ Told(g, "commit")

\* The step rank g will be at once it has read the reply that is on its way.
Level(g) ==
  IF Told(g, "quorum") THEN calls[g].reply.max_step
  ELSE IF Told(g, "commit") /\ calls[g].reply.should_commit THEN step[g] + 1
  ELSE step[g]

\* Ranks on the same side of a round are at one step, although they read its
\* answers at different times and their votes time out: those inside the step,
\* or with a quorum's reply to read, train and vote for one step
\* (manager.rs:437 does not compare them), and those that have decided it, or
\* have the decision to read, go on from one step.
RanksInStep ==
  \A g, k \in Ranks : (Between(g) <=> Between(k)) => Level(g) = Level(k)

\* Every call is answered, or the quorum request failed for good.  (Or a bound
\* stops the model: a rank at MaxStep does not start another step.)
CallsAnswered ==
  \A g \in Ranks :
    (Waiting(g, "quorum") \/ Waiting(g, "commit"))
      ~> \/ ~Waiting(g, "quorum") /\ ~Waiting(g, "commit")
         \/ \E t \in tasks : t.attempts > QuorumRetries
         \/ rounds = MaxRounds
         \/ \E k \in Ranks : step[k] = MaxStep
=============================================================================
