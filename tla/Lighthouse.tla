----------------------------- MODULE Lighthouse -----------------------------
(***************************************************************************)
(* The lighthouse server (src/lighthouse.rs): replica groups heartbeat and *)
(* ask it for a quorum; a periodic tick, or the arrival of a request,      *)
(* decides whether the registered and healthy replicas form one.           *)
(*                                                                         *)
(* Every handler is its own task.  The state mutex makes three sections    *)
(* atomic: the registration at the head of the quorum handler (with the    *)
(* tick it runs), one periodic tick, and the re-registration of a handler  *)
(* that received a quorum it is not part of.  Receiving from the broadcast *)
(* channel happens outside the lock and is a step of its own.              *)
(*                                                                         *)
(* Abstractions.  Instants are ages, capped where the code's comparison    *)
(* stops telling them apart.  A list of members is sorted by replica id,   *)
(* so the set of ids stands for it.  Of a member only the fields that the  *)
(* lighthouse reads (shrink_only, commit_failures) are kept.  `epoch'      *)
(* numbers the incarnations of the server: it is not part of the wire      *)
(* format, where a restarted server counts from 0 again.                   *)
(***************************************************************************)
EXTENDS Integers, Sequences, FiniteSets

CONSTANTS
  Replicas,          \* replica ids
  Handlers,          \* tasks that may run a quorum RPC at the same time
  MinReplicas,       \* opt.min_replicas
  HeartbeatTimeout,  \* opt.heartbeat_timeout_ms, in units of TimePasses
  JoinTimeout,       \* opt.join_timeout_ms, in the same unit
  ChannelCap,        \* capacity of the broadcast channel (16 in the code)
  ShrinkInputs,      \* values of shrink_only that requests carry
  FailureInputs,     \* values of commit_failures that requests carry
  Overlapping,       \* may an abandoned call still run when the next one arrives?
  Steady,            \* replicas that keep training; used by Fairness only
  MaxQuorumId,       \* bound on quorum ids issued in one incarnation
  MaxEpoch,          \* bound on restarts of the server
  None               \* "no entry", "no quorum", "no call"

ASSUME ReplicasAssumption == IsFiniteSet(Replicas)
ASSUME BoundsAssumption ==
  /\ MinReplicas \in Nat
  /\ HeartbeatTimeout \in Nat \ {0}
  /\ JoinTimeout \in Nat
  /\ ChannelCap \in Nat \ {0}
  /\ MaxQuorumId \in Nat
  /\ MaxEpoch \in Nat
ASSUME InputsAssumption ==
  /\ ShrinkInputs \subseteq BOOLEAN
  /\ FailureInputs \subseteq Nat
  /\ Overlapping \in BOOLEAN
  /\ Steady \subseteq Replicas

VARIABLES
  epoch,         \* incarnation of the server process
  quorumId,      \* state.quorum_id
  prevQuorum,    \* state.prev_quorum
  participants,  \* state.participants, None where there is no entry
  heartAge,      \* age of state.heartbeats; HeartbeatTimeout when expired or never heard
  calls,         \* the quorum RPCs in progress, one per handler task
  answer         \* the last quorum each replica was answered

vars == <<epoch, quorumId, prevQuorum, participants, heartAge, calls, answer>>

-----------------------------------------------------------------------------
(* Data *)

Member  == [shrink_only : ShrinkInputs, commit_failures : FailureInputs]
Details == [member : Member, joined : 0..JoinTimeout]
Quorum  == [epoch : Nat, id : Nat, members : SUBSET Replicas]

\* A call is at rx.recv() or about to take the lock and register again.
\* `live' is false once the client has gone away; `lagged' once the channel
\* has dropped a message this receiver had not read.
Call == [pc : {"recv", "reinsert"}, replica : Replicas, member : Member,
         live : BOOLEAN, rx : Seq(Quorum), lagged : BOOLEAN]

\* None is none of these (Option::None, or no entry in a map).
ASSUME NoneAssumption == None \notin Quorum /\ None \notin Details /\ None \notin Call

Older(age, limit) == IF age < limit THEN age + 1 ELSE age

-----------------------------------------------------------------------------
(* quorum_compute *)

Healthy(ha) == {r \in Replicas : ha[r] < HeartbeatTimeout}

HealthyParticipants(ps, ha) == {r \in Healthy(ha) : ps[r] # None}

ShrinkOnly(ps, ha) == \E r \in HealthyParticipants(ps, ha) : ps[r].member.shrink_only

Candidates(ps, ha) ==
  IF prevQuorum # None /\ ShrinkOnly(ps, ha)
  THEN HealthyParticipants(ps, ha) \cap prevQuorum.members
  ELSE HealthyParticipants(ps, ha)

FastQuorum(ps, ha) ==
  prevQuorum # None /\ prevQuorum.members \subseteq HealthyParticipants(ps, ha)

\* mutant: a registered replica waits for the others however late they are
StragglersAlwaysAwaited(ps, ha) == HealthyParticipants(ps, ha) = Healthy(ha)

\* Nobody healthy is missing, or the first to join has waited long enough.
StragglersAwaited(ps, ha) ==
  \/ HealthyParticipants(ps, ha) = Healthy(ha)
  \/ \E r \in HealthyParticipants(ps, ha) : ps[r].joined >= JoinTimeout

\* mutant: no minimum size
QuorumMetAnySize(ps, ha) ==
  \/ FastQuorum(ps, ha)
  \/ /\ Cardinality(HealthyParticipants(ps, ha)) > Cardinality(Healthy(ha)) \div 2
     /\ StragglersAwaited(ps, ha)

QuorumMet(ps, ha) ==
  \/ FastQuorum(ps, ha)
  \/ /\ Cardinality(HealthyParticipants(ps, ha)) >= MinReplicas
     /\ Cardinality(HealthyParticipants(ps, ha)) > Cardinality(Healthy(ha)) \div 2
     /\ StragglersAwaited(ps, ha)

-----------------------------------------------------------------------------
(* _quorum_tick, on the participants and calls that the caller has set up *)

\* mutant: one successful replica hides the failures of the others
CommitFailedEverywhere(ps, ha) ==
  \A r \in Candidates(ps, ha) : ps[r].member.commit_failures > 0

CommitFailed(ps, ha) == \E r \in Candidates(ps, ha) : ps[r].member.commit_failures > 0

\* mutant: compares the sizes of the quorums, not their ids
NextQuorumIdBySize(ps, ha) ==
  IF \/ prevQuorum = None
     \/ Cardinality(prevQuorum.members) # Cardinality(Candidates(ps, ha))
     \/ CommitFailed(ps, ha)
  THEN quorumId + 1
  ELSE quorumId

\* mutant: an id too narrow for its count
NextQuorumIdNarrow(ps, ha) ==
  IF \/ prevQuorum = None
     \/ prevQuorum.members # Candidates(ps, ha)
     \/ CommitFailed(ps, ha)
  THEN (quorumId + 1) % 2
  ELSE quorumId

NextQuorumId(ps, ha) ==
  IF \/ prevQuorum = None
     \/ prevQuorum.members # Candidates(ps, ha)
     \/ CommitFailed(ps, ha)
  THEN quorumId + 1
  ELSE quorumId

\* mutant: the quorum is put together before the id is bumped
NextQuorumOldId(ps, ha) ==
  [epoch |-> epoch, id |-> quorumId, members |-> Candidates(ps, ha)]

NextQuorum(ps, ha) ==
  [epoch |-> epoch, id |-> NextQuorumId(ps, ha), members |-> Candidates(ps, ha)]

\* The channel hands the quorum to every subscribed receiver.
Broadcast(cs, q) ==
  [h \in Handlers |->
     IF cs[h] = None THEN None
     ELSE IF Len(cs[h].rx) < ChannelCap /\ ~cs[h].lagged
          THEN [cs[h] EXCEPT !.rx = Append(@, q)]
          ELSE [cs[h] EXCEPT !.rx = <<>>, !.lagged = TRUE]]

Tick(ps, ha, cs) ==
  \/ /\ QuorumMet(ps, ha)
     /\ NextQuorumId(ps, ha) <= MaxQuorumId
     /\ quorumId' = NextQuorumId(ps, ha)
     /\ prevQuorum' = NextQuorum(ps, ha)
     /\ participants' = [r \in Replicas |-> None]
     /\ calls' = Broadcast(cs, NextQuorum(ps, ha))
  \/ /\ ~QuorumMet(ps, ha)
     /\ participants' = ps
     /\ calls' = cs
     /\ UNCHANGED <<quorumId, prevQuorum>>

-----------------------------------------------------------------------------
(* The server's steps *)

Init ==
  /\ epoch = 0
  /\ quorumId = 0
  /\ prevQuorum = None
  /\ participants = [r \in Replicas |-> None]
  /\ heartAge = [r \in Replicas |-> HeartbeatTimeout]
  /\ calls = [h \in Handlers |-> None]
  /\ answer = [r \in Replicas |-> None]

\* insert of QuorumMemberDetails { joined: Instant::now(), member }
Register(ps, r, m) == [ps EXCEPT ![r] = [member |-> m, joined |-> 0]]

NewCall(r, m) ==
  [pc |-> "recv", replica |-> r, member |-> m, live |-> TRUE, rx |-> <<>>, lagged |-> FALSE]

\* A client issues one call at a time, so only abandoned calls of the same
\* replica can still be running.
MayCall(r) ==
  \A h \in Handlers : calls[h] # None /\ calls[h].replica = r => Overlapping /\ ~calls[h].live

\* The head of the quorum handler: implicit heartbeat, registration,
\* subscription and a proactive tick, all under one lock.
QuorumRequest(h, r, m) ==
  /\ calls[h] = None
  /\ MayCall(r)
  /\ heartAge' = [heartAge EXCEPT ![r] = 0]
  /\ Tick(Register(participants, r, m), heartAge', [calls EXCEPT ![h] = NewCall(r, m)])
  /\ UNCHANGED <<epoch, answer>>

\* mutant: returns the first quorum received, whoever is in it
ReceiveAny(h) ==
  /\ calls[h] # None
  /\ calls[h].pc = "recv"
  /\ calls[h].rx # <<>>
  /\ calls' = [calls EXCEPT ![h] = None]
  /\ answer' = IF calls[h].live THEN [answer EXCEPT ![calls[h].replica] = Head(calls[h].rx)]
               ELSE answer
  /\ UNCHANGED <<epoch, quorumId, prevQuorum, participants, heartAge>>

\* rx.recv() without the lock.  The reply of an abandoned call goes nowhere.
Receive(h) ==
  /\ calls[h] # None
  /\ calls[h].pc = "recv"
  /\ calls[h].rx # <<>>
  /\ LET c == calls[h]
         q == Head(c.rx)
     IN  IF c.replica \in q.members
         THEN /\ calls' = [calls EXCEPT ![h] = None]
              /\ answer' = IF c.live THEN [answer EXCEPT ![c.replica] = q] ELSE answer
         ELSE /\ calls' = [calls EXCEPT ![h].pc = "reinsert", ![h].rx = Tail(@)]
              /\ UNCHANGED answer
  /\ UNCHANGED <<epoch, quorumId, prevQuorum, participants, heartAge>>

\* rx.recv() of a receiver that fell behind is an error, and so is the call.
ReceiveLagged(h) ==
  /\ calls[h] # None
  /\ calls[h].pc = "recv"
  /\ calls[h].lagged
  /\ calls' = [calls EXCEPT ![h] = None]
  /\ UNCHANGED <<epoch, quorumId, prevQuorum, participants, heartAge, answer>>

\* mutant: waits for the next quorum without asking to be in it
ReinsertForgotten(h) ==
  /\ calls[h] # None
  /\ calls[h].pc = "reinsert"
  /\ calls' = [calls EXCEPT ![h].pc = "recv"]
  /\ UNCHANGED <<epoch, quorumId, prevQuorum, participants, heartAge, answer>>

\* "Only continue the loop if the replica is not in the quorum."
Reinsert(h) ==
  /\ calls[h] # None
  /\ calls[h].pc = "reinsert"
  /\ participants' = Register(participants, calls[h].replica, calls[h].member)
  /\ calls' = [calls EXCEPT ![h].pc = "recv"]
  /\ UNCHANGED <<epoch, quorumId, prevQuorum, heartAge, answer>>

\* The client times out or dies; the server notices later (DropCall).
Abandon(h) ==
  /\ calls[h] # None
  /\ calls[h].live
  /\ calls' = [calls EXCEPT ![h].live = FALSE]
  /\ UNCHANGED <<epoch, quorumId, prevQuorum, participants, heartAge, answer>>

\* The server drops the future of an abandoned call at one of its awaits.
\* The entry it registered stays.
DropCall(h) ==
  /\ calls[h] # None
  /\ ~calls[h].live
  /\ calls' = [calls EXCEPT ![h] = None]
  /\ UNCHANGED <<epoch, quorumId, prevQuorum, participants, heartAge, answer>>

Heartbeat(r) ==
  /\ heartAge' = [heartAge EXCEPT ![r] = 0]
  /\ UNCHANGED <<epoch, quorumId, prevQuorum, participants, calls, answer>>

\* One iteration of _run_quorum.
QuorumTick ==
  /\ Tick(participants, heartAge, calls)
  /\ UNCHANGED <<epoch, heartAge, answer>>

TimePasses ==
  /\ heartAge' = [r \in Replicas |-> Older(heartAge[r], HeartbeatTimeout)]
  /\ participants' =
       [r \in Replicas |->
          IF participants[r] = None THEN None
          ELSE [participants[r] EXCEPT !.joined = Older(@, JoinTimeout)]]
  /\ UNCHANGED <<epoch, quorumId, prevQuorum, calls, answer>>

\* The process dies and Lighthouse::new runs again; nothing is persisted and
\* the calls in progress fail.
Restart ==
  /\ epoch < MaxEpoch
  /\ epoch' = epoch + 1
  /\ quorumId' = 0
  /\ prevQuorum' = None
  /\ participants' = [r \in Replicas |-> None]
  /\ heartAge' = [r \in Replicas |-> HeartbeatTimeout]
  /\ calls' = [h \in Handlers |-> None]
  /\ UNCHANGED answer

HandlerStep(h) ==
  \/ \E r \in Replicas, m \in Member : QuorumRequest(h, r, m)
  \/ Receive(h)
  \/ ReceiveLagged(h)
  \/ Reinsert(h)
  \/ Abandon(h)
  \/ DropCall(h)

Next ==
  \/ \E h \in Handlers : HandlerStep(h)
  \/ \E r \in Replicas : Heartbeat(r)
  \/ QuorumTick
  \/ TimePasses
  \/ Restart

Spec == Init /\ [][Next]_vars

\* The runtime polls every task, the clock runs and the tick is periodic.  A
\* steady replica heartbeats from its manager's own loop (manager.rs:194) and
\* its trainer asks for a quorum at every step; strong fairness because a
\* request needs a free handler.  Nothing is assumed of the other replicas.
Fairness ==
  /\ WF_vars(TimePasses)
  /\ WF_vars(QuorumTick)
  /\ \A h \in Handlers :
       WF_vars(Receive(h) \/ ReceiveLagged(h)) /\ WF_vars(Reinsert(h)) /\ WF_vars(DropCall(h))
  /\ \A r \in Steady :
       /\ WF_vars(Heartbeat(r))
       /\ SF_vars(\E h \in Handlers, m \in Member : QuorumRequest(h, r, m))

FairSpec == Spec /\ Fairness

-----------------------------------------------------------------------------
(* Properties *)

\* The variables have the shape the server's state has, and the quorum kept
\* for the next comparison (prev_quorum) is the one that was issued last: it
\* carries the current id, so "compare, bump, build, store" is in step.
TypeOK ==
  /\ epoch \in Nat
  /\ quorumId \in Nat
  /\ prevQuorum \in Quorum \cup {None}
  /\ participants \in [Replicas -> Details \cup {None}]
  /\ heartAge \in [Replicas -> 0..HeartbeatTimeout]
  /\ calls \in [Handlers -> Call \cup {None}]
  /\ answer \in [Replicas -> Quorum \cup {None}]
  /\ prevQuorum # None => prevQuorum.epoch = epoch /\ prevQuorum.id = quorumId

InFlight(h) == IF calls[h] = None THEN {} ELSE {calls[h].rx[i] : i \in DOMAIN calls[h].rx}

\* Every quorum somebody holds or is about to be handed.
KnownQuorums ==
  ({prevQuorum} \cup {answer[r] : r \in Replicas} \cup UNION {InFlight(h) : h \in Handlers})
    \ {None}

\* Managers reconfigure their process group only when the quorum id changes
\* (manager.py:692), so within one incarnation of the server two quorums with
\* one id have the same members, whoever holds them and however old they are.
QuorumIdNamesMembers ==
  \A p, q \in KnownQuorums : p.epoch = q.epoch /\ p.id = q.id => p.members = q.members

\* A call with nothing to receive.
Waiting(c) == c # None /\ c.pc = "recv" /\ c.rx = <<>> /\ ~c.lagged

\* Subscribing, broadcasting and registering again never lose a waiter: it is
\* registered for the next quorum.
NoLostWaiter == \A h \in Handlers : Waiting(calls[h]) => participants[calls[h].replica] # None

\* "Minimum number of replicas to consider a quorum" (lighthouse.rs:114),
\* although the fast path does not look at min_replicas.
QuorumLargeEnough == prevQuorum # None => Cardinality(prevQuorum.members) >= MinReplicas

\* A replica never gets an answer that is older than the one it has.
AnswersInOrder ==
  [][\A r \in Replicas :
       answer[r] # None /\ answer'[r].epoch = answer[r].epoch
         => answer'[r].id >= answer[r].id]_vars

\* This step answers the call of h, whose client still waits for it.
Answers(h) ==
  /\ calls[h] # None
  /\ calls[h].live
  /\ calls[h].rx # <<>>
  /\ calls'[h] = None
  /\ epoch' = epoch

\* A replica that reports a commit failure gets a quorum with a higher id than
\* the one it failed in, so that it reconfigures (lighthouse.rs:318).
FailureGetsFreshId ==
  [][\A h \in Handlers :
       LET r == calls[h].replica
       IN  /\ Answers(h)
           /\ calls[h].member.commit_failures > 0
           /\ answer[r] # None
           /\ answer[r].epoch = epoch
           => answer'[r].id > answer[r].id]_vars

\* Heartbeats may be late for a while; from some point on those of the steady
\* replicas arrive within the timeout.
EventuallyPunctual == <>[](\A r \in Steady : heartAge[r] < HeartbeatTimeout)

\* Where the steady replicas are enough for a quorum, a call of one of them
\* ends: stragglers that heartbeat and never ask, ghosts of abandoned calls
\* and quorums that left it out delay it and never starve it.  (Or the bound on
\* ids stops the model.)
CallsEnd ==
  EventuallyPunctual =>
    \A h \in Handlers :
      (calls[h] # None /\ calls[h].live /\ calls[h].replica \in Steady)
        ~> (calls[h] = None \/ ~calls[h].live \/ quorumId = MaxQuorumId)

=============================================================================
