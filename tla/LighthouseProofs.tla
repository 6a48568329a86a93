-------------------------- MODULE LighthouseProofs --------------------------
(***************************************************************************)
(* Theorems about Lighthouse, for every set of replicas and handlers and   *)
(* every value of the timeouts and bounds: its types, the waiters it may   *)
(* not lose, what an id stands for, the size of a quorum, the order of     *)
(* answers, the fresh id after a failure, and that it implements           *)
(* QuorumService.                                                          *)
(***************************************************************************)
EXTENDS MCLighthouse, TLAPS, FiniteSetTheorems

PSType == [Replicas -> Details \cup {None}]
HAType == [Replicas -> 0..HeartbeatTimeout]
CallsType == [Handlers -> Call \cup {None}]

-----------------------------------------------------------------------------
(* Type correctness *)

LEMMA RegisterType ==
  ASSUME NEW ps \in PSType, NEW r \in Replicas, NEW m \in Member
  PROVE  Register(ps, r, m) \in PSType
  <1>1. [member |-> m, joined |-> 0] \in Details
    BY BoundsAssumption DEF Details
  <1> QED
    BY <1>1 DEF Register, PSType

LEMMA NewCallType ==
  ASSUME NEW r \in Replicas, NEW m \in Member
  PROVE  NewCall(r, m) \in Call
  BY DEF NewCall, Call

LEMMA NextQuorumType ==
  ASSUME TypeOK, NEW ps, NEW ha
  PROVE  /\ NextQuorumId(ps, ha) \in Nat
         /\ Candidates(ps, ha) \in SUBSET Replicas
         /\ NextQuorum(ps, ha) \in Quorum
  <1>1. NextQuorumId(ps, ha) \in Nat
    BY DEF TypeOK, NextQuorumId
  <1>2. Candidates(ps, ha) \in SUBSET Replicas
    BY DEF Candidates, HealthyParticipants, Healthy
  <1> QED
    BY <1>1, <1>2 DEF NextQuorum, Quorum, TypeOK

LEMMA BroadcastCall ==
  ASSUME NEW c \in Call, NEW q \in Quorum
  PROVE  /\ [c EXCEPT !.rx = Append(@, q)] \in Call
         /\ [c EXCEPT !.rx = <<>>, !.lagged = TRUE] \in Call
  <1>1. c.rx \in Seq(Quorum)
    BY DEF Call
  <1>2. Append(c.rx, q) \in Seq(Quorum) /\ <<>> \in Seq(Quorum)
    BY <1>1
  <1>3. ASSUME NEW s \in Seq(Quorum)
        PROVE  [c EXCEPT !.rx = s] \in Call /\ [c EXCEPT !.rx = s, !.lagged = TRUE] \in Call
    BY DEF Call
  <1> QED
    BY <1>2, <1>3

LEMMA BroadcastType ==
  ASSUME NEW cs \in CallsType, NEW q \in Quorum
  PROVE  Broadcast(cs, q) \in CallsType
  BY BroadcastCall DEF Broadcast, CallsType

LEMMA TickType ==
  ASSUME TypeOK, NEW ps \in PSType, NEW ha \in HAType, NEW cs \in CallsType, Tick(ps, ha, cs)
  PROVE  /\ quorumId' \in Nat
         /\ prevQuorum' \in Quorum \cup {None}
         /\ participants' \in PSType
         /\ calls' \in CallsType
         /\ epoch' = epoch =>
              (prevQuorum' # None => prevQuorum'.epoch = epoch' /\ prevQuorum'.id = quorumId')
  <1>1. CASE QuorumMet(ps, ha)
    <2>1. participants' \in PSType
      BY <1>1 DEF Tick, PSType
    <2>2. prevQuorum' = NextQuorum(ps, ha) /\ quorumId' = NextQuorumId(ps, ha)
      BY <1>1 DEF Tick
    <2>3. prevQuorum'.epoch = epoch /\ prevQuorum'.id = quorumId'
      BY <2>2 DEF NextQuorum
    <2> QED
      BY <1>1, <2>1, <2>3, NextQuorumType, BroadcastType DEF Tick
  <1>2. CASE ~QuorumMet(ps, ha)
    BY <1>2 DEF Tick, TypeOK
  <1> QED
    BY <1>1, <1>2

LEMMA TypeStep == TypeOK /\ [Next]_vars => TypeOK'
  <1> SUFFICES ASSUME TypeOK, [Next]_vars PROVE TypeOK'
    OBVIOUS
  <1> USE DEF PSType, HAType, CallsType
  <1>1. ASSUME NEW h \in Handlers, NEW r \in Replicas, NEW m \in Member, QuorumRequest(h, r, m)
        PROVE  TypeOK'
    <2>1. heartAge' \in HAType
      BY <1>1, BoundsAssumption DEF TypeOK, QuorumRequest
    <2>2. [calls EXCEPT ![h] = NewCall(r, m)] \in CallsType
      BY NewCallType DEF TypeOK
    <2>3. Register(participants, r, m) \in PSType
      BY RegisterType DEF TypeOK
    <2>4. Tick(Register(participants, r, m), heartAge', [calls EXCEPT ![h] = NewCall(r, m)])
      BY <1>1 DEF QuorumRequest
    <2>5. /\ quorumId' \in Nat
          /\ prevQuorum' \in Quorum \cup {None}
          /\ participants' \in PSType
          /\ calls' \in CallsType
          /\ epoch' = epoch =>
               (prevQuorum' # None => prevQuorum'.epoch = epoch' /\ prevQuorum'.id = quorumId')
      BY <2>1, <2>2, <2>3, <2>4, TickType
    <2> QED
      BY <1>1, <2>1, <2>5 DEF TypeOK, QuorumRequest
  <1>2. ASSUME NEW h \in Handlers, Receive(h)
        PROVE  TypeOK'
    <2>1. calls[h] \in Call
      BY <1>2 DEF Receive, TypeOK
    <2>2. /\ Head(calls[h].rx) \in Quorum
          /\ [calls[h] EXCEPT !.pc = "reinsert", !.rx = Tail(@)] \in Call
      <3>1. calls[h].rx \in Seq(Quorum) /\ calls[h].rx # <<>>
        BY <1>2, <2>1 DEF Receive, Call
      <3>2. Head(calls[h].rx) \in Quorum /\ Tail(calls[h].rx) \in Seq(Quorum)
        BY <3>1
      <3>3. ASSUME NEW s \in Seq(Quorum)
            PROVE  [calls[h] EXCEPT !.pc = "reinsert", !.rx = s] \in Call
        BY <2>1 DEF Call
      <3> QED
        BY <3>2, <3>3
    <2>3. calls[h].replica \in Replicas
      BY <2>1 DEF Call
    <2>4. calls' \in CallsType
      BY <1>2, <2>1, <2>2 DEF Receive, TypeOK
    <2>5. answer' \in [Replicas -> Quorum \cup {None}]
      BY <1>2, <2>2, <2>3 DEF Receive, TypeOK
    <2> QED
      BY <1>2, <2>4, <2>5 DEF Receive, TypeOK
  <1>3. ASSUME NEW h \in Handlers, ReceiveLagged(h)
        PROVE  TypeOK'
    BY <1>3 DEF ReceiveLagged, TypeOK
  <1>4. ASSUME NEW h \in Handlers, Reinsert(h)
        PROVE  TypeOK'
    <2>1. calls[h] \in Call
      BY <1>4 DEF Reinsert, TypeOK
    <2>2. /\ calls[h].replica \in Replicas
          /\ calls[h].member \in Member
          /\ [calls[h] EXCEPT !.pc = "recv"] \in Call
      BY <2>1 DEF Call
    <2>3. participants' \in PSType
      BY <1>4, <2>2, RegisterType DEF Reinsert, TypeOK
    <2>4. calls' \in CallsType
      BY <1>4, <2>2 DEF Reinsert, TypeOK
    <2> QED
      BY <1>4, <2>3, <2>4 DEF Reinsert, TypeOK
  <1>5. ASSUME NEW h \in Handlers, Abandon(h)
        PROVE  TypeOK'
    <2>1. calls[h] \in Call
      BY <1>5 DEF Abandon, TypeOK
    <2>2. [calls[h] EXCEPT !.live = FALSE] \in Call
      BY <2>1 DEF Call
    <2> QED
      BY <1>5, <2>2 DEF Abandon, TypeOK
  <1>6. ASSUME NEW h \in Handlers, DropCall(h)
        PROVE  TypeOK'
    BY <1>6 DEF DropCall, TypeOK
  <1>7. ASSUME NEW r \in Replicas, Heartbeat(r)
        PROVE  TypeOK'
    BY <1>7, BoundsAssumption DEF Heartbeat, TypeOK
  <1>8. CASE QuorumTick
    BY <1>8, TickType DEF QuorumTick, TypeOK
  <1>9. CASE TimePasses
    <2>1. heartAge' \in HAType
      BY <1>9, BoundsAssumption DEF TimePasses, TypeOK, Older
    <2>2. ASSUME NEW d \in Details
          PROVE  [d EXCEPT !.joined = Older(@, JoinTimeout)] \in Details
      BY BoundsAssumption DEF Details, Older
    <2>3. participants' \in PSType
      BY <1>9, <2>2 DEF TimePasses, TypeOK
    <2> QED
      BY <1>9, <2>1, <2>3 DEF TimePasses, TypeOK
  <1>10. CASE Restart
    BY <1>10, BoundsAssumption DEF Restart, TypeOK
  <1>11. CASE UNCHANGED vars
    BY <1>11 DEF vars, TypeOK
  <1> QED
    BY <1>1, <1>2, <1>3, <1>4, <1>5, <1>6, <1>7, <1>8, <1>9, <1>10, <1>11
    DEF Next, HandlerStep

\* The state keeps its shape and the stored quorum carries the current id
\* (TypeOK) whatever the handlers, the tick and the heartbeats do.
THEOREM TypeCorrect == Spec => []TypeOK
  <1>1. Init => TypeOK
    BY BoundsAssumption DEF Init, TypeOK
  <1> QED
    BY <1>1, TypeStep, PTL DEF Spec

-----------------------------------------------------------------------------
(* No waiter is lost.  NoLostWaiter is inductive given TypeOK: a broadcast   *)
(* leaves every call with something to receive, and everything else only     *)
(* adds registrations.                                                       *)

WaitersRegistered(ps, cs) == \A h \in Handlers : Waiting(cs[h]) => ps[cs[h].replica] # None

LEMMA RegisterKeeps ==
  ASSUME NEW ps \in PSType, NEW r \in Replicas, NEW m \in Member
  PROVE  /\ Register(ps, r, m)[r] # None
         /\ \A x \in Replicas : ps[x] # None => Register(ps, r, m)[x] # None
  <1>1. [member |-> m, joined |-> 0] # None
    BY BoundsAssumption, NoneAssumption DEF Details
  <1> QED
    BY <1>1 DEF Register, PSType

LEMMA BroadcastWakes ==
  ASSUME NEW cs \in CallsType, NEW q \in Quorum, NEW h \in Handlers
  PROVE  ~Waiting(Broadcast(cs, q)[h])
  <1>1. CASE cs[h] = None
    BY <1>1 DEF Broadcast, Waiting
  <1>2. CASE cs[h] # None
    <2>1. cs[h] \in Call /\ cs[h].rx \in Seq(Quorum)
      BY <1>2 DEF CallsType, Call
    <2>2. Append(cs[h].rx, q) # <<>>
      BY <2>1
    <2>3. \/ Broadcast(cs, q)[h] = [cs[h] EXCEPT !.rx = Append(@, q)]
          \/ Broadcast(cs, q)[h] = [cs[h] EXCEPT !.rx = <<>>, !.lagged = TRUE]
      BY <1>2 DEF Broadcast
    <2>4. [cs[h] EXCEPT !.rx = Append(@, q)].rx = Append(cs[h].rx, q)
      BY <2>1 DEF Call
    <2>5. [cs[h] EXCEPT !.rx = <<>>, !.lagged = TRUE].lagged = TRUE
      BY <2>1 DEF Call
    <2> QED
      BY <2>2, <2>3, <2>4, <2>5 DEF Waiting
  <1> QED
    BY <1>1, <1>2

LEMMA TickKeepsWaiters ==
  ASSUME TypeOK, NEW ps \in PSType, NEW ha \in HAType, NEW cs \in CallsType,
         Tick(ps, ha, cs), WaitersRegistered(ps, cs)
  PROVE  NoLostWaiter'
  <1>1. CASE QuorumMet(ps, ha)
    <2>1. calls' = Broadcast(cs, NextQuorum(ps, ha))
      BY <1>1 DEF Tick
    <2> QED
      BY <2>1, NextQuorumType, BroadcastWakes DEF NoLostWaiter, Waiting
  <1>2. CASE ~QuorumMet(ps, ha)
    BY <1>2 DEF Tick, NoLostWaiter, WaitersRegistered, Waiting
  <1> QED
    BY <1>1, <1>2

LEMMA WaiterStep == TypeOK /\ NoLostWaiter /\ [Next]_vars => NoLostWaiter'
  <1> SUFFICES ASSUME TypeOK, NoLostWaiter, [Next]_vars PROVE NoLostWaiter'
    OBVIOUS
  <1> USE DEF PSType, HAType, CallsType
  <1>0. WaitersRegistered(participants, calls)
    BY DEF NoLostWaiter, WaitersRegistered
  <1>1. ASSUME NEW h \in Handlers, NEW r \in Replicas, NEW m \in Member, QuorumRequest(h, r, m)
        PROVE  NoLostWaiter'
    <2> DEFINE ps == Register(participants, r, m)
               cs == [calls EXCEPT ![h] = NewCall(r, m)]
    <2>1. heartAge' \in HAType
      BY <1>1, BoundsAssumption DEF TypeOK, QuorumRequest
    <2>2. ps \in PSType /\ cs \in CallsType
      BY NewCallType, RegisterType DEF TypeOK
    <2>3. NewCall(r, m).replica = r
      BY DEF NewCall
    <2>4. WaitersRegistered(ps, cs)
      <3> SUFFICES ASSUME NEW g \in Handlers, Waiting(cs[g]) PROVE ps[cs[g].replica] # None
        BY DEF WaitersRegistered
      <3>1. CASE g = h
        BY <3>1, <2>3, RegisterKeeps DEF TypeOK
      <3>2. CASE g # h
        <4>1. cs[g] = calls[g]
          BY <3>2 DEF TypeOK
        <4>2. calls[g] \in Call /\ participants[calls[g].replica] # None
          BY <4>1, <1>0 DEF WaitersRegistered, Waiting, TypeOK
        <4>3. calls[g].replica \in Replicas
          BY <4>2 DEF Call
        <4> QED
          BY <4>1, <4>2, <4>3, RegisterKeeps DEF TypeOK
      <3> QED
        BY <3>1, <3>2
    <2>5. Tick(ps, heartAge', cs)
      BY <1>1 DEF QuorumRequest
    <2> QED
      BY <2>1, <2>2, <2>4, <2>5, TickKeepsWaiters
  <1>2. ASSUME NEW h \in Handlers, Receive(h)
        PROVE  NoLostWaiter'
    <2>1. calls[h] \in Call
      BY <1>2 DEF Receive, TypeOK
    <2>2. [calls[h] EXCEPT !.pc = "reinsert", !.rx = Tail(@)].pc = "reinsert"
      BY <2>1 DEF Call
    <2>3. ~Waiting(calls'[h])
      BY <1>2, <2>2 DEF Receive, Waiting, TypeOK
    <2>4. \A g \in Handlers \ {h} : calls'[g] = calls[g]
      BY <1>2 DEF Receive, TypeOK
    <2>5. participants' = participants
      BY <1>2 DEF Receive
    <2> QED
      BY <2>3, <2>4, <2>5 DEF NoLostWaiter, Waiting
  <1>3. ASSUME NEW h \in Handlers, ReceiveLagged(h) \/ DropCall(h)
        PROVE  NoLostWaiter'
    <2>1. calls' = [calls EXCEPT ![h] = None] /\ participants' = participants
      BY <1>3 DEF ReceiveLagged, DropCall
    <2> QED
      BY <2>1 DEF NoLostWaiter, Waiting, TypeOK
  <1>4. ASSUME NEW h \in Handlers, Reinsert(h)
        PROVE  NoLostWaiter'
    <2>1. calls[h] \in Call
      BY <1>4 DEF Reinsert, TypeOK
    <2>2. /\ calls[h].replica \in Replicas
          /\ calls[h].member \in Member
          /\ [calls[h] EXCEPT !.pc = "recv"].replica = calls[h].replica
      BY <2>1 DEF Call
    <2>3. /\ participants'[calls[h].replica] # None
          /\ \A x \in Replicas : participants[x] # None => participants'[x] # None
      BY <1>4, <2>2, RegisterKeeps DEF Reinsert, TypeOK
    <2> SUFFICES ASSUME NEW g \in Handlers, Waiting(calls'[g])
                 PROVE  participants'[calls'[g].replica] # None
      BY DEF NoLostWaiter, Waiting
    <2>4. CASE g = h
      BY <1>4, <2>2, <2>3, <2>4 DEF Reinsert, TypeOK
    <2>5. CASE g # h
      <3>1. calls'[g] = calls[g]
        BY <1>4, <2>5 DEF Reinsert, TypeOK
      <3>2. calls[g] \in Call /\ participants[calls[g].replica] # None
        BY <3>1 DEF NoLostWaiter, Waiting, TypeOK
      <3>3. calls[g].replica \in Replicas
        BY <3>2 DEF Call
      <3> QED
        BY <3>1, <3>2, <3>3, <2>3
    <2> QED
      BY <2>4, <2>5
  <1>5. ASSUME NEW h \in Handlers, Abandon(h)
        PROVE  NoLostWaiter'
    <2>1. calls[h] \in Call
      BY <1>5 DEF Abandon, TypeOK
    <2>2. /\ calls'[h] = [calls[h] EXCEPT !.live = FALSE]
          /\ \A g \in Handlers \ {h} : calls'[g] = calls[g]
          /\ participants' = participants
          /\ calls[h] # None
      BY <1>5 DEF Abandon, TypeOK
    <2>3. /\ calls'[h].pc = calls[h].pc
          /\ calls'[h].rx = calls[h].rx
          /\ calls'[h].lagged = calls[h].lagged
          /\ calls'[h].replica = calls[h].replica
      BY <2>1, <2>2 DEF Call
    <2>4. ASSUME NEW g \in Handlers, Waiting(calls'[g])
          PROVE  Waiting(calls[g]) /\ calls'[g].replica = calls[g].replica
      BY <2>2, <2>3, <2>4 DEF Waiting
    <2> QED
      BY <2>2, <2>4 DEF NoLostWaiter, Waiting
  <1>6. ASSUME NEW r \in Replicas, Heartbeat(r)
        PROVE  NoLostWaiter'
    BY <1>6 DEF Heartbeat, NoLostWaiter, Waiting
  <1>7. CASE QuorumTick
    BY <1>7, <1>0, TickKeepsWaiters DEF QuorumTick, TypeOK
  <1>8. CASE TimePasses
    <2>1. ASSUME NEW d \in Details
          PROVE  [d EXCEPT !.joined = Older(@, JoinTimeout)] # None
      <3>1. [d EXCEPT !.joined = Older(@, JoinTimeout)] \in Details
        BY BoundsAssumption DEF Details, Older
      <3> QED
        BY <3>1, NoneAssumption
    <2>2. \A x \in Replicas : participants[x] # None => participants'[x] # None
      BY <1>8, <2>1 DEF TimePasses, TypeOK
    <2>3. \A h \in Handlers : calls[h] # None => calls[h].replica \in Replicas
      BY DEF TypeOK, Call
    <2> QED
      BY <1>8, <2>2, <2>3 DEF TimePasses, NoLostWaiter, Waiting
  <1>9. CASE Restart
    BY <1>9 DEF Restart, NoLostWaiter, Waiting
  <1>10. CASE UNCHANGED vars
    BY <1>10 DEF vars, NoLostWaiter, Waiting
  <1> QED
    BY <1>1, <1>2, <1>3, <1>4, <1>5, <1>6, <1>7, <1>8, <1>9, <1>10 DEF Next, HandlerStep

\* A quorum call that has nothing to receive is registered (NoLostWaiter):
\* no interleaving of subscription, broadcast and re-registration loses it.
THEOREM WaitersKept == Spec => []NoLostWaiter
  <1>1. Init => NoLostWaiter
    BY DEF Init, NoLostWaiter, Waiting
  <1> QED
    BY <1>1, WaiterStep, TypeCorrect, PTL DEF Spec

-----------------------------------------------------------------------------
(* One id, one set of members.  The strengthening says where ids stand: no   *)
(* known quorum is of a later incarnation, and none of this incarnation has  *)
(* an id above the current one, which is that of the previous quorum.        *)

IdInv ==
  /\ prevQuorum # None => prevQuorum.epoch = epoch /\ prevQuorum.id = quorumId
  /\ \A q \in KnownQuorums :
       /\ q.epoch <= epoch
       /\ q.epoch = epoch => q.id <= quorumId
  /\ QuorumIdNamesMembers

LEMMA KnownType == TypeOK => KnownQuorums \subseteq Quorum
  <1> SUFFICES ASSUME TypeOK, NEW q \in KnownQuorums PROVE q \in Quorum
    OBVIOUS
  <1>1. CASE \E h \in Handlers : q \in InFlight(h)
    <2> PICK h \in Handlers : q \in InFlight(h)
      BY <1>1
    <2>1. calls[h] \in Call /\ \E i \in DOMAIN calls[h].rx : q = calls[h].rx[i]
      BY DEF InFlight, TypeOK
    <2>2. calls[h].rx \in Seq(Quorum)
      BY <2>1 DEF Call
    <2> QED
      BY <2>1, <2>2
  <1>2. CASE q = prevQuorum \/ \E r \in Replicas : q = answer[r]
    BY <1>2 DEF KnownQuorums, TypeOK
  <1> QED
    BY <1>1, <1>2 DEF KnownQuorums

\* A step that issues nothing keeps the invariant.
LEMMA IdKept ==
  ASSUME TypeOK, IdInv, KnownQuorums' \subseteq KnownQuorums,
         UNCHANGED <<epoch, quorumId, prevQuorum>>
  PROVE  IdInv'
  <1>1. \A q \in KnownQuorums' : q \in KnownQuorums
    OBVIOUS
  <1>2. \A p, q \in KnownQuorums' : p.epoch = q.epoch /\ p.id = q.id => p.members = q.members
    BY <1>1 DEF IdInv, QuorumIdNamesMembers
  <1> QED
    BY <1>1, <1>2 DEF IdInv, QuorumIdNamesMembers

\* Nor does a step that makes the next quorum known.
LEMMA IdIssued ==
  ASSUME TypeOK, IdInv, NEW ps, NEW ha,
         prevQuorum' = NextQuorum(ps, ha),
         quorumId' = NextQuorumId(ps, ha),
         epoch' = epoch,
         KnownQuorums' \subseteq KnownQuorums \cup {NextQuorum(ps, ha)}
  PROVE  IdInv'
  <1> DEFINE n == NextQuorum(ps, ha)
  <1>1. /\ n.epoch = epoch
        /\ n.id = NextQuorumId(ps, ha)
        /\ n.members = Candidates(ps, ha)
    BY DEF NextQuorum
  <1>2. /\ quorumId \in Nat
        /\ epoch \in Nat
        /\ \A q \in KnownQuorums : q.epoch \in Nat /\ q.id \in Nat
    BY KnownType DEF TypeOK, Quorum
  <1>3. \/ n.id = quorumId + 1
        \/ n.id = quorumId /\ prevQuorum # None /\ n.members = prevQuorum.members
    BY <1>1 DEF NextQuorumId
  <1>4. \A q \in KnownQuorums : q.epoch <= epoch /\ (q.epoch = epoch => q.id <= quorumId)
    BY DEF IdInv
  <1>5. \A q \in KnownQuorums : q.epoch = epoch /\ q.id = n.id => q.members = n.members
    <2> SUFFICES ASSUME NEW q \in KnownQuorums, q.epoch = epoch, q.id = n.id
                 PROVE  q.members = n.members
      OBVIOUS
    <2>1. n.id = quorumId /\ prevQuorum # None /\ n.members = prevQuorum.members
      BY <1>2, <1>3, <1>4
    <2>2. prevQuorum \in KnownQuorums /\ prevQuorum.epoch = epoch /\ prevQuorum.id = quorumId
      BY <2>1 DEF IdInv, KnownQuorums
    <2> QED
      BY <2>1, <2>2 DEF IdInv, QuorumIdNamesMembers
  <1>6. QuorumIdNamesMembers'
    <2> SUFFICES ASSUME NEW p \in KnownQuorums', NEW q \in KnownQuorums',
                        p.epoch = q.epoch, p.id = q.id
                 PROVE  p.members = q.members
      BY DEF QuorumIdNamesMembers
    <2>1. CASE p = n \/ q = n
      BY <2>1, <1>1, <1>5
    <2>2. CASE p \in KnownQuorums /\ q \in KnownQuorums
      BY <2>2 DEF IdInv, QuorumIdNamesMembers
    <2> QED
      BY <2>1, <2>2
  <1>7. \A q \in KnownQuorums' : q.epoch <= epoch' /\ (q.epoch = epoch' => q.id <= quorumId')
    <2> SUFFICES ASSUME NEW q \in KnownQuorums'
                 PROVE  q.epoch <= epoch /\ (q.epoch = epoch => q.id <= n.id)
      BY <1>1
    <2>1. n.id \in Nat /\ quorumId <= n.id
      BY <1>2, <1>3
    <2>2. CASE q = n
      BY <2>2, <2>1, <1>1, <1>2
    <2>3. CASE q \in KnownQuorums
      BY <2>3, <2>1, <1>2, <1>4
    <2> QED
      BY <2>2, <2>3
  <1> QED
    BY <1>1, <1>6, <1>7 DEF IdInv

\* What is in flight after a broadcast was in flight before, or is new.
LEMMA BroadcastFlight ==
  ASSUME NEW cs \in CallsType, NEW q \in Quorum, NEW h \in Handlers,
         Broadcast(cs, q)[h] # None,
         NEW i \in DOMAIN Broadcast(cs, q)[h].rx
  PROVE  /\ cs[h] # None
         /\ \/ Broadcast(cs, q)[h].rx[i] = q
            \/ i \in DOMAIN cs[h].rx /\ Broadcast(cs, q)[h].rx[i] = cs[h].rx[i]
  <1>1. cs[h] # None /\ cs[h] \in Call
    BY DEF Broadcast, CallsType
  <1>2. cs[h].rx \in Seq(Quorum)
    BY <1>1 DEF Call
  <1>3. CASE Broadcast(cs, q)[h] = [cs[h] EXCEPT !.rx = Append(@, q)]
    <2>1. Broadcast(cs, q)[h].rx = Append(cs[h].rx, q)
      BY <1>1, <1>3 DEF Call
    <2> QED
      BY <1>1, <1>2, <2>1
  <1>4. CASE Broadcast(cs, q)[h] = [cs[h] EXCEPT !.rx = <<>>, !.lagged = TRUE]
    <2>1. Broadcast(cs, q)[h].rx = <<>>
      BY <1>1, <1>4 DEF Call
    <2> QED
      BY <2>1
  <1> QED
    BY <1>1, <1>3, <1>4 DEF Broadcast

\* The calls hold no quorum but those in flight.
OnlyInFlight(cs) ==
  \A h \in Handlers : cs[h] # None =>
    \A i \in DOMAIN cs[h].rx : cs[h].rx[i] \in InFlight(h)

LEMMA KnownKept ==
  ASSUME TypeOK, UNCHANGED <<prevQuorum, answer>>,
         \A h \in Handlers : calls'[h] # None =>
           \A i \in DOMAIN calls'[h].rx : calls'[h].rx[i] \in InFlight(h)
  PROVE  KnownQuorums' \subseteq KnownQuorums
  <1> SUFFICES ASSUME NEW q \in KnownQuorums' PROVE q \in KnownQuorums
    OBVIOUS
  <1>1. q # None
    BY DEF KnownQuorums
  <1>2. CASE \E h \in Handlers : q \in InFlight(h)'
    <2> PICK h \in Handlers : q \in InFlight(h)'
      BY <1>2
    <2>1. q \in InFlight(h)
      BY DEF InFlight
    <2> QED
      BY <1>1, <2>1 DEF KnownQuorums
  <1>3. CASE q = prevQuorum \/ \E r \in Replicas : q = answer[r]
    BY <1>1, <1>3 DEF KnownQuorums
  <1> QED
    BY <1>2, <1>3 DEF KnownQuorums

LEMMA TickKeepsIds ==
  ASSUME TypeOK, IdInv, NEW ps \in PSType, NEW ha \in HAType, NEW cs \in CallsType,
         Tick(ps, ha, cs), UNCHANGED <<epoch, answer>>, OnlyInFlight(cs)
  PROVE  IdInv'
  <1>1. CASE QuorumMet(ps, ha)
    <2> DEFINE n == NextQuorum(ps, ha)
    <2>1. /\ calls' = Broadcast(cs, n)
          /\ prevQuorum' = n
          /\ quorumId' = NextQuorumId(ps, ha)
          /\ n \in Quorum
      BY <1>1, NextQuorumType DEF Tick
    <2>2. KnownQuorums' \subseteq KnownQuorums \cup {n}
      <3> SUFFICES ASSUME NEW q \in KnownQuorums', q # n PROVE q \in KnownQuorums
        OBVIOUS
      <3>1. q # None
        BY DEF KnownQuorums
      <3>2. CASE \E h \in Handlers : q \in InFlight(h)'
        <4> PICK h \in Handlers : q \in InFlight(h)'
          BY <3>2
        <4>1. /\ Broadcast(cs, n)[h] # None
              /\ \E i \in DOMAIN Broadcast(cs, n)[h].rx : q = Broadcast(cs, n)[h].rx[i]
          BY <2>1 DEF InFlight
        <4> HIDE DEF n
        <4>2. cs[h] # None /\ \E i \in DOMAIN cs[h].rx : q = cs[h].rx[i]
          BY <2>1, <4>1, BroadcastFlight
        <4>3. q \in InFlight(h)
          BY <4>2 DEF OnlyInFlight
        <4> QED
          BY <3>1, <4>3 DEF KnownQuorums
      <3>3. CASE q = prevQuorum' \/ \E r \in Replicas : q = answer[r]
        BY <3>1, <3>3, <2>1 DEF KnownQuorums
      <3> QED
        BY <3>2, <3>3 DEF KnownQuorums
    <2> QED
      BY <2>1, <2>2, IdIssued
  <1>2. CASE ~QuorumMet(ps, ha)
    <2>1. calls' = cs /\ UNCHANGED <<quorumId, prevQuorum>>
      BY <1>2 DEF Tick
    <2>2. KnownQuorums' \subseteq KnownQuorums
      BY <2>1, KnownKept DEF OnlyInFlight
    <2> QED
      BY <2>1, <2>2, IdKept
  <1> QED
    BY <1>1, <1>2

LEMMA IdStep == TypeOK /\ IdInv /\ [Next]_vars => IdInv'
  <1> SUFFICES ASSUME TypeOK, IdInv, [Next]_vars PROVE IdInv'
    OBVIOUS
  <1> USE DEF PSType, HAType, CallsType
  <1>0. OnlyInFlight(calls)
    BY DEF OnlyInFlight, InFlight
  <1>1. ASSUME NEW h \in Handlers, NEW r \in Replicas, NEW m \in Member, QuorumRequest(h, r, m)
        PROVE  IdInv'
    <2> DEFINE cs == [calls EXCEPT ![h] = NewCall(r, m)]
    <2>1. heartAge' \in HAType
      BY <1>1, BoundsAssumption DEF TypeOK, QuorumRequest
    <2>2. Register(participants, r, m) \in PSType /\ cs \in CallsType
      BY NewCallType, RegisterType DEF TypeOK
    <2>3. NewCall(r, m).rx = <<>>
      BY DEF NewCall
    <2>4. OnlyInFlight(cs)
      BY <2>3, <1>0 DEF OnlyInFlight, TypeOK
    <2>5. Tick(Register(participants, r, m), heartAge', cs) /\ UNCHANGED <<epoch, answer>>
      BY <1>1 DEF QuorumRequest
    <2> QED
      BY <2>1, <2>2, <2>4, <2>5, TickKeepsIds
  <1>2. ASSUME NEW h \in Handlers, Receive(h)
        PROVE  IdInv'
    <2> DEFINE q == Head(calls[h].rx)
    <2>1. /\ calls[h] \in Call
          /\ calls[h].rx \in Seq(Quorum)
          /\ calls[h].rx # <<>>
          /\ calls[h] # None
      BY <1>2 DEF Receive, TypeOK, Call
    <2>2. q \in InFlight(h)
      <3>1. 1 \in DOMAIN calls[h].rx /\ q = calls[h].rx[1]
        BY <2>1
      <3> QED
        BY <3>1, <2>1 DEF InFlight
    <2>3. \A i \in DOMAIN Tail(calls[h].rx) : Tail(calls[h].rx)[i] \in InFlight(h)
      <3>1. \A i \in DOMAIN Tail(calls[h].rx) :
              i + 1 \in DOMAIN calls[h].rx /\ Tail(calls[h].rx)[i] = calls[h].rx[i + 1]
        BY <2>1
      <3> QED
        BY <3>1, <2>1 DEF InFlight
    <2>4. \A g \in Handlers : calls'[g] # None =>
            \A i \in DOMAIN calls'[g].rx : calls'[g].rx[i] \in InFlight(g)
      <3>1. [calls[h] EXCEPT !.pc = "reinsert", !.rx = Tail(@)].rx = Tail(calls[h].rx)
        BY <2>1 DEF Call
      <3>2. \/ calls' = [calls EXCEPT ![h] = None]
            \/ calls' = [calls EXCEPT ![h] = [calls[h] EXCEPT !.pc = "reinsert", !.rx = Tail(@)]]
        BY <1>2, <2>1 DEF Receive, TypeOK
      <3> QED
        BY <3>1, <3>2, <2>3, <1>0 DEF OnlyInFlight, TypeOK
    <2>5. answer' = answer \/ answer' = [answer EXCEPT ![calls[h].replica] = q]
      BY <1>2 DEF Receive
    <2>6. KnownQuorums' \subseteq KnownQuorums
      <3> SUFFICES ASSUME NEW p \in KnownQuorums' PROVE p \in KnownQuorums
        OBVIOUS
      <3>1. p # None
        BY DEF KnownQuorums
      <3>2. CASE \E g \in Handlers : p \in InFlight(g)'
        <4> PICK g \in Handlers : p \in InFlight(g)'
          BY <3>2
        <4>1. p \in InFlight(g)
          BY <2>4 DEF InFlight
        <4> QED
          BY <3>1, <4>1 DEF KnownQuorums
      <3>3. CASE p = prevQuorum' \/ \E r \in Replicas : p = answer'[r]
        <4>1. prevQuorum' = prevQuorum
          BY <1>2 DEF Receive
        <4>2. p = prevQuorum \/ p = q \/ \E r \in Replicas : p = answer[r]
          BY <3>3, <4>1, <2>5 DEF TypeOK
        <4> QED
          BY <3>1, <4>2, <2>2 DEF KnownQuorums
      <3> QED
        BY <3>2, <3>3 DEF KnownQuorums
    <2> QED
      BY <1>2, <2>6, IdKept DEF Receive
  <1>3. ASSUME NEW h \in Handlers, ReceiveLagged(h) \/ DropCall(h)
        PROVE  IdInv'
    <2>1. /\ calls' = [calls EXCEPT ![h] = None]
          /\ UNCHANGED <<epoch, quorumId, prevQuorum, answer>>
      BY <1>3 DEF ReceiveLagged, DropCall
    <2>2. KnownQuorums' \subseteq KnownQuorums
      BY <2>1, <1>0, KnownKept DEF OnlyInFlight, TypeOK
    <2> QED
      BY <2>1, <2>2, IdKept
  <1>4. ASSUME NEW h \in Handlers, Reinsert(h) \/ Abandon(h)
        PROVE  IdInv'
    <2>1. /\ calls[h] \in Call
          /\ calls[h] # None
          /\ \/ calls' = [calls EXCEPT ![h] = [calls[h] EXCEPT !.pc = "recv"]]
             \/ calls' = [calls EXCEPT ![h] = [calls[h] EXCEPT !.live = FALSE]]
          /\ UNCHANGED <<epoch, quorumId, prevQuorum, answer>>
      BY <1>4 DEF Reinsert, Abandon, TypeOK
    <2>2. /\ [calls[h] EXCEPT !.pc = "recv"].rx = calls[h].rx
          /\ [calls[h] EXCEPT !.live = FALSE].rx = calls[h].rx
      BY <2>1 DEF Call
    <2>3. /\ calls'[h].rx = calls[h].rx
          /\ \A g \in Handlers \ {h} : calls'[g] = calls[g]
      BY <2>1, <2>2 DEF TypeOK
    <2>4. KnownQuorums' \subseteq KnownQuorums
      BY <2>1, <2>3, <1>0, KnownKept DEF OnlyInFlight
    <2> QED
      BY <2>1, <2>4, IdKept
  <1>5. ASSUME NEW r \in Replicas, Heartbeat(r)
        PROVE  IdInv'
    BY <1>5, <1>0, KnownKept, IdKept DEF Heartbeat, OnlyInFlight
  <1>6. CASE QuorumTick
    BY <1>6, <1>0, TickKeepsIds DEF QuorumTick, TypeOK
  <1>7. CASE TimePasses
    BY <1>7, <1>0, KnownKept, IdKept DEF TimePasses, OnlyInFlight
  <1>8. CASE Restart
    <2>1. KnownQuorums' \subseteq KnownQuorums
      BY <1>8 DEF Restart, KnownQuorums, InFlight
    <2>2. epoch' = epoch + 1 /\ epoch \in Nat /\ prevQuorum' = None
      BY <1>8 DEF Restart, TypeOK
    <2>3. \A q \in KnownQuorums : q.epoch \in Nat /\ q.epoch <= epoch
      BY KnownType DEF Quorum, IdInv
    <2>4. \A q \in KnownQuorums' : q.epoch <= epoch' /\ q.epoch # epoch'
      BY <2>1, <2>2, <2>3
    <2>5. QuorumIdNamesMembers'
      BY <2>1 DEF IdInv, QuorumIdNamesMembers
    <2> QED
      BY <2>2, <2>4, <2>5 DEF IdInv
  <1>9. CASE UNCHANGED vars
    BY <1>9, <1>0, KnownKept, IdKept DEF vars, OnlyInFlight
  <1> QED
    BY <1>1, <1>2, <1>3, <1>4, <1>5, <1>6, <1>7, <1>8, <1>9 DEF Next, HandlerStep

\* Within one incarnation of the server an id names one set of members
\* (QuorumIdNamesMembers), over every quorum in use, in flight or answered.
THEOREM IdsNameMembers == Spec => []QuorumIdNamesMembers
  <1>1. Init => IdInv
    BY DEF Init, IdInv, QuorumIdNamesMembers, KnownQuorums, InFlight
  <1>2. IdInv => QuorumIdNamesMembers
    BY DEF IdInv
  <1> QED
    BY <1>1, <1>2, IdStep, TypeCorrect, PTL DEF Spec

-----------------------------------------------------------------------------
(* The size of a quorum.  Without shrink_only the fast path, which never     *)
(* looks at min_replicas, only ever enlarges a quorum that was large enough. *)

LEMMA TickLargeEnough ==
  ASSUME ShrinkInputs \subseteq {FALSE}, TypeOK, QuorumLargeEnough,
         NEW ps \in PSType, NEW ha \in HAType, NEW cs, Tick(ps, ha, cs)
  PROVE  QuorumLargeEnough'
  <1> DEFINE hp == HealthyParticipants(ps, ha)
  <1>1. hp \subseteq Replicas /\ IsFiniteSet(hp)
    BY ReplicasAssumption, FS_Subset DEF HealthyParticipants, Healthy
  <1>2. ~ShrinkOnly(ps, ha)
    <2>1. ASSUME NEW r \in hp PROVE ps[r].member.shrink_only = FALSE
      <3>1. ps[r] \in Details
        BY DEF PSType, HealthyParticipants, Healthy
      <3> QED
        BY <3>1 DEF Details, Member
    <2> QED
      BY <2>1 DEF ShrinkOnly
  <1>3. Candidates(ps, ha) = hp
    BY <1>2 DEF Candidates
  <1>4. CASE QuorumMet(ps, ha)
    <2>1. prevQuorum'.members = hp
      BY <1>3, <1>4 DEF Tick, NextQuorum
    <2>2. CASE FastQuorum(ps, ha)
      <3>1. prevQuorum # None /\ prevQuorum.members \subseteq hp
        BY <2>2 DEF FastQuorum
      <3>2. Cardinality(prevQuorum.members) <= Cardinality(hp)
        BY <3>1, <1>1, FS_Subset
      <3>3. Cardinality(prevQuorum.members) >= MinReplicas
        BY <3>1 DEF QuorumLargeEnough
      <3>4. /\ Cardinality(hp) \in Nat
            /\ Cardinality(prevQuorum.members) \in Nat
            /\ MinReplicas \in Nat
        BY <1>1, <3>1, FS_Subset, FS_CardinalityType, BoundsAssumption
      <3> HIDE DEF hp
      <3>5. Cardinality(hp) >= MinReplicas
        BY <3>2, <3>3, <3>4
      <3> QED
        BY <2>1, <3>5 DEF QuorumLargeEnough
    <2>3. CASE ~FastQuorum(ps, ha)
      BY <1>4, <2>1, <2>3 DEF QuorumMet, QuorumLargeEnough
    <2> QED
      BY <2>2, <2>3
  <1>5. CASE ~QuorumMet(ps, ha)
    BY <1>5 DEF Tick, QuorumLargeEnough
  <1> QED
    BY <1>4, <1>5

LEMMA LargeEnoughStep ==
  ASSUME ShrinkInputs \subseteq {FALSE}
  PROVE  TypeOK /\ QuorumLargeEnough /\ [Next]_vars => QuorumLargeEnough'
  <1> SUFFICES ASSUME TypeOK, QuorumLargeEnough, [Next]_vars PROVE QuorumLargeEnough'
    OBVIOUS
  <1>1. ASSUME NEW h \in Handlers, NEW r \in Replicas, NEW m \in Member, QuorumRequest(h, r, m)
        PROVE  QuorumLargeEnough'
    <2>1. heartAge' \in HAType
      BY <1>1, BoundsAssumption DEF TypeOK, QuorumRequest, HAType
    <2>2. Register(participants, r, m) \in PSType
      BY RegisterType DEF TypeOK, PSType
    <2>3. Tick(Register(participants, r, m), heartAge', [calls EXCEPT ![h] = NewCall(r, m)])
      BY <1>1 DEF QuorumRequest
    <2> QED
      BY <2>1, <2>2, <2>3, TickLargeEnough
  <1>2. CASE QuorumTick
    BY <1>2, TickLargeEnough DEF QuorumTick, TypeOK, PSType, HAType
  <1>3. ASSUME prevQuorum' \in {prevQuorum, None}
        PROVE  QuorumLargeEnough'
    BY <1>3 DEF QuorumLargeEnough
  <1> QED
    BY <1>1, <1>2, <1>3
    DEF Next, HandlerStep, Receive, ReceiveLagged, Reinsert, Abandon, DropCall, Heartbeat,
        TimePasses, Restart, vars

\* While no request asks to shrink, every quorum has min_replicas members
\* (QuorumLargeEnough); with shrink_only it need not.
THEOREM QuorumsLargeEnough ==
  ASSUME ShrinkInputs \subseteq {FALSE}
  PROVE  Spec => []QuorumLargeEnough
  <1>1. Init => QuorumLargeEnough
    BY DEF Init, QuorumLargeEnough
  <1>2. TypeOK /\ QuorumLargeEnough /\ [Next]_vars => QuorumLargeEnough'
    BY LargeEnoughStep
  <1> QED
    BY <1>1, <1>2, TypeCorrect, PTL DEF Spec

-----------------------------------------------------------------------------
(* Order.  What a call is to receive was issued by this incarnation of the   *)
(* server, oldest first and none older than the answer its replica holds;    *)
(* the one live call of a replica is the only one that can answer it.        *)

Holds(r) == answer[r] # None /\ answer[r].epoch = epoch

\* Two calls of a replica: one of them at least was abandoned.
CallsAlone(cs) ==
  \A g, h \in Handlers :
    g # h /\ cs[g] # None /\ cs[h] # None /\ cs[g].replica = cs[h].replica =>
      Overlapping /\ ~(cs[g].live /\ cs[h].live)

\* Position i of what call c is to receive.
FlightFits(c, i) ==
  /\ ~c.lagged
  /\ c.rx[i].epoch = epoch /\ c.rx[i].id <= quorumId
  /\ \A j \in DOMAIN c.rx : i <= j => c.rx[i].id <= c.rx[j].id
  /\ c.live /\ Holds(c.replica) => answer[c.replica].id <= c.rx[i].id

FlightsInOrder(cs) ==
  \A h \in Handlers : cs[h] # None => \A i \in DOMAIN cs[h].rx : FlightFits(cs[h], i)

OrderInv == CallsAlone(calls) /\ FlightsInOrder(calls)

\* A registration is that of the replica's call, and what a call that reports a failure
\* is to receive, in a quorum with its replica, is newer than the replica's answer.
FailuresFit(ps, cs) ==
  \A h \in Handlers : cs[h] # None =>
    /\ ps[cs[h].replica] # None => ps[cs[h].replica].member = cs[h].member
    /\ cs[h].live /\ cs[h].member.commit_failures > 0 /\ Holds(cs[h].replica) =>
         \A i \in DOMAIN cs[h].rx :
           cs[h].replica \in cs[h].rx[i].members => answer[cs[h].replica].id < cs[h].rx[i].id

\* Later(c, d): call d is call c after a step that hands it nothing new; it may have
\* received its first quorum.
Later(c, d) ==
  /\ d.replica = c.replica /\ d.member = c.member /\ (d.live => c.live) /\ d.lagged = c.lagged
  /\ \E k \in {0, 1} : \A i \in DOMAIN d.rx : i + k \in DOMAIN c.rx /\ d.rx[i] = c.rx[i + k]

\* What is known about the numbers and quorums in a state with the types.
LEMMA IdTypes ==
  ASSUME TypeOK, IdInv
  PROVE  /\ epoch \in Nat /\ quorumId \in Nat
         /\ \A h \in Handlers : calls[h] # None =>
              /\ calls[h] \in Call /\ calls[h].replica \in Replicas /\ calls[h].member \in Member
              /\ calls[h].rx \in Seq(Quorum) /\ DOMAIN calls[h].rx \subseteq Nat
              /\ \A i \in DOMAIN calls[h].rx : calls[h].rx[i] \in Quorum /\ calls[h].rx[i].id \in Nat
         /\ \A r \in Replicas : answer[r] # None => answer[r] \in Quorum /\ answer[r].id \in Nat
         /\ \A r \in Replicas : Holds(r) => answer[r].id <= quorumId
         /\ prevQuorum # None => prevQuorum.id = quorumId
  <1>1. epoch \in Nat /\ quorumId \in Nat
    BY DEF TypeOK
  <1>2. ASSUME NEW h \in Handlers, calls[h] # None
        PROVE  /\ calls[h] \in Call /\ calls[h].replica \in Replicas /\ calls[h].member \in Member
               /\ calls[h].rx \in Seq(Quorum) /\ DOMAIN calls[h].rx \subseteq Nat
               /\ \A i \in DOMAIN calls[h].rx : calls[h].rx[i] \in Quorum /\ calls[h].rx[i].id \in Nat
    <2>1. calls[h] \in Call
      BY <1>2 DEF TypeOK
    <2>2. calls[h].rx \in Seq(Quorum) /\ calls[h].replica \in Replicas /\ calls[h].member \in Member
      BY <2>1 DEF Call
    <2>3. DOMAIN calls[h].rx \subseteq Nat /\ \A i \in DOMAIN calls[h].rx : calls[h].rx[i] \in Quorum
      BY <2>2
    <2> QED
      BY <2>1, <2>2, <2>3 DEF Quorum
  <1>3. \A r \in Replicas : answer[r] # None => answer[r] \in Quorum /\ answer[r].id \in Nat
    BY DEF TypeOK, Quorum
  <1>4. \A r \in Replicas : Holds(r) => answer[r].id <= quorumId
    BY DEF Holds, IdInv, KnownQuorums
  <1>5. prevQuorum # None => prevQuorum.id = quorumId
    BY DEF IdInv
  <1> QED
    BY <1>1, <1>2, <1>3, <1>4, <1>5

\* A step that issues and answers nothing keeps the order.
LEMMA OrderKept ==
  ASSUME TypeOK, TypeOK', OrderInv, UNCHANGED <<epoch, quorumId, answer>>,
         \A h \in Handlers : calls'[h] # None => calls[h] # None /\ Later(calls[h], calls'[h])
  PROVE  OrderInv'
  <1>1. CallsAlone(calls)'
    BY DEF OrderInv, CallsAlone, Later
  <1>2. ASSUME NEW h \in Handlers, calls'[h] # None, NEW d, d = calls'[h], NEW i \in DOMAIN d.rx
        PROVE  FlightFits(d, i)'
    <2>1. calls[h] # None /\ Later(calls[h], d)
      BY <1>2
    <2>2. PICK k \in {0, 1} : \A j \in DOMAIN d.rx :
             j + k \in DOMAIN calls[h].rx /\ d.rx[j] = calls[h].rx[j + k]
      BY <2>1 DEF Later
    <2>3. FlightFits(calls[h], i + k)
      BY <2>1, <2>2 DEF OrderInv, FlightsInOrder
    <2>4. \A j \in DOMAIN d.rx : i <= j => d.rx[i].id <= d.rx[j].id
      <3> SUFFICES ASSUME NEW j \in DOMAIN d.rx, i <= j
                   PROVE  d.rx[i].id <= d.rx[j].id
        OBVIOUS
      <3>1. i \in Nat /\ j \in Nat
        <4>1. d.rx \in Seq(Quorum)
          BY <1>2 DEF TypeOK, Call
        <4> QED
          BY <4>1
      <3>2. i + k <= j + k
        BY <3>1
      <3> QED
        BY <2>2, <2>3, <3>2 DEF FlightFits
    <2> QED
      BY <1>2, <2>1, <2>2, <2>3, <2>4 DEF FlightFits, Later, Holds
  <1> QED
    BY <1>1, <1>2 DEF OrderInv, FlightsInOrder

\* A broadcast keeps the calls, and adds the quorum after what they are to receive, or
\* makes them lag.
LEMMA BroadcastGrows ==
  ASSUME NEW cs \in CallsType, NEW q \in Quorum, NEW h \in Handlers, NEW c, NEW d,
         c = cs[h], d = Broadcast(cs, q)[h], d # None
  PROVE  /\ c # None /\ c \in Call /\ c.rx \in Seq(Quorum) /\ d.rx \in Seq(Quorum)
         /\ d.replica = c.replica /\ d.member = c.member /\ d.live = c.live
         /\ \/ /\ ~d.lagged /\ d.rx = Append(c.rx, q)
            \/ /\ d.rx = <<>>
  <1>1. c # None /\ c \in Call
    BY DEF Broadcast, CallsType
  <1>2. c.rx \in Seq(Quorum) /\ Append(c.rx, q) \in Seq(Quorum) /\ <<>> \in Seq(Quorum)
    <2>1. c.rx \in Seq(Quorum)
      BY <1>1 DEF Call
    <2> QED
      BY <2>1
  <1>3. CASE Len(c.rx) < ChannelCap /\ ~c.lagged
    <2>1. d = [c EXCEPT !.rx = Append(@, q)]
      BY <1>1, <1>3 DEF Broadcast
    <2> QED
      BY <1>1, <1>2, <1>3, <2>1 DEF Call
  <1>4. CASE ~(Len(c.rx) < ChannelCap /\ ~c.lagged)
    <2>1. d = [c EXCEPT !.rx = <<>>, !.lagged = TRUE]
      BY <1>1, <1>4 DEF Broadcast
    <2> QED
      BY <1>1, <1>2, <1>4, <2>1 DEF Call
  <1> QED
    BY <1>3, <1>4

\* What is at a position after a quorum was appended.
LEMMA AppendAt ==
  ASSUME NEW s \in Seq(Quorum), NEW q \in Quorum
  PROVE  /\ DOMAIN s \subseteq Nat /\ DOMAIN Append(s, q) \subseteq Nat
         /\ \A i \in DOMAIN s : s[i] \in Quorum /\ s[i].id \in Nat
         /\ \A i \in DOMAIN Append(s, q) :
              \/ i \in DOMAIN s /\ Append(s, q)[i] = s[i]
              \/ /\ Append(s, q)[i] = q
                 /\ \A j \in DOMAIN Append(s, q) : j <= i
  <1>1. \A i \in DOMAIN s : s[i] \in Quorum
    OBVIOUS
  <1> QED
    BY <1>1, SMTT(20) DEF Quorum

\* A tick keeps the order: the quorum it issues is the newest.
LEMMA OrderTick ==
  ASSUME TypeOK, IdInv, NEW ps \in PSType, NEW ha \in HAType, NEW cs \in CallsType,
         Tick(ps, ha, cs), UNCHANGED <<epoch, answer>>, CallsAlone(cs), FlightsInOrder(cs)
  PROVE  OrderInv'
  <1>1. CASE ~QuorumMet(ps, ha)
    <2>1. calls' = cs /\ quorumId' = quorumId
      BY <1>1 DEF Tick
    <2> QED
      BY <2>1 DEF OrderInv, CallsAlone, FlightsInOrder, FlightFits, Holds
  <1>2. CASE QuorumMet(ps, ha)
    <2> DEFINE n == NextQuorum(ps, ha)
    <2>1. /\ calls' = Broadcast(cs, n) /\ quorumId' = n.id /\ n \in Quorum /\ n.epoch = epoch
          /\ n.id \in Nat /\ quorumId \in Nat /\ quorumId <= n.id
      <3>1. calls' = Broadcast(cs, n) /\ quorumId' = NextQuorumId(ps, ha) /\ n \in Quorum
            /\ NextQuorumId(ps, ha) \in Nat /\ quorumId \in Nat
        BY <1>2, NextQuorumType DEF Tick, TypeOK
      <3>2. n.epoch = epoch /\ n.id = NextQuorumId(ps, ha)
        BY DEF NextQuorum
      <3>3. quorumId <= NextQuorumId(ps, ha)
        BY <3>1 DEF NextQuorumId
      <3> QED
        BY <3>1, <3>2, <3>3
    <2> HIDE DEF n
    <2>2. \A r \in Replicas : Holds(r) => answer[r].id <= quorumId /\ answer[r].id \in Nat
      BY IdTypes DEF Holds
    <2>3. CallsAlone(calls)'
      <3> SUFFICES ASSUME NEW g \in Handlers, NEW h \in Handlers, g # h, calls'[g] # None, calls'[h] # None,
                          calls'[g].replica = calls'[h].replica
                   PROVE  Overlapping /\ ~(calls'[g].live /\ calls'[h].live)
        BY DEF CallsAlone
      <3>1. /\ cs[g] # None /\ calls'[g].replica = cs[g].replica /\ calls'[g].live = cs[g].live
            /\ cs[h] # None /\ calls'[h].replica = cs[h].replica /\ calls'[h].live = cs[h].live
        BY <2>1, BroadcastGrows
      <3> QED
        BY <3>1 DEF CallsAlone
    <2>4. ASSUME NEW h \in Handlers, calls'[h] # None, NEW d, d = calls'[h], NEW i \in DOMAIN d.rx
          PROVE  FlightFits(d, i)'
      <3> DEFINE c == cs[h]
      <3>1. /\ c # None /\ c \in Call /\ c.rx \in Seq(Quorum) /\ d.replica = c.replica /\ d.live = c.live
            /\ ~d.lagged /\ d.rx = Append(c.rx, n)
        BY <2>1, <2>4, BroadcastGrows, SMTT(20)
      <3>2. c.replica \in Replicas
        BY <3>1 DEF Call
      <3>3. \A j \in DOMAIN c.rx : FlightFits(c, j) /\ c.rx[j].id \in Nat /\ c.rx[j].id <= n.id
                                   /\ c.rx[j].id <= quorumId
        <4>1. \A j \in DOMAIN c.rx : FlightFits(c, j) /\ c.rx[j].id \in Nat
          BY <2>1, <3>1, AppendAt DEF FlightsInOrder
        <4>2. \A j \in DOMAIN c.rx : c.rx[j].id <= quorumId
          BY <4>1 DEF FlightFits
        <4> QED
          BY <2>1, <4>1, <4>2
      <3> HIDE DEF c
      <3>4. \A j \in DOMAIN d.rx : \/ j \in DOMAIN c.rx /\ d.rx[j] = c.rx[j]
                                   \/ d.rx[j] = n /\ \A k \in DOMAIN d.rx : k <= j
        BY <2>1, <3>1, AppendAt
      <3>5. DOMAIN d.rx \subseteq Nat
        BY <2>1, <3>1, AppendAt
      <3>6. n.id <= n.id
        BY <2>1
      <3>7. CASE i \in DOMAIN c.rx /\ d.rx[i] = c.rx[i]
        <4>1. \A j \in DOMAIN d.rx : i <= j => d.rx[i].id <= d.rx[j].id
          BY <3>3, <3>4, <3>7 DEF FlightFits
        <4>2. d.rx[i].epoch = epoch /\ d.rx[i].id <= quorumId'
          BY <2>1, <3>3, <3>7 DEF FlightFits
        <4>3. d.live /\ Holds(d.replica) => answer[d.replica].id <= d.rx[i].id
          BY <3>1, <3>3, <3>7 DEF FlightFits
        <4> QED
          BY <3>1, <4>1, <4>2, <4>3 DEF FlightFits, Holds
      <3>8. CASE d.rx[i] = n /\ \A k \in DOMAIN d.rx : k <= i
        <4>1. \A j \in DOMAIN d.rx : i <= j => j = i
          BY <3>5, <3>8
        <4>2. Holds(d.replica) => answer[d.replica].id <= n.id
          BY <2>1, <2>2, <3>1, <3>2
        <4> QED
          BY <2>1, <3>1, <3>6, <3>8, <4>1, <4>2 DEF FlightFits, Holds
      <3> QED
        BY <3>4, <3>7, <3>8
    <2> QED
      BY <2>3, <2>4 DEF OrderInv, FlightsInOrder
  <1> QED
    BY <1>1, <1>2

\* A request that may be made is alone, and nothing is on its way to it.
LEMMA RequestInOrder ==
  ASSUME TypeOK, OrderInv, NEW h \in Handlers, NEW r \in Replicas, NEW m \in Member,
         calls[h] = None, MayCall(r)
  PROVE  LET cs == [calls EXCEPT ![h] = NewCall(r, m)]
         IN  cs \in CallsType /\ CallsAlone(cs) /\ FlightsInOrder(cs)
  <1> DEFINE cs == [calls EXCEPT ![h] = NewCall(r, m)]
  <1>1. /\ cs \in CallsType /\ cs[h] = NewCall(r, m)
        /\ \A g \in Handlers : g # h => cs[g] = calls[g]
    BY NewCallType DEF TypeOK, CallsType
  <1>2. NewCall(r, m).replica = r /\ NewCall(r, m).rx = <<>> /\ NewCall(r, m).live = TRUE
    BY DEF NewCall
  <1> HIDE DEF cs
  <1>3. CallsAlone(cs)
    BY <1>1, <1>2 DEF OrderInv, CallsAlone, MayCall
  <1>4. FlightsInOrder(cs)
    BY <1>1, <1>2 DEF OrderInv, FlightsInOrder
  <1> QED
    BY <1>1, <1>3, <1>4 DEF cs

\* A receive, seen from the calls: one that gets its answer ends, the others of its replica
\* were abandoned.
LEMMA ReceiveCalls ==
  ASSUME TypeOK, NEW h \in Handlers, Receive(h)
  PROVE  /\ calls[h] # None /\ calls[h].replica \in Replicas /\ 1 \in DOMAIN calls[h].rx
         /\ \A g \in Handlers : g # h => calls'[g] = calls[g]
         /\ \/ /\ calls'[h] = None /\ calls[h].replica \in calls[h].rx[1].members
               /\ answer' = IF calls[h].live THEN [answer EXCEPT ![calls[h].replica] = calls[h].rx[1]]
                            ELSE answer
            \/ /\ calls'[h] # None /\ Later(calls[h], calls'[h]) /\ answer' = answer
               /\ calls[h].replica \notin calls[h].rx[1].members
  <1>1. /\ calls[h] # None /\ calls[h] \in Call /\ calls[h].rx # <<>>
    BY DEF Receive, TypeOK
  <1>2. calls[h].replica \in Replicas /\ calls[h].rx \in Seq(Quorum)
    BY <1>1 DEF Call
  <1>3. /\ 1 \in DOMAIN calls[h].rx /\ Head(calls[h].rx) = calls[h].rx[1] /\ Tail(calls[h].rx) \in Seq(Quorum)
        /\ \A i \in DOMAIN Tail(calls[h].rx) :
             i + 1 \in DOMAIN calls[h].rx /\ Tail(calls[h].rx)[i] = calls[h].rx[i + 1]
    BY <1>1, <1>2
  <1>4. CASE calls[h].replica \in Head(calls[h].rx).members
    <2>1. /\ calls' = [calls EXCEPT ![h] = None]
          /\ answer' = IF calls[h].live THEN [answer EXCEPT ![calls[h].replica] = Head(calls[h].rx)] ELSE answer
      BY <1>4 DEF Receive
    <2>2. calls'[h] = None /\ \A g \in Handlers : g # h => calls'[g] = calls[g]
      BY <2>1 DEF TypeOK
    <2> QED
      BY <1>1, <1>2, <1>3, <1>4, <2>1, <2>2
  <1>5. CASE calls[h].replica \notin Head(calls[h].rx).members
    <2> DEFINE d == [calls[h] EXCEPT !.pc = "reinsert", !.rx = Tail(@)]
    <2>1. calls' = [calls EXCEPT ![h] = d] /\ answer' = answer
      BY <1>1, <1>5 DEF Receive, TypeOK
    <2>2. calls'[h] = d /\ \A g \in Handlers : g # h => calls'[g] = calls[g]
      BY <2>1 DEF TypeOK
    <2>3. /\ d.replica = calls[h].replica /\ d.member = calls[h].member /\ d.live = calls[h].live
          /\ d.lagged = calls[h].lagged /\ d.rx = Tail(calls[h].rx)
      BY <1>1 DEF Call
    <2>4. d \in Call
      BY <1>1, <1>2, <1>3 DEF Call
    <2>5. Later(calls[h], d)
      <3>1. \A i \in DOMAIN d.rx : i + 1 \in DOMAIN calls[h].rx /\ d.rx[i] = calls[h].rx[i + 1]
        BY <1>3, <2>3
      <3> HIDE DEF d
      <3> QED
        BY <2>3, <3>1 DEF Later
    <2>6. d # None
      BY <2>4, NoneAssumption
    <2> HIDE DEF d
    <2> QED
      BY <1>1, <1>2, <1>3, <1>5, <2>1, <2>2, <2>5, <2>6
  <1> QED
    BY <1>4, <1>5

\* What every call is after a step that neither ticks, receives nor restarts.
LEMMA QuietCalls ==
  ASSUME TypeOK,
         \/ \E h \in Handlers : ReceiveLagged(h) \/ Reinsert(h) \/ Abandon(h) \/ DropCall(h)
         \/ \E r \in Replicas : Heartbeat(r)
         \/ TimePasses
         \/ UNCHANGED vars
  PROVE  /\ UNCHANGED <<epoch, quorumId, prevQuorum, answer>>
         /\ \A h \in Handlers : calls'[h] # None =>
              calls[h] # None /\ Later(calls[h], calls'[h]) /\ calls'[h].rx = calls[h].rx
  <1>1. \A c \in Call : /\ Later(c, c)
                        /\ Later(c, [c EXCEPT !.pc = "recv"]) /\ [c EXCEPT !.pc = "recv"].rx = c.rx
                        /\ Later(c, [c EXCEPT !.live = FALSE]) /\ [c EXCEPT !.live = FALSE].rx = c.rx
    <2> SUFFICES ASSUME NEW c \in Call
                 PROVE  /\ Later(c, c)
                        /\ Later(c, [c EXCEPT !.pc = "recv"]) /\ [c EXCEPT !.pc = "recv"].rx = c.rx
                        /\ Later(c, [c EXCEPT !.live = FALSE]) /\ [c EXCEPT !.live = FALSE].rx = c.rx
      OBVIOUS
    <2>1. c.rx \in Seq(Quorum)
      BY DEF Call
    <2>2. \A i \in DOMAIN c.rx : i + 0 \in DOMAIN c.rx /\ c.rx[i] = c.rx[i + 0]
      BY <2>1
    <2> QED
      BY <2>2 DEF Later, Call
  <1>2. \A h \in Handlers : calls[h] # None => calls[h] \in Call
    BY DEF TypeOK
  <1>3. ASSUME NEW h \in Handlers,
               \/ calls' = [calls EXCEPT ![h] = None]
               \/ calls[h] # None /\ calls' = [calls EXCEPT ![h] = [calls[h] EXCEPT !.pc = "recv"]]
               \/ calls[h] # None /\ calls' = [calls EXCEPT ![h] = [calls[h] EXCEPT !.live = FALSE]]
        PROVE  \A g \in Handlers : calls'[g] # None =>
                  calls[g] # None /\ Later(calls[g], calls'[g]) /\ calls'[g].rx = calls[g].rx
    <2> SUFFICES ASSUME NEW g \in Handlers, calls'[g] # None
                 PROVE  calls[g] # None /\ Later(calls[g], calls'[g]) /\ calls'[g].rx = calls[g].rx
      OBVIOUS
    <2>1. CASE g # h
      <3>1. calls'[g] = calls[g]
        BY <1>3, <2>1 DEF TypeOK
      <3>2. calls[g] \in Call
        BY <1>2, <3>1
      <3> QED
        BY <1>1, <3>1, <3>2
    <2>2. CASE g = h
      <3>1. calls[h] # None /\ calls'[h] \in {[calls[h] EXCEPT !.pc = "recv"],
                                              [calls[h] EXCEPT !.live = FALSE]}
        BY <1>3, <2>2 DEF TypeOK
      <3>2. calls[h] \in Call
        BY <1>2, <3>1
      <3> QED
        BY <1>1, <2>2, <3>1, <3>2
    <2> QED
      BY <2>1, <2>2
  <1>4. CASE \E h \in Handlers : ReceiveLagged(h) \/ Reinsert(h) \/ Abandon(h) \/ DropCall(h)
    <2> PICK h \in Handlers : ReceiveLagged(h) \/ Reinsert(h) \/ Abandon(h) \/ DropCall(h)
      BY <1>4
    <2>1. /\ UNCHANGED <<epoch, quorumId, prevQuorum, answer>>
          /\ \/ calls' = [calls EXCEPT ![h] = None]
             \/ calls[h] # None /\ calls' = [calls EXCEPT ![h] = [calls[h] EXCEPT !.pc = "recv"]]
             \/ calls[h] # None /\ calls' = [calls EXCEPT ![h] = [calls[h] EXCEPT !.live = FALSE]]
      BY DEF ReceiveLagged, Reinsert, Abandon, DropCall
    <2> QED
      BY <1>3, <2>1
  <1>5. CASE (\E r \in Replicas : Heartbeat(r)) \/ TimePasses \/ UNCHANGED vars
    <2>1. UNCHANGED <<epoch, quorumId, prevQuorum, answer, calls>>
      BY <1>5 DEF Heartbeat, TimePasses, vars
    <2> QED
      BY <1>1, <1>2, <2>1
  <1> QED
    BY <1>4, <1>5

LEMMA OrderStep == TypeOK /\ IdInv /\ OrderInv /\ [Next]_vars => OrderInv'
  <1> SUFFICES ASSUME TypeOK, IdInv, OrderInv, [Next]_vars PROVE OrderInv'
    OBVIOUS
  <1>0. TypeOK'
    BY TypeStep
  <1>1. ASSUME NEW h \in Handlers, NEW r \in Replicas, NEW m \in Member, QuorumRequest(h, r, m)
        PROVE  OrderInv'
    <2>1. Register(participants, r, m) \in PSType /\ heartAge' \in HAType
      BY <1>0, RegisterType DEF TypeOK, PSType, HAType
    <2>2. /\ calls[h] = None /\ MayCall(r) /\ UNCHANGED <<epoch, answer>>
          /\ Tick(Register(participants, r, m), heartAge', [calls EXCEPT ![h] = NewCall(r, m)])
      BY <1>1 DEF QuorumRequest
    <2> QED
      BY <2>1, <2>2, RequestInOrder, OrderTick
  <1>2. ASSUME NEW h \in Handlers, Receive(h) PROVE OrderInv'
    <2>1. UNCHANGED <<epoch, quorumId>>
      BY <1>2 DEF Receive
    <2>2. \A c \in Call : Later(c, c)
      <3> SUFFICES ASSUME NEW c \in Call PROVE Later(c, c)
        OBVIOUS
      <3>1. c.rx \in Seq(Quorum)
        BY DEF Call
      <3>2. \A i \in DOMAIN c.rx : i + 0 \in DOMAIN c.rx /\ c.rx[i] = c.rx[i + 0]
        BY <3>1
      <3> QED
        BY <3>2 DEF Later
    <2>3. \A g \in Handlers : calls'[g] # None => calls[g] # None /\ Later(calls[g], calls'[g])
      BY <1>2, <2>2, ReceiveCalls DEF TypeOK
    <2>4. CASE answer' = answer
      BY <1>0, <2>1, <2>3, <2>4, OrderKept
    <2>5. CASE answer' # answer
      <3>1. /\ calls'[h] = None /\ calls[h] # None /\ calls[h].live
            /\ \A g \in Handlers : g # h => calls'[g] = calls[g]
            /\ \A r : r # calls[h].replica => (answer'[r] = answer[r])
        <4>1. answer' = [answer EXCEPT ![calls[h].replica] = calls[h].rx[1]] /\ calls[h].live
              /\ calls'[h] = None /\ calls[h] # None /\ calls[h].replica \in Replicas
              /\ \A g \in Handlers : g # h => calls'[g] = calls[g]
          BY <1>2, <2>5, ReceiveCalls
        <4> QED
          BY <4>1 DEF TypeOK
      <3>2. CallsAlone(calls)'
        BY <3>1 DEF OrderInv, CallsAlone
      <3>3. \A g \in Handlers : calls'[g] # None /\ calls'[g].live => calls'[g].replica # calls[h].replica
        BY <3>1 DEF OrderInv, CallsAlone
      <3>4. FlightsInOrder(calls)'
        <4> SUFFICES ASSUME NEW g \in Handlers, calls'[g] # None, NEW d, d = calls'[g], NEW i \in DOMAIN d.rx
                     PROVE  FlightFits(d, i)'
          BY DEF FlightsInOrder
        <4>1. FlightFits(d, i) /\ d = calls[g] /\ (d.live => answer'[d.replica] = answer[d.replica])
          BY <3>1, <3>3 DEF OrderInv, FlightsInOrder
        <4> QED
          BY <2>1, <4>1 DEF FlightFits, Holds
      <3> QED
        BY <3>2, <3>4 DEF OrderInv
    <2> QED
      BY <2>4, <2>5
  <1>3. CASE QuorumTick
    BY <1>3, OrderTick DEF QuorumTick, TypeOK, PSType, HAType, CallsType, OrderInv
  <1>4. CASE Restart
    BY <1>4 DEF Restart, OrderInv, CallsAlone, FlightsInOrder
  <1>5. ASSUME \/ \E h \in Handlers : ReceiveLagged(h) \/ Reinsert(h) \/ Abandon(h) \/ DropCall(h)
               \/ \E r \in Replicas : Heartbeat(r)
               \/ TimePasses
               \/ UNCHANGED vars
        PROVE  OrderInv'
    BY <1>0, <1>5, QuietCalls, OrderKept
  <1> QED
    BY <1>1, <1>2, <1>3, <1>4, <1>5 DEF Next, HandlerStep

LEMMA OrderInit == Init => OrderInv
  BY DEF Init, OrderInv, CallsAlone, FlightsInOrder

\* Only a receive changes an answer.
LEMMA OnlyReceiveAnswers ==
  ASSUME TypeOK, [Next]_vars, answer' # answer
  PROVE  \E h \in Handlers : Receive(h)
  BY DEF Next, HandlerStep, QuorumRequest, ReceiveLagged, Reinsert, Abandon, DropCall, Heartbeat,
         QuorumTick, TimePasses, Restart, vars

LEMMA AnswersOrdered ==
  ASSUME TypeOK, IdInv, OrderInv, [Next]_vars, NEW r \in Replicas,
         answer[r] # None, answer'[r].epoch = answer[r].epoch
  PROVE  answer'[r].id >= answer[r].id
  <1>1. answer[r].id \in Nat
    BY IdTypes
  <1>2. CASE answer'[r] = answer[r]
    BY <1>1, <1>2
  <1>3. CASE answer'[r] # answer[r]
    <2> PICK h \in Handlers : Receive(h)
      BY <1>3, OnlyReceiveAnswers
    <2>1. /\ calls[h] # None /\ calls[h].live /\ 1 \in DOMAIN calls[h].rx
          /\ calls[h].replica = r /\ answer'[r] = calls[h].rx[1]
      BY <1>3, ReceiveCalls DEF TypeOK
    <2>2. FlightFits(calls[h], 1) /\ calls[h].rx[1].id \in Nat
      BY <2>1, IdTypes DEF OrderInv, FlightsInOrder
    <2>3. Holds(r)
      BY <2>1, <2>2 DEF FlightFits, Holds
    <2> QED
      BY <1>1, <2>1, <2>2, <2>3 DEF FlightFits
  <1> QED
    BY <1>2, <1>3

\* No replica is answered a quorum older than the one it has (AnswersInOrder), whether or
\* not abandoned calls still run: what is on its way to a live call was issued after the
\* answer its replica holds, and no two calls of a replica are live.
THEOREM AnswersStayInOrder == Spec => AnswersInOrder
  <1>1. TypeOK /\ IdInv /\ OrderInv /\ [Next]_vars =>
          [\A r \in Replicas :
             answer[r] # None /\ answer'[r].epoch = answer[r].epoch
               => answer'[r].id >= answer[r].id]_vars
    BY AnswersOrdered
  <1>2. Init => IdInv
    BY DEF Init, IdInv, QuorumIdNamesMembers, KnownQuorums, InFlight
  <1> QED
    BY <1>1, <1>2, IdStep, OrderInit, OrderStep, TypeCorrect, PTL DEF Spec, AnswersInOrder

-----------------------------------------------------------------------------
(* Failures.  Where no abandoned call runs on when the next one arrives, an  *)
(* entry of participants is that of the replica's one call, so the tick sees *)
(* the failures that the call reports.                                       *)

\* A step that keeps the calls, their registrations and the answers of their replicas.
LEMMA FailuresKept ==
  ASSUME TypeOK, TypeOK', FailuresFit(participants, calls), epoch' = epoch,
         \A h \in Handlers : calls'[h] # None =>
           /\ calls[h] # None /\ Later(calls[h], calls'[h])
           /\ answer'[calls[h].replica] = answer[calls[h].replica]
           /\ participants'[calls[h].replica] # None =>
                participants'[calls[h].replica].member = calls[h].member
  PROVE  FailuresFit(participants, calls)'
  <1> SUFFICES ASSUME NEW h \in Handlers, calls'[h] # None, NEW d, d = calls'[h], NEW c, c = calls[h]
               PROVE  /\ participants'[d.replica] # None => participants'[d.replica].member = d.member
                      /\ d.live /\ d.member.commit_failures > 0 /\ Holds(d.replica)' =>
                           \A i \in DOMAIN d.rx :
                             d.replica \in d.rx[i].members => answer'[d.replica].id < d.rx[i].id
    BY DEF FailuresFit
  <1>1. /\ c # None /\ Later(c, d) /\ answer'[c.replica] = answer[c.replica]
        /\ participants'[c.replica] # None => participants'[c.replica].member = c.member
    OBVIOUS
  <1>2. d.replica = c.replica /\ d.member = c.member /\ (d.live => c.live)
    BY <1>1 DEF Later
  <1>3. PICK k \in {0, 1} : \A i \in DOMAIN d.rx : i + k \in DOMAIN c.rx /\ d.rx[i] = c.rx[i + k]
    BY <1>1 DEF Later
  <1>4. c.live /\ c.member.commit_failures > 0 /\ Holds(c.replica) =>
          \A i \in DOMAIN c.rx : c.replica \in c.rx[i].members => answer[c.replica].id < c.rx[i].id
    BY <1>1 DEF FailuresFit
  <1>5. Holds(d.replica)' => Holds(c.replica)
    BY <1>1, <1>2 DEF Holds
  <1> QED
    BY <1>1, <1>2, <1>3, <1>4, <1>5

LEMMA FailuresTick ==
  ASSUME TypeOK, IdInv, NEW ps \in PSType, NEW ha \in HAType, NEW cs \in CallsType,
         Tick(ps, ha, cs), UNCHANGED <<epoch, answer>>, FailuresFit(ps, cs)
  PROVE  FailuresFit(participants, calls)'
  <1>1. CASE ~QuorumMet(ps, ha)
    <2>1. calls' = cs /\ participants' = ps
      BY <1>1 DEF Tick
    <2> QED
      BY <2>1 DEF FailuresFit, Holds
  <1>2. CASE QuorumMet(ps, ha)
    <2> DEFINE n == NextQuorum(ps, ha)
    <2>1. /\ calls' = Broadcast(cs, n) /\ n \in Quorum /\ participants' = [r \in Replicas |-> None]
          /\ n.id = NextQuorumId(ps, ha) /\ n.members = Candidates(ps, ha)
      BY <1>2, NextQuorumType DEF Tick, NextQuorum
    <2> HIDE DEF n
    <2>2. ASSUME NEW h \in Handlers, calls'[h] # None, NEW d, d = calls'[h], NEW i \in DOMAIN d.rx
          PROVE  /\ cs[h] # None /\ cs[h] \in Call /\ cs[h].rx \in Seq(Quorum)
                 /\ d.replica = cs[h].replica /\ d.member = cs[h].member /\ d.live = cs[h].live
                 /\ d.rx = Append(cs[h].rx, n)
      <3>1. /\ cs[h] # None /\ cs[h] \in Call /\ cs[h].rx \in Seq(Quorum)
            /\ d.replica = cs[h].replica /\ d.member = cs[h].member /\ d.live = cs[h].live
            /\ d.rx = Append(cs[h].rx, n) \/ d.rx = <<>>
        BY <2>1, <2>2, BroadcastGrows, SMTT(20)
      <3>2. DOMAIN <<>> = {}
        OBVIOUS
      <3>3. d.rx # <<>>
        BY <2>2, <3>2
      <3> QED
        BY <3>1, <3>3
    <2> SUFFICES ASSUME NEW h \in Handlers, calls'[h] # None, NEW d, d = calls'[h],
                        d.live, d.member.commit_failures > 0, Holds(d.replica),
                        NEW i \in DOMAIN d.rx, d.replica \in d.rx[i].members
                 PROVE  d.replica \in Replicas /\ answer[d.replica].id < d.rx[i].id
      <3>1. \A h \in Handlers : calls'[h] # None => calls'[h].replica \in Replicas
        <4> SUFFICES ASSUME NEW h \in Handlers, calls'[h] # None PROVE calls'[h].replica \in Replicas
          OBVIOUS
        <4>1. cs[h] # None /\ cs[h] \in Call /\ calls'[h].replica = cs[h].replica
          BY <2>1, BroadcastGrows
        <4> QED
          BY <4>1 DEF Call
      <3> QED
        BY <2>1, <3>1 DEF FailuresFit, Holds
    <2> DEFINE c == cs[h]
    <2>3. /\ c # None /\ c \in Call /\ c.rx \in Seq(Quorum) /\ d.replica = c.replica
          /\ d.member = c.member /\ d.live = c.live /\ d.rx = Append(c.rx, n)
      BY <2>2
    <2>4. c.replica \in Replicas
      BY <2>3 DEF Call
    <2>5. CASE i \in DOMAIN c.rx /\ d.rx[i] = c.rx[i]
      BY <2>3, <2>4, <2>5 DEF FailuresFit
    <2>6. CASE d.rx[i] = n
      <3>1. c.replica \in Candidates(ps, ha)
        BY <2>1, <2>3, <2>6
      <3>2. ps[c.replica] # None
        BY <3>1 DEF Candidates, HealthyParticipants
      <3>3. ps[c.replica].member = c.member
        BY <2>3, <3>2 DEF FailuresFit
      <3>4. NextQuorumId(ps, ha) = quorumId + 1
        BY <2>3, <3>1, <3>3 DEF NextQuorumId, CommitFailed
      <3>5. answer[c.replica].id <= quorumId /\ answer[c.replica].id \in Nat /\ quorumId \in Nat
        BY <2>3, <2>4, IdTypes DEF Holds
      <3> QED
        BY <2>1, <2>3, <2>4, <2>6, <3>4, <3>5
    <2>7. i \in DOMAIN Append(c.rx, n)
      BY <2>3
    <2>8. \/ i \in DOMAIN c.rx /\ d.rx[i] = c.rx[i]
          \/ d.rx[i] = n
      <3>1. c.rx \in Seq(Quorum) /\ n \in Quorum /\ d.rx = Append(c.rx, n)
        BY <2>1, <2>3
      <3> HIDE DEF c
      <3> QED
        BY <2>7, <3>1, AppendAt
    <2> QED
      BY <2>5, <2>6, <2>8
  <1> QED
    BY <1>1, <1>2

LEMMA FailuresRequest ==
  ASSUME TypeOK, ~Overlapping, FailuresFit(participants, calls),
         NEW h \in Handlers, NEW r \in Replicas, NEW m \in Member, calls[h] = None, MayCall(r)
  PROVE  FailuresFit(Register(participants, r, m), [calls EXCEPT ![h] = NewCall(r, m)])
  <1> DEFINE cs == [calls EXCEPT ![h] = NewCall(r, m)]
             ps == Register(participants, r, m)
  <1>1. /\ cs[h] = NewCall(r, m)
        /\ \A g \in Handlers : g # h => cs[g] = calls[g]
        /\ \A s \in Replicas : s # r => ps[s] = participants[s]
        /\ ps[r].member = m
    BY DEF TypeOK, Register
  <1>2. NewCall(r, m).replica = r /\ NewCall(r, m).rx = <<>> /\ NewCall(r, m).member = m
    BY DEF NewCall
  <1>3. \A g \in Handlers : calls[g] # None => calls[g].replica \in Replicas /\ calls[g].replica # r
    BY DEF MayCall, TypeOK, Call
  <1> HIDE DEF cs, ps
  <1>4. FailuresFit(ps, cs)
    BY <1>1, <1>2, <1>3 DEF FailuresFit
  <1> QED
    BY <1>4 DEF cs, ps

LEMMA FailuresStep ==
  ASSUME TypeOK, IdInv, OrderInv, ~Overlapping, FailuresFit(participants, calls), [Next]_vars
  PROVE  FailuresFit(participants, calls)'
  <1>0. TypeOK'
    BY TypeStep
  <1>1. ASSUME NEW h \in Handlers, NEW r \in Replicas, NEW m \in Member, QuorumRequest(h, r, m)
        PROVE  FailuresFit(participants, calls)'
    <2>1. Register(participants, r, m) \in PSType /\ heartAge' \in HAType
      BY <1>0, RegisterType DEF TypeOK, PSType, HAType
    <2>2. /\ calls[h] = None /\ MayCall(r) /\ UNCHANGED <<epoch, answer>>
          /\ Tick(Register(participants, r, m), heartAge', [calls EXCEPT ![h] = NewCall(r, m)])
      BY <1>1 DEF QuorumRequest
    <2> QED
      BY <2>1, <2>2, RequestInOrder, FailuresRequest, FailuresTick
  <1>2. ASSUME NEW h \in Handlers, Receive(h) PROVE FailuresFit(participants, calls)'
    <2>1. UNCHANGED <<epoch, participants>>
      BY <1>2 DEF Receive
    <2>2. \A g \in Handlers : calls[g] # None => Later(calls[g], calls[g])
      <3> SUFFICES ASSUME NEW g \in Handlers, calls[g] # None PROVE Later(calls[g], calls[g])
        OBVIOUS
      <3>1. calls[g].rx \in Seq(Quorum)
        BY DEF Call, TypeOK
      <3>2. \A i \in DOMAIN calls[g].rx : i + 0 \in DOMAIN calls[g].rx /\ calls[g].rx[i] = calls[g].rx[i + 0]
        BY <3>1
      <3> QED
        BY <3>2 DEF Later
    <2>3. \A g \in Handlers : calls'[g] # None => calls[g] # None /\ Later(calls[g], calls'[g])
      BY <1>2, <2>2, ReceiveCalls DEF TypeOK
    <2>4. ASSUME NEW g \in Handlers, calls'[g] # None
          PROVE  answer'[calls[g].replica] = answer[calls[g].replica]
      <3>1. CASE answer' = answer
        BY <3>1
      <3>2. CASE answer' # answer
        <4>1. /\ g # h /\ calls[g] # None /\ calls[h] # None
              /\ answer' = [answer EXCEPT ![calls[h].replica] = calls[h].rx[1]]
          BY <1>2, <2>3, <2>4, <3>2, ReceiveCalls
        <4>2. calls[g].replica # calls[h].replica /\ calls[g].replica \in Replicas
          BY <4>1 DEF OrderInv, CallsAlone, TypeOK, Call
        <4> QED
          BY <4>1, <4>2 DEF TypeOK
      <3> QED
        BY <3>1, <3>2
    <2> QED
      BY <1>0, <2>1, <2>3, <2>4, FailuresKept DEF FailuresFit
  <1>3. CASE QuorumTick
    BY <1>3, FailuresTick DEF QuorumTick, TypeOK, PSType, HAType, CallsType
  <1>4. CASE Restart
    BY <1>4 DEF Restart, FailuresFit
  <1>5. ASSUME NEW h \in Handlers, Reinsert(h) PROVE FailuresFit(participants, calls)'
    <2>1. /\ UNCHANGED <<epoch, answer>>
          /\ \A g \in Handlers : calls'[g] # None => calls[g] # None /\ Later(calls[g], calls'[g])
      BY <1>5, QuietCalls
    <2>2. /\ calls[h] # None /\ calls[h].replica \in Replicas
          /\ participants'[calls[h].replica].member = calls[h].member
          /\ \A s \in Replicas : s # calls[h].replica => participants'[s] = participants[s]
      BY <1>5 DEF Reinsert, TypeOK, Call, Register
    <2>3. \A g \in Handlers : calls[g] # None =>
            /\ calls[g].replica \in Replicas
            /\ g # h => calls[g].replica # calls[h].replica
            /\ participants[calls[g].replica] # None => participants[calls[g].replica].member = calls[g].member
      BY <2>2 DEF OrderInv, CallsAlone, TypeOK, Call, FailuresFit
    <2> QED
      BY <1>0, <2>1, <2>2, <2>3, FailuresKept
  <1>6. ASSUME \/ \E h \in Handlers : ReceiveLagged(h) \/ Abandon(h) \/ DropCall(h)
               \/ \E r \in Replicas : Heartbeat(r)
               \/ TimePasses
               \/ UNCHANGED vars
        PROVE  FailuresFit(participants, calls)'
    <2>1. /\ UNCHANGED <<epoch, answer>>
          /\ \A g \in Handlers : calls'[g] # None => calls[g] # None /\ Later(calls[g], calls'[g])
      BY <1>6, QuietCalls
    <2>2. \A r \in Replicas : participants'[r] # None =>
            participants[r] # None /\ participants'[r].member = participants[r].member
      <3>1. CASE TimePasses
        BY <3>1 DEF TimePasses, TypeOK, Details
      <3>2. CASE ~TimePasses
        <4>1. participants' = participants
          BY <1>6, <3>2 DEF ReceiveLagged, Abandon, DropCall, Heartbeat, vars
        <4> QED
          BY <4>1
      <3> QED
        BY <3>1, <3>2
    <2>3. \A g \in Handlers : calls[g] # None =>
            /\ calls[g].replica \in Replicas
            /\ participants[calls[g].replica] # None => participants[calls[g].replica].member = calls[g].member
      BY DEF TypeOK, Call, FailuresFit
    <2> QED
      BY <1>0, <2>1, <2>2, <2>3, FailuresKept
  <1> QED
    BY <1>1, <1>2, <1>3, <1>4, <1>5, <1>6 DEF Next, HandlerStep

\* The step that answers a call whose client waits is a receive.
LEMMA AnswersReceive ==
  ASSUME TypeOK, OrderInv, [Next]_vars, NEW h \in Handlers, Answers(h)
  PROVE  Receive(h)
  <1>1. /\ calls[h] # None /\ calls[h] \in Call /\ calls[h].live /\ calls[h].rx # <<>>
        /\ calls'[h] = None /\ epoch' = epoch
    BY DEF Answers, TypeOK
  <1>2. ~calls[h].lagged
    <2>1. calls[h].rx \in Seq(Quorum)
      BY <1>1 DEF Call
    <2>2. 1 \in DOMAIN calls[h].rx
      BY <1>1, <2>1
    <2> QED
      BY <1>1, <2>2 DEF OrderInv, FlightsInOrder, FlightFits
  <1>3. ASSUME NEW ps, NEW ha, NEW cs \in CallsType, cs[h] = calls[h], Tick(ps, ha, cs)
        PROVE  FALSE
    <2> DEFINE n == NextQuorum(ps, ha)
    <2>1. \/ calls'[h] = calls[h]
          \/ calls'[h] = [calls[h] EXCEPT !.rx = Append(@, n)]
          \/ calls'[h] = [calls[h] EXCEPT !.rx = <<>>, !.lagged = TRUE]
      <3>1. calls' = Broadcast(cs, n) \/ calls' = cs
        BY <1>3, Zenon DEF Tick
      <3> HIDE DEF n
      <3>2. CASE calls' = cs
        BY <1>3, <3>2
      <3>3. CASE calls' = Broadcast(cs, n)
        <4>1. \/ Broadcast(cs, n)[h] = [cs[h] EXCEPT !.rx = Append(@, n)]
              \/ Broadcast(cs, n)[h] = [cs[h] EXCEPT !.rx = <<>>, !.lagged = TRUE]
          BY <1>1, <1>3, Zenon DEF Broadcast
        <4> QED
          BY <1>3, <3>3, <4>1, Zenon
      <3> QED
        BY <3>1, <3>2, <3>3
    <2>2. calls'[h] \in Call
      <3>1. n \in Quorum
        BY NextQuorumType
      <3> HIDE DEF n
      <3> QED
        BY <1>1, <2>1, <3>1, BroadcastCall
    <2> QED
      BY <1>1, <2>2, NoneAssumption
  <1>4. ASSUME NEW g \in Handlers, NEW r \in Replicas, NEW m \in Member, QuorumRequest(g, r, m)
        PROVE  FALSE
    <2>1. /\ calls[g] = None /\ g # h /\ [calls EXCEPT ![g] = NewCall(r, m)] \in CallsType
          /\ [calls EXCEPT ![g] = NewCall(r, m)][h] = calls[h]
          /\ Tick(Register(participants, r, m), heartAge', [calls EXCEPT ![g] = NewCall(r, m)])
      BY <1>1, <1>4, NewCallType DEF QuorumRequest, TypeOK, CallsType
    <2> QED
      BY <2>1, <1>3
  <1>5. CASE QuorumTick
    BY <1>3, <1>5 DEF QuorumTick, TypeOK, CallsType
  <1>6. ASSUME NEW g \in Handlers, Receive(g) PROVE Receive(h)
    BY <1>1, <1>6, ReceiveCalls
  <1>7. ASSUME NEW g \in Handlers, ReceiveLagged(g) \/ DropCall(g) PROVE FALSE
    BY <1>1, <1>2, <1>7 DEF ReceiveLagged, DropCall, TypeOK
  <1>8. ASSUME NEW g \in Handlers, Reinsert(g) \/ Abandon(g) PROVE FALSE
    <2>1. calls'[h] \in {calls[h], [calls[h] EXCEPT !.pc = "recv"], [calls[h] EXCEPT !.live = FALSE]}
      BY <1>8 DEF Reinsert, Abandon, TypeOK
    <2>2. \A c \in Call : [c EXCEPT !.pc = "recv"] \in Call /\ [c EXCEPT !.live = FALSE] \in Call
      BY DEF Call
    <2> QED
      BY <1>1, <2>1, <2>2, NoneAssumption
  <1>9. CASE (\E r \in Replicas : Heartbeat(r)) \/ TimePasses \/ UNCHANGED vars
    BY <1>1, <1>9 DEF Heartbeat, TimePasses, vars
  <1>10. CASE Restart
    BY <1>1, <1>10 DEF Restart, TypeOK
  <1> QED
    BY <1>4, <1>5, <1>6, <1>7, <1>8, <1>9, <1>10 DEF Next, HandlerStep

LEMMA FailureAnswered ==
  ASSUME TypeOK, IdInv, OrderInv, FailuresFit(participants, calls), [Next]_vars,
         NEW h \in Handlers, NEW r, r = calls[h].replica, Answers(h),
         calls[h].member.commit_failures > 0, answer[r] # None, answer[r].epoch = epoch
  PROVE  answer'[r].id > answer[r].id
  <1>1. Receive(h) /\ calls[h] # None /\ calls[h].live /\ calls'[h] = None
    BY AnswersReceive DEF Answers
  <1>2. /\ r \in Replicas /\ 1 \in DOMAIN calls[h].rx /\ r \in calls[h].rx[1].members
        /\ answer'[r] = calls[h].rx[1]
    BY <1>1, ReceiveCalls DEF TypeOK
  <1>3. answer[r].id < calls[h].rx[1].id
    BY <1>1, <1>2 DEF FailuresFit, Holds
  <1>4. answer[r].id \in Nat /\ calls[h].rx[1].id \in Nat
    BY <1>1, <1>2, IdTypes
  <1> QED
    BY <1>2, <1>3, <1>4

\* Where a replica's calls do not overlap, one that reports a commit failure is answered a
\* quorum with a higher id than the one it failed in (FailureGetsFreshId), however many
\* quorums without it were broadcast to it before.  The hypothesis is needed: an abandoned
\* call that was left out of a quorum registers its replica again, over the failures that
\* the replica's new call reported.
THEOREM FailuresGetFreshIds == ASSUME ~Overlapping PROVE Spec => FailureGetsFreshId
  <1> DEFINE Inv == TypeOK /\ IdInv /\ OrderInv /\ FailuresFit(participants, calls)
  <1>1. Init => Inv
    <2>1. Init => TypeOK
      BY BoundsAssumption DEF Init, TypeOK
    <2>2. Init => IdInv
      BY DEF Init, IdInv, QuorumIdNamesMembers, KnownQuorums, InFlight
    <2>3. Init => FailuresFit(participants, calls)
      BY DEF Init, FailuresFit
    <2> QED
      BY <2>1, <2>2, <2>3, OrderInit
  <1>2. Inv /\ [Next]_vars => Inv'
    BY TypeStep, IdStep, OrderStep, FailuresStep
  <1>3. Inv /\ [Next]_vars =>
          [\A h \in Handlers :
             LET r == calls[h].replica
             IN  /\ Answers(h)
                 /\ calls[h].member.commit_failures > 0
                 /\ answer[r] # None
                 /\ answer[r].epoch = epoch
                 => answer'[r].id > answer[r].id]_vars
    BY FailureAnswered
  <1> QED
    BY <1>1, <1>2, <1>3, PTL DEF Spec, FailureGetsFreshId

-----------------------------------------------------------------------------
(* Refinement.  Each step of the lighthouse is a step of QuorumService under *)
(* the mapping of MCLighthouse: a tick that issues is Issue, the receive of  *)
(* a waiting member is Answer, a restart is Reset, and whatever else happens *)
(* only takes quorums away from those that might have received them.         *)

\* Call by call, what Pending says: cs may bring r the quorum q.
MayGet(cs, r, q) ==
  \E h \in Handlers :
    /\ cs[h] # None /\ cs[h].live /\ cs[h].replica = r /\ r \in q.members
    /\ \E i \in DOMAIN cs[h].rx : q = cs[h].rx[i]

LEMMA PendingIs ==
  /\ Pending = [r \in Replicas |-> Pending[r]]
  /\ Pending' = [r \in Replicas |-> Pending'[r]]
  /\ \A r \in Replicas : \A q : q \in Pending[r] <=> MayGet(calls, r, q)
  /\ \A r \in Replicas : \A q : q \in Pending'[r] <=> MayGet(calls', r, q)
  <1>1. /\ Pending = [r \in Replicas |-> Pending[r]]
        /\ Pending' = [r \in Replicas |-> Pending'[r]]
    BY DEF Pending
  <1>2. ASSUME NEW r \in Replicas, NEW q PROVE q \in Pending[r] <=> MayGet(calls, r, q)
    BY DEF Pending, InFlight, MayGet
  <1>3. ASSUME NEW r \in Replicas, NEW q PROVE q \in Pending'[r] <=> MayGet(calls', r, q)
    BY DEF Pending, InFlight, MayGet
  <1> QED
    BY <1>1, <1>2, <1>3

LEMMA ForgetStep ==
  ASSUME UNCHANGED <<epoch, quorumId, prevQuorum, answer>>,
         \A r \in Replicas : \A q : MayGet(calls', r, q) => MayGet(calls, r, q)
  PROVE  Service!Next
  <1>1. \A r \in Replicas : Pending'[r] \subseteq Pending[r]
    BY PendingIs
  <1>2. Service!Forget
    BY <1>1 DEF Service!Forget
  <1> QED
    BY <1>2 DEF Service!Next

\* The calls go on, or end, or read what was for others.
LEMMA LaterGetsLess ==
  ASSUME \A h \in Handlers : calls'[h] # None => calls[h] # None /\ Later(calls[h], calls'[h])
  PROVE  \A r \in Replicas : \A q : MayGet(calls', r, q) => MayGet(calls, r, q)
  <1> SUFFICES ASSUME NEW r \in Replicas, NEW q, NEW h \in Handlers, calls'[h] # None, calls'[h].live,
                      calls'[h].replica = r, r \in q.members, NEW i \in DOMAIN calls'[h].rx,
                      q = calls'[h].rx[i]
               PROVE  MayGet(calls, r, q)
    BY DEF MayGet
  <1>1. calls[h] # None /\ Later(calls[h], calls'[h])
    OBVIOUS
  <1>2. PICK k \in {0, 1} : \A j \in DOMAIN calls'[h].rx :
           j + k \in DOMAIN calls[h].rx /\ calls'[h].rx[j] = calls[h].rx[j + k]
    BY <1>1 DEF Later
  <1> QED
    BY <1>1, <1>2 DEF MayGet, Later

LEMMA TickIssues ==
  ASSUME TypeOK, NEW ps \in PSType, NEW ha \in HAType, NEW cs \in CallsType,
         Tick(ps, ha, cs), UNCHANGED <<epoch, answer>>,
         \A r \in Replicas : \A q : MayGet(cs, r, q) => MayGet(calls, r, q)
  PROVE  Service!Next
  <1>1. CASE ~QuorumMet(ps, ha)
    <2>1. calls' = cs /\ UNCHANGED <<quorumId, prevQuorum>>
      BY <1>1 DEF Tick
    <2> QED
      BY <2>1, ForgetStep
  <1>2. CASE QuorumMet(ps, ha)
    <2> DEFINE n == NextQuorum(ps, ha)
               S == Candidates(ps, ha)
               members == IF prevQuorum = None THEN None ELSE prevQuorum.members
    <2>1. /\ calls' = Broadcast(cs, n) /\ n \in Quorum /\ prevQuorum' = n /\ S \in SUBSET Replicas
          /\ n = [epoch |-> epoch, id |-> quorumId', members |-> S]
          /\ quorumId' = NextQuorumId(ps, ha)
      BY <1>2, NextQuorumType DEF Tick, NextQuorum
    <2>2. quorumId' = quorumId + 1 \/ (quorumId' = quorumId /\ members = S)
      BY <2>1 DEF NextQuorumId
    <2>3. n # None /\ n.members = S
      BY <2>1, NoneAssumption
    <2>4. members' = S
      BY <2>1, <2>3
    <2> HIDE DEF n, S, members
    <2>5. ASSUME NEW r \in Replicas, NEW q, MayGet(calls', r, q)
          PROVE  MayGet(calls, r, q) \/ (r \in S /\ q = n)
      <3>1. PICK h \in Handlers : /\ calls'[h] # None /\ calls'[h].live /\ calls'[h].replica = r
                                  /\ r \in q.members
                                  /\ \E i \in DOMAIN calls'[h].rx : q = calls'[h].rx[i]
        BY <2>5 DEF MayGet
      <3>2. PICK i \in DOMAIN calls'[h].rx : q = calls'[h].rx[i]
        BY <3>1
      <3>3. cs[h] # None /\ cs[h].live = calls'[h].live /\ cs[h].replica = calls'[h].replica
        BY <2>1, <3>1, BroadcastGrows
      <3>4. q = n \/ (i \in DOMAIN cs[h].rx /\ q = cs[h].rx[i])
        BY <2>1, <3>1, <3>2, BroadcastFlight
      <3>5. q = n \/ MayGet(cs, r, q)
        BY <3>1, <3>3, <3>4 DEF MayGet
      <3> QED
        BY <2>3, <3>1, <3>5
    <2>6. \A r \in Replicas : Pending'[r] \subseteq IF r \in S THEN Pending[r] \cup {n} ELSE Pending[r]
      BY <2>5, PendingIs
    <2>7. Service!Issue(S)
      BY <2>1, <2>2, <2>4, <2>6 DEF Service!Issue, members
    <2> QED
      BY <2>1, <2>7 DEF Service!Next
  <1> QED
    BY <1>1, <1>2

\* The receive of a member that still waits is the service's answer: nothing older is on
\* its way to the replica, and no other call of it is live.
LEMMA ReceiveAnswers ==
  ASSUME TypeOK, OrderInv, NEW h \in Handlers, Receive(h)
  PROVE  Service!Next
  <1>1. UNCHANGED <<epoch, quorumId, prevQuorum>>
    BY DEF Receive
  <1>2. \A c \in Call : Later(c, c)
    <2> SUFFICES ASSUME NEW c \in Call PROVE Later(c, c)
      OBVIOUS
    <2>1. c.rx \in Seq(Quorum)
      BY DEF Call
    <2>2. \A i \in DOMAIN c.rx : i + 0 \in DOMAIN c.rx /\ c.rx[i] = c.rx[i + 0]
      BY <2>1
    <2> QED
      BY <2>2 DEF Later
  <1>3. \A g \in Handlers : calls'[g] # None => calls[g] # None /\ Later(calls[g], calls'[g])
    BY <1>2, ReceiveCalls DEF TypeOK
  <1>4. CASE answer' = answer
    BY <1>1, <1>3, <1>4, LaterGetsLess, ForgetStep
  <1>5. CASE answer' # answer
    <2> DEFINE r == calls[h].replica
               q == calls[h].rx[1]
    <2>1. /\ calls[h] # None /\ calls[h].live /\ calls'[h] = None /\ r \in Replicas
          /\ 1 \in DOMAIN calls[h].rx /\ r \in q.members /\ answer' = [answer EXCEPT ![r] = q]
          /\ \A g \in Handlers : g # h => calls'[g] = calls[g]
      BY <1>5, ReceiveCalls
    <2>2. \A g \in Handlers : calls[g] # None /\ calls[g].live /\ calls[g].replica = r => g = h
      BY <2>1 DEF OrderInv, CallsAlone
    <2>3. MayGet(calls, r, q)
      BY <2>1 DEF MayGet
    <2>4. ASSUME NEW p, MayGet(calls, r, p) PROVE q.id <= p.id
      <3>1. PICK j \in DOMAIN calls[h].rx : p = calls[h].rx[j]
        BY <2>2, <2>4 DEF MayGet
      <3>2. 1 <= j
        <4>1. calls[h].rx \in Seq(Quorum)
          BY <2>1 DEF TypeOK, Call
        <4> QED
          BY <4>1
      <3>3. FlightFits(calls[h], 1)
        BY <2>1 DEF OrderInv, FlightsInOrder
      <3> QED
        BY <3>1, <3>2, <3>3 DEF FlightFits
    <2>5. \A p : ~MayGet(calls', r, p)
      BY <2>1, <2>2 DEF MayGet
    <2>6. \A s \in Replicas : s # r => \A p : MayGet(calls', s, p) <=> MayGet(calls, s, p)
      BY <2>1 DEF MayGet
    <2> HIDE DEF r, q
    <2>7. Pending' = [Pending EXCEPT ![r] = {}]
      <3>1. Pending'[r] = {} /\ \A s \in Replicas : s # r => Pending'[s] = Pending[s]
        BY <2>1, <2>5, <2>6, PendingIs
      <3> QED
        BY <3>1, PendingIs
    <2>8. q \in Pending[r] /\ \A p \in Pending[r] : q.id <= p.id
      BY <2>1, <2>3, <2>4, PendingIs
    <2>9. Service!Answer(r)
      BY <1>1, <2>1, <2>7, <2>8 DEF Service!Answer
    <2> QED
      BY <2>1, <2>9 DEF Service!Next
  <1> QED
    BY <1>4, <1>5

LEMMA ServiceStep == TypeOK /\ OrderInv /\ [Next]_vars => Service!Next
  <1> SUFFICES ASSUME TypeOK, OrderInv, [Next]_vars PROVE Service!Next
    OBVIOUS
  <1>0. TypeOK'
    BY TypeStep
  <1>1. ASSUME NEW h \in Handlers, NEW r \in Replicas, NEW m \in Member, QuorumRequest(h, r, m)
        PROVE  Service!Next
    <2> DEFINE cs == [calls EXCEPT ![h] = NewCall(r, m)]
    <2>1. Register(participants, r, m) \in PSType /\ heartAge' \in HAType
      BY <1>0, RegisterType DEF TypeOK, PSType, HAType
    <2>2. /\ calls[h] = None /\ MayCall(r) /\ UNCHANGED <<epoch, answer>>
          /\ Tick(Register(participants, r, m), heartAge', cs) /\ cs \in CallsType
      BY <1>1, NewCallType DEF QuorumRequest, TypeOK, CallsType
    <2>3. cs[h].rx = <<>> /\ \A g \in Handlers : g # h => cs[g] = calls[g]
      BY DEF TypeOK, NewCall
    <2>4. DOMAIN <<>> = {}
      OBVIOUS
    <2> HIDE DEF cs
    <2>5. \A s \in Replicas : \A q : MayGet(cs, s, q) => MayGet(calls, s, q)
      BY <2>3, <2>4 DEF MayGet
    <2> QED
      BY <2>1, <2>2, <2>5, TickIssues
  <1>2. ASSUME NEW h \in Handlers, Receive(h) PROVE Service!Next
    BY <1>2, ReceiveAnswers
  <1>3. CASE QuorumTick
    BY <1>3, TickIssues DEF QuorumTick, TypeOK, PSType, HAType, CallsType
  <1>4. CASE Restart
    <2>1. \A r \in Replicas : Pending'[r] = {}
      BY <1>4, PendingIs DEF Restart, MayGet
    <2>2. Pending' = [r \in Replicas |-> {}]
      BY <2>1, PendingIs
    <2>3. Service!Reset
      BY <1>4, <2>2 DEF Restart, Service!Reset
    <2> QED
      BY <2>3 DEF Service!Next
  <1>5. ASSUME \/ \E h \in Handlers : ReceiveLagged(h) \/ Reinsert(h) \/ Abandon(h) \/ DropCall(h)
               \/ \E r \in Replicas : Heartbeat(r)
               \/ TimePasses
               \/ UNCHANGED vars
        PROVE  Service!Next
    BY <1>5, QuietCalls, LaterGetsLess, ForgetStep
  <1> QED
    BY <1>1, <1>2, <1>3, <1>4, <1>5 DEF Next, HandlerStep

\* The lighthouse implements the quorum service (ImplementsService), for any number of
\* replicas and handlers, timeouts and channel capacity, with abandoned calls that run on
\* and with restarts: clients see quorums issued one after the other, a new id whenever
\* the members change, and receive those they wait for oldest first.
THEOREM LighthouseImplementsService == Spec => ImplementsService
  <1>1. Init => Service!Init
    <2> SUFFICES ASSUME Init PROVE Service!Init
      OBVIOUS
    <2>1. \A r \in Replicas : Pending[r] = {}
      BY PendingIs DEF Init, MayGet
    <2>2. Pending = [r \in Replicas |-> {}]
      BY <2>1, PendingIs
    <2> QED
      BY <2>2 DEF Init, Service!Init
  <1>2. TypeOK /\ OrderInv /\ [Next]_vars => [Service!Next]_(Service!svars)
    BY ServiceStep
  <1>3. Init => IdInv
    BY DEF Init, IdInv, QuorumIdNamesMembers, KnownQuorums, InFlight
  <1> QED
    BY <1>1, <1>2, <1>3, IdStep, OrderInit, OrderStep, TypeCorrect, PTL
    DEF Spec, ImplementsService, Service!Spec

=============================================================================
