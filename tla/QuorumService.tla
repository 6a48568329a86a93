--------------------------- MODULE QuorumService ----------------------------
(***************************************************************************)
(* What the lighthouse promises its clients, without heartbeats, ticks or  *)
(* channels: quorums are issued one after the other, a new id whenever the *)
(* members change; each member may be answered a quorum issued while it    *)
(* waited, oldest first; a restart forgets everything but what clients     *)
(* hold.                                                                   *)
(***************************************************************************)
EXTENDS Integers

CONSTANTS Replicas, None

VARIABLES
  epoch,    \* incarnation of the service
  lastId,   \* id of the newest quorum, 0 before the first
  members,  \* members of the newest quorum, None before the first
  pending,  \* per replica, the quorums it may still be answered
  answer    \* per replica, the quorum it holds

svars == <<epoch, lastId, members, pending, answer>>

Init ==
  /\ epoch = 0
  /\ lastId = 0
  /\ members = None
  /\ pending = [r \in Replicas |-> {}]
  /\ answer = [r \in Replicas |-> None]

\* Waiters may give up at any time, and lose what they were to receive.
Forget ==
  /\ \A r \in Replicas : pending'[r] \subseteq pending[r]
  /\ UNCHANGED <<epoch, lastId, members, answer>>

\* A quorum S is issued to those of its members that wait for one: under a
\* new id, or under the id of the last quorum when S is the same set.
Issue(S) ==
  /\ \/ lastId' = lastId + 1
     \/ lastId' = lastId /\ members = S
  /\ members' = S
  /\ LET q == [epoch |-> epoch, id |-> lastId', members |-> S]
     IN  \A r \in Replicas :
           pending'[r] \subseteq IF r \in S THEN pending[r] \cup {q} ELSE pending[r]
  /\ UNCHANGED <<epoch, answer>>

\* A replica takes the oldest quorum it may be answered and stops waiting.
Answer(r) ==
  \E q \in pending[r] :
    /\ \A p \in pending[r] : q.id <= p.id
    /\ answer' = [answer EXCEPT ![r] = q]
    /\ pending' = [pending EXCEPT ![r] = {}]
    /\ UNCHANGED <<epoch, lastId, members>>

Reset ==
  /\ epoch' = epoch + 1
  /\ lastId' = 0
  /\ members' = None
  /\ pending' = [r \in Replicas |-> {}]
  /\ UNCHANGED answer

Next ==
  \/ Forget
  \/ \E S \in SUBSET Replicas : Issue(S)
  \/ \E r \in Replicas : Answer(r)
  \/ Reset

Spec == Init /\ [][Next]_svars

=============================================================================
