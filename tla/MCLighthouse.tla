---------------------------- MODULE MCLighthouse ----------------------------
(* Instances of Lighthouse for TLC, and the service it implements. *)
EXTENDS Lighthouse, TLC

Symmetry == Permutations(Replicas) \cup Permutations(Handlers)

\* What the calls a replica still waits for may bring it.
Pending ==
  [r \in Replicas |->
     UNION {{q \in InFlight(h) : r \in q.members} :
              h \in {g \in Handlers : calls[g] # None /\ calls[g].live /\ calls[g].replica = r}}]

Service == INSTANCE QuorumService WITH
  lastId  <- quorumId,
  members <- IF prevQuorum = None THEN None ELSE prevQuorum.members,
  pending <- Pending

\* The lighthouse is a quorum service: whatever its handlers, ticks and
\* heartbeats do, clients see quorums issued and answered in order.
ImplementsService == Service!Spec

-----------------------------------------------------------------------------
(* Stragglers, for the liveness run *)

\* Only the steady replicas' trainers ask.  The manager of another replica may
\* heartbeat all the same: it is healthy and is missing from every quorum, so a
\* quorum has to wait for it, and then to go ahead without it.
Asks ==
  \A h \in Handlers : calls[h] = None /\ calls'[h] # None => calls'[h].replica \in Steady

StragglingSpec == Init /\ [][Next /\ Asks]_vars /\ Fairness
=============================================================================
