-------------------------- MODULE MCManagerServer --------------------------
(***************************************************************************)
(* ManagerServer with votes that time out and are cast again ("votes": the *)
(* constants of this module), and with heals that fail for some ranks      *)
(* ("heals"), where the calls must be answered.                            *)
(***************************************************************************)
EXTENDS ManagerServer

VARIABLE part

Heals == INSTANCE ManagerServer WITH HealFailures <- TRUE, VoteTimeouts <- FALSE

MInit == Init /\ part \in {"votes", "heals"}

MNext ==
  \/ part = "votes" /\ Next /\ UNCHANGED part
  \/ part = "heals" /\ Heals!Next /\ UNCHANGED part

MSpec == MInit /\ [][MNext]_<<vars, part>> /\ Heals!Fairness

\* Ranks inside a step are in one step, and so are those between steps, with
\* what they have yet to read (ManagerServer's RanksInStep); a rank that could
\* not heal is not, so this is about "votes".
RanksKeepStep == part = "votes" => RanksInStep

\* In "votes" the ranks commit together, and no failure of an earlier step is
\* counted against this one: the votes of two steps, or those of a call that
\* timed out, are never mixed into a decision.  (In "heals" the rank that could
\* not heal commits a step of its own later.)
DecisionsFitVotes ==
  [][part = "votes" => CommitsTogether /\ DiscardsForCause]_<<vars, part>>

\* ManagerServer's CallsAnswered, in "heals": a vote that times out may be cast
\* in a round that nobody else will join.
HealsAnswered == part = "heals" => CallsAnswered
=============================================================================
