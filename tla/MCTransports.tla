----------------------------- MODULE MCTransports -----------------------------
(* A manager is given one of the two transports.                           *)
EXTENDS HTTPTransport

CONSTANTS Dsts, NumLeaves, LastStep, MaxAttempts

VARIABLES transport, mode, at, live, sender, posted, asked, delivered, buffer,
          receiver, attempts

ASSUME TransportsAssumption ==
    /\ NumLeaves \in Nat \ {0}
    /\ LastStep \in Nat /\ MaxAttempts \in Nat
ASSUME ChunksMerge == \A c \in Configs : c.chunks # 0 => MergeUndoesSplit(c.chunks)

PG == INSTANCE PGTransport

MCTrainer == "trainer"
MCChunk == <<"chunk1", "chunk2">>
MCThreads == {"trainer", "full", "metadata", "chunk1", "chunk2"}
MCConfigs == {[chunks |-> 0, onCpu |-> TRUE], [chunks |-> 2, onCpu |-> TRUE],
              [chunks |-> 2, onCpu |-> FALSE]}

pgAll == <<mode, at, live, sender, posted, asked, delivered, buffer, receiver,
           attempts>>
allVars == <<vars, transport, pgAll>>

TInit == /\ transport \in {"http", "pg"}
         /\ Init /\ PG!PGInit
         /\ transport = "http" => ~mode.onCpu /\ ~mode.inplace /\ ~mode.patient
         /\ transport = "pg" => config = CHOOSE c \in Configs : TRUE

TNext == \/ transport = "http" /\ Next /\ UNCHANGED <<transport, pgAll>>
         \/ transport = "pg" /\ PG!PGNext /\ UNCHANGED <<transport, vars>>

TSpec == TInit /\ [][TNext]_allVars /\ Fairness /\ PG!PGFairness

-----------------------------------------------------------------------------
\* The variables of the lock and of both transports have their types.
TypesOK == TypeOK /\ PG!PGTypeOK

\* A receiver that succeeds has one step's tensors, whole (PGTransport's
\* PGReceivedIsWhole).
ReceivedIsWhole == PG!PGReceivedIsWhole

\* Whichever the transport, whoever asks for a checkpoint and whoever sends it
\* gets to an end (HTTPTransport's RequestsEnd, PGTransport's PGTransferEnds).
TransfersEnd == RequestsEnd /\ PG!PGTransferEnds
=============================================================================
