----------------------------- MODULE PGTransport -----------------------------
(***************************************************************************)
(* Live recovery over a process group:                                     *)
(* torchft/checkpointing/pg_transport.py.                                  *)
(*                                                                         *)
(* The sender posts, for every receiver, the length of the pickled         *)
(* metadata (tag 1), the metadata (tag 2) and every tensor (tags 3...) and *)
(* waits for all of it before it returns, because disallow_checkpoint does *)
(* nothing: what is sent is the live storage.  A receiver posts the        *)
(* matching receives, and may receive into its own state dict.  A message  *)
(* is delivered when both sides have posted its tag.  After an error the   *)
(* manager does not commit and the process group is configured again.      *)
(*                                                                         *)
(* Waits have a timeout, which ends any transfer, a misordered one too.    *)
(* In the mode `patient' nobody fails and no timeout expires: then a       *)
(* transfer ends only if the sends, receives and waits of the two sides    *)
(* fit together.                                                           *)
(***************************************************************************)
EXTENDS Naturals

CONSTANTS
    Dsts,         \* the receivers: dst_ranks
    NumLeaves,    \* tensors of the state dict
    LastStep,     \* bound: commits
    MaxAttempts   \* bound: transfers

VARIABLES
    mode,      \* [onCpu: the sender's tensors are on the CPU,
               \*  inplace: the receivers have a state dict to receive into,
               \*  patient: all waits are answered before they time out]
    at,        \* the sender's step
    live,      \* version of each tensor of the sender
    sender,    \* state of send_checkpoint
    posted,    \* sends posted: pairs <<tag, receiver>>
    asked,     \* receives posted
    delivered, \* messages delivered
    buffer,    \* per receiver, the version in each tensor's buffer
    receiver,  \* state of each recv_checkpoint
    attempts   \* transfers begun

senderVars   == <<at, live, sender>>
channelVars  == <<posted, asked, delivered, buffer>>
pgVars == <<mode, senderVars, channelVars, receiver, attempts>>

Leaves == 1 .. NumLeaves
Tags == 1 .. NumLeaves + 2
LeafOf(tag) == tag - 2
Last == NumLeaves + 2
None == LastStep + 1       \* a buffer that was never written

Modes == [onCpu : BOOLEAN, inplace : BOOLEAN, patient : BOOLEAN]

PGInit ==
    /\ mode \in Modes
    /\ at = 0
    /\ live = [i \in Leaves |-> 0]
    /\ sender = "idle"
    /\ posted = {} /\ asked = {} /\ delivered = {}
    /\ buffer = [d \in Dsts |-> [i \in Leaves |-> None]]
    /\ receiver = [d \in Dsts |-> "idle"]
    /\ attempts = 0

-----------------------------------------------------------------------------
(* A quorum starts a transfer with a newly configured process group.       *)

StartTransfer ==
    /\ sender \in {"idle", "raised"}
    /\ \A d \in Dsts : receiver[d] # "receiving"
    /\ attempts < MaxAttempts
    /\ attempts' = attempts + 1
    /\ posted' = {} /\ asked' = {} /\ delivered' = {}
    /\ sender' = "sending"
    /\ receiver' = [d \in Dsts |-> "receiving"]
    /\ UNCHANGED <<mode, at, live, buffer>>

(* send_checkpoint *)

\* The next tag for every receiver.  Once a tensor that is on the CPU has been
\* posted, all the works so far are waited for.
PostSends(tag) ==
    /\ sender = "sending"
    /\ \A t \in 1 .. tag - 1, d \in Dsts : <<t, d>> \in posted
    /\ <<tag, CHOOSE d \in Dsts : TRUE>> \notin posted
    /\ mode.onCpu /\ tag > 3 => posted \subseteq delivered
    /\ posted' = posted \cup {<<tag, d>> : d \in Dsts}
    /\ UNCHANGED <<mode, senderVars, asked, delivered, buffer, receiver, attempts>>

\* mutant: the sends are not waited for
SendReturnsEarly ==
    /\ sender = "sending"
    /\ posted = Tags \X Dsts
    /\ sender' = "returned"
    /\ UNCHANGED <<mode, at, live, channelVars, receiver, attempts>>

\* Every work was waited for.
SendReturns ==
    /\ sender = "sending"
    /\ posted = Tags \X Dsts
    /\ posted \subseteq delivered
    /\ sender' = "returned"
    /\ UNCHANGED <<mode, at, live, channelVars, receiver, attempts>>

\* A wait fails or times out; the error is reported to the manager.
SendRaises ==
    /\ sender = "sending"
    /\ ~mode.patient
    /\ posted \ delivered # {}
    /\ sender' = "raised"
    /\ UNCHANGED <<mode, at, live, channelVars, receiver, attempts>>

\* The step is committed and the optimizer overwrites the tensors, one at a
\* time, then the next quorum may need another transfer.
Commit ==
    /\ sender = "returned"
    /\ at < LastStep
    /\ at' = at + 1
    /\ sender' = "optim"
    /\ UNCHANGED <<mode, live, channelVars, receiver, attempts>>

OptimStep(i) ==
    /\ sender = "optim"
    /\ live[i] # at
    /\ live' = [live EXCEPT ![i] = at]
    /\ sender' = IF \A j \in Leaves \ {i} : live[j] = at THEN "idle" ELSE "optim"
    /\ UNCHANGED <<mode, at, channelVars, receiver, attempts>>

-----------------------------------------------------------------------------
(* recv_checkpoint of receiver d *)

\* mutant: the tensors are asked for from the last to the first
PostRecvBackwards(d, tag) ==
    LET before(u) == {t \in Tags : IF u <= 2 THEN t < u ELSE t <= 2 \/ t > u}
    IN  /\ receiver[d] = "receiving"
        /\ \A t \in before(tag) : <<t, d>> \in asked
        /\ <<tag, d>> \notin asked
        /\ \A t \in before(tag) : t <= 2 \/ ~mode.inplace => <<t, d>> \in delivered
        /\ asked' = asked \cup {<<tag, d>>}
        /\ UNCHANGED <<mode, senderVars, posted, delivered, buffer, receiver, attempts>>

\* The length, the metadata and the tensors are asked for in order; the first
\* two are waited for, and so is a tensor that is not received in place.
PostRecv(d, tag) ==
    /\ receiver[d] = "receiving"
    /\ \A t \in 1 .. tag - 1 : <<t, d>> \in asked
    /\ <<tag, d>> \notin asked
    /\ \A t \in 1 .. tag - 1 : t <= 2 \/ ~mode.inplace => <<t, d>> \in delivered
    /\ asked' = asked \cup {<<tag, d>>}
    /\ UNCHANGED <<mode, senderVars, posted, delivered, buffer, receiver, attempts>>

RecvReturns(d) ==
    /\ receiver[d] = "receiving"
    /\ \A tag \in Tags : <<tag, d>> \in asked \cap delivered
    /\ receiver' = [receiver EXCEPT ![d] = "returned"]
    /\ UNCHANGED <<mode, senderVars, channelVars, attempts>>

RecvRaises(d) ==
    /\ receiver[d] = "receiving"
    /\ ~mode.patient
    /\ \E tag \in Tags : <<tag, d>> \in asked \ delivered
    /\ receiver' = [receiver EXCEPT ![d] = "raised"]
    /\ UNCHANGED <<mode, senderVars, channelVars, attempts>>

-----------------------------------------------------------------------------
\* The process group moves a message both sides have posted.  The receiver's
\* storage is written even if its recv_checkpoint gave up.
Deliver(tag, d) ==
    /\ <<tag, d>> \in (posted \cap asked) \ delivered
    /\ delivered' = delivered \cup {<<tag, d>>}
    /\ buffer' = IF tag <= 2 THEN buffer
                 ELSE [buffer EXCEPT ![d][LeafOf(tag)] = live[LeafOf(tag)]]
    /\ UNCHANGED <<mode, senderVars, posted, asked, receiver, attempts>>

SenderNext == \/ \E tag \in Tags : PostSends(tag)
              \/ SendReturns \/ SendRaises \/ Commit
              \/ \E i \in Leaves : OptimStep(i)
ReceiverNext(d) == \/ \E tag \in Tags : PostRecv(d, tag)
                   \/ RecvReturns(d) \/ RecvRaises(d)

PGNext == \/ StartTransfer
          \/ SenderNext
          \/ \E d \in Dsts : ReceiverNext(d) \/ \E tag \in Tags : Deliver(tag, d)

PGFairness == /\ WF_pgVars(SenderNext)
              /\ \A d \in Dsts : WF_pgVars(ReceiverNext(d))
              /\ \A d \in Dsts, tag \in Tags : WF_pgVars(Deliver(tag, d))

-----------------------------------------------------------------------------
PGTypeOK ==
    /\ mode \in Modes
    /\ at \in 0 .. LastStep
    /\ live \in [Leaves -> 0 .. LastStep]
    /\ sender \in {"idle", "sending", "returned", "raised", "optim"}
    /\ posted \subseteq Tags \X Dsts /\ asked \subseteq Tags \X Dsts
    /\ delivered \subseteq posted \cap asked
    /\ buffer \in [Dsts -> [Leaves -> 0 .. None]]
    /\ receiver \in [Dsts -> {"idle", "receiving", "returned", "raised"}]

\* What recv_checkpoint returns holds one version of every tensor, although
\* the storage that is sent is overwritten as soon as send_checkpoint returns
\* and disallow_checkpoint does nothing.  pg_transport.py:179
PGReceivedIsWhole ==
    \A d \in Dsts : receiver[d] = "returned" =>
        /\ \A i \in Leaves : buffer[d][i] # None
        /\ \A i, j \in Leaves : buffer[d][i] = buffer[d][j]

\* A transfer ends on both sides.  Where nobody is patient that is what the
\* timeouts are for; in the mode `patient' both sides can only end by
\* returning, so the order of the sends, receives and waits of a sender
\* (pg_transport.py:199) and of several receivers (225) leaves nobody waiting
\* for a message that another does not post.
PGTransferEnds ==
    sender = "sending" ~> sender # "sending" /\ \A d \in Dsts : receiver[d] # "receiving"
=============================================================================
