---------------------------- MODULE HTTPTransport ----------------------------
(***************************************************************************)
(* Live recovery over HTTP: torchft/checkpointing/http_transport.py as the *)
(* manager uses it.                                                        *)
(*                                                                         *)
(* The trainer of an up to date replica stages a checkpoint and allows it  *)
(* (send_checkpoint), disallows it when the commit is decided              *)
(* (should_commit) and then lets the optimizer overwrite the weights       *)
(* tensor by tensor.  On a CPU the staged tensors ARE the weights.  One    *)
(* handler thread per request reads under the reader's lock; a receiver    *)
(* asks for the whole state, or for the tree spec and every chunk at once  *)
(* and glues the chunks together.                                          *)
(*                                                                         *)
(* A tensor's contents are a version: the commit that ends step s leaves   *)
(* every tensor at version s + 1.  A key has one handler thread, so at     *)
(* most one request for it is at the server.                               *)
(***************************************************************************)
EXTENDS RWLock, SequencesExt

CONSTANTS
    Trainer,      \* the thread that calls send, allow and disallow
    Chunk,        \* the keys of the chunks, in order
    NumTensors,   \* values of the flattened state dict
    Configs,      \* [chunks: num_chunks, onCpu: the tensors are not copied]
    MaxStep,      \* bound: commits
    MaxRecvs,     \* bound: calls of recv_checkpoint
    MayRetry      \* should_commit is called again after its TimeoutError

FullKey == "full"
SpecKey == "metadata"
Keys == {FullKey, SpecKey} \cup {Chunk[i] : i \in DOMAIN Chunk}
Tensors == 1 .. NumTensors

ASSUME ThreadsAreTrainerAndHandlers == Threads = Keys \cup {Trainer}

\* The keys of a URL are told apart, and the trainer is no handler.
ASSUME TransportAssumption ==
    /\ Trainer \notin Keys
    /\ Chunk \in Seq(STRING) /\ IsInjective(Chunk)
    /\ \A i \in DOMAIN Chunk : Chunk[i] \notin {FullKey, SpecKey}
    /\ Configs \subseteq [chunks : 0 .. Len(Chunk), onCpu : BOOLEAN]
    /\ NumTensors \in Nat \ {0} /\ MaxStep \in Nat /\ MaxRecvs \in Nat
    /\ MayRetry \in BOOLEAN

VARIABLES
    config,      \* chosen once
    step,        \* _step, the step being served
    disallowed,  \* _disallowed
    staged,      \* the copy in _state_dict and _chunks: a version per tensor
    now,         \* the manager's step
    weights,     \* the live version of each tensor
    trainer,     \* where the trainer is in a training step
    handler,     \* per key, the request at the server
    recv,        \* the recv_checkpoint in progress: its step and its loads
    recvs        \* calls of recv_checkpoint so far

serverVars == <<step, disallowed, staged>>
trainVars  == <<now, weights, trainer>>
recvVars   == <<recv, recvs>>
vars == <<lockVars, config, serverVars, trainVars, handler, recvVars>>

NoRequest == [state |-> "none", step |-> 0, sent |-> <<>>]
Error == <<0>>                            \* an answer that is not 200
Used == IF config.chunks = 0 THEN {FullKey}
        ELSE {SpecKey} \cup {Chunk[i] : i \in 1 .. config.chunks}

\* HTTPTransport.__init__ ends with the checkpoint disallowed; its step -1 is
\* here a step the trainer never reaches.
Init ==
    /\ config \in Configs
    /\ wLock = TRUE /\ numRLock = {} /\ numR = 0
    /\ phase = [t \in Threads |-> IF t = Trainer THEN "writing" ELSE "out"]
    /\ step = MaxStep + 1
    /\ disallowed = TRUE
    /\ staged = [i \in Tensors |-> 0]
    /\ now = 0
    /\ weights = [i \in Tensors |-> 0]
    /\ trainer = "quorum"
    /\ handler = [k \in Keys |-> NoRequest]
    /\ recv = [step |-> 0, load |-> [k \in {} |-> <<>>]]
    /\ recvs = 0

-----------------------------------------------------------------------------
(* The trainer                                                             *)

\* The quorum asks for a checkpoint: send_checkpoint sets _state_dict, _spec
\* and _chunks before it allows the step.
SendCheckpoint ==
    /\ trainer = "quorum"
    /\ staged' = weights
    /\ trainer' = "allow"
    /\ UNCHANGED <<lockVars, config, step, disallowed, now, weights, handler,
                   recvVars>>

\* allow_checkpoint.  The release of a lock nobody holds raises, which the
\* quorum thread catches.
AllowCheckpoint ==
    /\ trainer = "allow"
    /\ step' = now
    /\ disallowed' = FALSE
    /\ IF disallowed THEN WRelease(Trainer) ELSE UNCHANGED lockVars
    /\ trainer' = "train"
    /\ UNCHANGED <<config, staged, now, weights, handler, recvVars>>

\* The quorum needs no checkpoint of this replica.
NothingToSend ==
    /\ trainer = "quorum"
    /\ trainer' = "train"
    /\ UNCHANGED <<lockVars, config, serverVars, now, weights, handler, recvVars>>

\* disallow_checkpoint up to the lock: the flag is set first.
Disallow ==
    /\ trainer = "train"
    /\ disallowed' = TRUE
    /\ trainer' = IF disallowed THEN "decided" ELSE "lock"
    /\ UNCHANGED <<lockVars, config, step, staged, now, weights, handler, recvVars>>

\* mutant: the writer's lock is not waited for
DisallowAtOnce ==
    /\ trainer = "lock"
    /\ trainer' = "decided"
    /\ UNCHANGED <<lockVars, config, serverVars, now, weights, handler, recvVars>>

DisallowTakesLock ==
    /\ trainer = "lock"
    /\ WAcquire(Trainer)
    /\ trainer' = "decided"
    /\ UNCHANGED <<config, serverVars, now, weights, handler, recvVars>>

\* A reader is too slow: the TimeoutError leaves should_commit.
DisallowTimesOut ==
    /\ trainer = "lock"
    /\ WTimeout(Trainer)
    /\ trainer' = IF MayRetry THEN "train" ELSE "raised"
    /\ UNCHANGED <<config, serverVars, now, weights, handler, recvVars>>

\* should_commit returns FALSE: the step is tried again.
Discard ==
    /\ trainer = "decided"
    /\ trainer' = "quorum"
    /\ UNCHANGED <<lockVars, config, serverVars, now, weights, handler, recvVars>>

\* should_commit returns TRUE and the optimizer steps, one tensor at a time.
Commit ==
    /\ trainer = "decided"
    /\ now < MaxStep
    /\ now' = now + 1
    /\ trainer' = "optim"
    /\ UNCHANGED <<lockVars, config, serverVars, weights, handler, recvVars>>

OptimStep(i) ==
    /\ trainer = "optim"
    /\ weights[i] # now
    /\ weights' = [weights EXCEPT ![i] = now]
    /\ trainer' = IF \A j \in Tensors \ {i} : weights[j] = now
                  THEN "quorum" ELSE "optim"
    /\ UNCHANGED <<lockVars, config, serverVars, now, handler, recvVars>>

TrainerNext == \/ SendCheckpoint \/ AllowCheckpoint \/ NothingToSend
               \/ Disallow \/ DisallowTakesLock \/ DisallowTimesOut
               \/ Discard \/ Commit
               \/ \E i \in Tensors : OptimStep(i)

-----------------------------------------------------------------------------
(* The request handlers: do_GET                                            *)

\* _split_chunks: chunk i of n takes every n-th value from the i-th on.
SplitChunk(i, n) == SelectSeq([j \in Tensors |-> j],
                              LAMBDA j : j % n = i % n)

\* The values a key stands for, in the order they are written.
Content(k) ==
    IF k = FullKey THEN [j \in Tensors |-> j]
    ELSE IF k = SpecKey THEN <<>>
    ELSE SplitChunk(CHOOSE i \in DOMAIN Chunk : Chunk[i] = k, config.chunks)

Handle(k, request, answer) ==
    /\ handler' = [handler EXCEPT ![k] = request]
    /\ recv' = IF answer # <<>> /\ k \in DOMAIN recv.load /\ recv.load[k] = <<>>
               THEN [recv EXCEPT !.load[k] = answer] ELSE recv
    /\ UNCHANGED <<config, serverVars, trainVars, recvs>>

EnterReader(k) ==
    /\ handler[k].state = "new"
    /\ REnter(k) \/ RFirst(k)
    /\ UNCHANGED <<config, serverVars, trainVars, handler, recvVars>>

\* 500: the lock timed out.
HandlerTimesOut(k) ==
    /\ handler[k].state = "new"
    /\ RTimeout(k)
    /\ Handle(k, NoRequest, Error)

\* mutant: whatever is staged is sent
CheckNothing(k) ==
    /\ handler[k].state = "new"
    /\ phase[k] = "reading"
    /\ Handle(k, [handler[k] EXCEPT !.state = "sending"], <<>>)
    /\ UNCHANGED lockVars

\* The request is refused (400) or begins to be answered.
CheckStep(k) ==
    /\ handler[k].state = "new"
    /\ phase[k] = "reading"
    /\ IF handler[k].step = step
       THEN Handle(k, [handler[k] EXCEPT !.state = "sending"], <<>>)
       ELSE Handle(k, [handler[k] EXCEPT !.state = "done"], Error)
    /\ UNCHANGED lockVars

\* _streaming_save writes one tensor after another; tensors that were not
\* copied are read as they are now.
SendValue(k) ==
    LET sent == handler[k].sent
        i == Content(k)[Len(sent) + 1]
        value == <<i, IF config.onCpu THEN weights[i] ELSE staged[i]>>
    IN  /\ handler[k].state = "sending"
        /\ Len(sent) < Len(Content(k))
        /\ Handle(k, [handler[k] EXCEPT !.sent = Append(sent, value)], <<>>)
        /\ UNCHANGED lockVars

\* The answer is complete; the spec's contents are not a tensor.
EndAnswer(k) ==
    /\ handler[k].state = "sending"
    /\ Len(handler[k].sent) = Len(Content(k))
    /\ Handle(k, [handler[k] EXCEPT !.state = "done"],
              <<1, handler[k].sent>>)
    /\ UNCHANGED lockVars

\* The end of "with r_lock()".
LeaveReader(k) ==
    /\ handler[k].state = "done"
    /\ RRelease(k)
    /\ Handle(k, NoRequest, <<>>)

HandlerNext(k) == \/ EnterReader(k) \/ HandlerTimesOut(k) \/ CheckStep(k)
                  \/ SendValue(k) \/ EndAnswer(k) \/ LeaveReader(k)

-----------------------------------------------------------------------------
(* The receiver: recv_checkpoint                                           *)

Ended == \A k \in DOMAIN recv.load : recv.load[k] # <<>>

\* A quorum sends the receiver to this replica's step; it asks for every key
\* at once.
StartRecv ==
    /\ Ended
    /\ recvs < MaxRecvs
    /\ trainer # "optim"
    /\ \A k \in Used : handler[k] = NoRequest /\ phase[k] = "out"
    /\ recv' = [step |-> now, load |-> [k \in Used |-> <<>>]]
    /\ recvs' = recvs + 1
    /\ handler' = [k \in Keys |-> IF k \in Used
                     THEN [state |-> "new", step |-> now, sent |-> <<>>]
                     ELSE handler[k]]
    /\ UNCHANGED <<lockVars, config, serverVars, trainVars>>

\* One load gives up; the server does not know.
LoadTimesOut(k) ==
    /\ k \in DOMAIN recv.load
    /\ recv.load[k] = <<>>
    /\ recv' = [recv EXCEPT !.load[k] = Error]
    /\ UNCHANGED <<lockVars, config, serverVars, trainVars, handler, recvs>>

\* _merge_chunks: one value of each chunk in turn.
MergeChunks(chunks) ==
    LET longest == Len(chunks[1])
        round(i) == [c \in DOMAIN chunks |->
                       IF i <= Len(chunks[c]) THEN <<chunks[c][i]>> ELSE <<>>]
    IN  FlattenSeq(FlattenSeq([i \in 1 .. longest |-> round(i)]))

\* _merge_chunks undoes _split_chunks, whose chunks are made of values of the
\* state dict.
MergeUndoesSplit(n) ==
    /\ \A i \in 1 .. n : SplitChunk(i, n) \in Seq(Tensors)
    /\ \A s \in 0 .. MaxStep :
         MergeChunks([i \in 1 .. n |-> [p \in 1 .. Len(SplitChunk(i, n)) |->
                                         <<SplitChunk(i, n)[p], s>>]])
           = [j \in Tensors |-> <<j, s>>]

\* future.result() raises for a load that failed.
Succeeded == recvs > 0 /\ Ended /\ \A k \in Used : recv.load[k] # Error

Received ==
    IF config.chunks = 0 THEN recv.load[FullKey][2]
    ELSE MergeChunks([i \in 1 .. config.chunks |-> recv.load[Chunk[i]][2]])

-----------------------------------------------------------------------------
Next == \/ TrainerNext
        \/ \E k \in Keys : HandlerNext(k) \/ LoadTimesOut(k)
        \/ StartRecv

\* The handler threads run.
Fairness == \A k \in Keys : WF_vars(HandlerNext(k))

Spec == Init /\ [][Next]_vars /\ Fairness

TypeOK ==
    /\ LockTypeOK
    /\ step \in 0 .. MaxStep + 1
    /\ disallowed \in BOOLEAN
    /\ now \in 0 .. MaxStep
    /\ weights \in [Tensors -> 0 .. MaxStep]
    /\ staged \in [Tensors -> 0 .. MaxStep]
    /\ trainer \in {"quorum", "allow", "train", "lock", "decided", "optim", "raised"}
    /\ \A k \in Keys : handler[k].state \in {"none", "new", "sending", "done"}

\* What recv_checkpoint returns is the state dict the sender had at the step
\* that was asked for, every value at its place and of that one step, however
\* the chunks, the optimizer and further steps interleave with the transfer.
ReceivedIsCheckpoint ==
    Succeeded => Received = [i \in Tensors |-> <<i, recv.step>>]

\* disallow_checkpoint: "Once this returns, the state_dict may be mutated so
\* no further data should be sent".  transport.py:45
DisallowedSendsNothing ==
    trainer \in {"decided", "optim"} =>
        \A k \in Keys : handler[k].state # "sending"

\* A handler thread ends, whatever the receiver does: no request holds the
\* reader's lock for ever.
RequestsEnd == \A k \in Keys : handler[k].state # "none" ~> handler[k].state = "none"
=============================================================================
