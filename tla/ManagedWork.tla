----------------------------- MODULE ManagedWork -----------------------------
(***************************************************************************)
(* One training step of a replica seen from Manager.allreduce: the works   *)
(* it returns, their lazy callback chains (_ManagedWork, _ManagedFuture),  *)
(* the futures that never fail (wrap_future), and what the data parallel   *)
(* wrappers do with them before should_commit.                             *)
(*                                                                         *)
(* The reduce adds up the gradients in place, in a thread of the process   *)
(* group; the division by num_participants is a callback of the chain,     *)
(* which is only built when somebody waits for the work or synchronizes    *)
(* with it.  A chain built while the reduce is still running is "late":    *)
(* its callbacks run in the process group's thread, when the variable they *)
(* share already points at the end of the chain, so their assertion fails. *)
(***************************************************************************)
EXTENDS Naturals, Sequences

CONSTANTS
    NumBuckets,  \* tensors to reduce in the step
    Uses         \* how the caller treats the works; see Init

Buckets == 1 .. NumBuckets

VARIABLES
    use,      \* "ddp", "pure", "wait" or "sync": who calls allreduce
    length,   \* callbacks in a chain: allreduce's own and the caller's
    tells,    \* the process group's errored() knows of failed operations
    pc,       \* the trainer: <<what, bucket>>
    errored,  \* manager._errored is set
    op,       \* the process group's operation
    tensor,   \* [summed, divided: how often]
    chain,    \* the state of the callback chain
    tailFails,\* the chain's last future has an exception
    result    \* what wait() returned

vars == <<use, length, tells, pc, errored, op, tensor, chain, tailFails, result>>
modeVars == <<use, length, tells>>

\* "ddp" is ddp.DistributedDataParallel's comm hook; "pure" is
\* PureDistributedDataParallel's gradient hook; "wait" issues every reduce and
\* then waits for each (ManagedProcessGroup, local_sgd.py); "sync" calls
\* synchronize() on a CPU and then waits.
Init ==
    /\ use \in Uses
    /\ length \in IF use \in {"ddp", "pure"} THEN {1} ELSE {1, 2}
    /\ tells \in BOOLEAN
    /\ pc = <<"call", 1>>
    /\ errored = FALSE
    /\ op = [b \in Buckets |-> "none"]
    /\ tensor = [b \in Buckets |-> [summed |-> FALSE, divided |-> 0]]
    /\ chain = [b \in Buckets |-> "lazy"]
    /\ tailFails = [b \in Buckets |-> FALSE]
    /\ result = [b \in Buckets |-> "none"]

At(what, b) == pc = <<what, b>>

\* What the caller does next with bucket b's work, and after the last bucket.
AfterCall(b) ==
    IF use = "ddp" THEN <<"wait", b>>
    ELSE IF use = "sync" THEN <<"sync", b>>
    ELSE IF b < NumBuckets THEN <<"call", b + 1>>
    ELSE IF use = "wait" THEN <<"wait", 1>> ELSE <<"decide", 0>>

AfterWait(b) ==
    IF b < NumBuckets THEN <<IF use = "ddp" THEN "call" ELSE "wait", b + 1>>
    ELSE <<"decide", 0>>

-----------------------------------------------------------------------------
(* Manager.allreduce                                                       *)

\* After an error nothing is reduced: a _DummyWork is returned.
CallSkipped(b) ==
    /\ At("call", b)
    /\ errored
    /\ op' = [op EXCEPT ![b] = "dummy"]
    /\ pc' = AfterCall(b)
    /\ UNCHANGED <<modeVars, errored, tensor, chain, tailFails, result>>

CallIssues(b) ==
    /\ At("call", b)
    /\ ~errored
    /\ op' = [op EXCEPT ![b] = "pending"]
    /\ pc' = AfterCall(b)
    /\ UNCHANGED <<modeVars, errored, tensor, chain, tailFails, result>>

\* The process group, or the wait for the quorum, raises.
CallRaises(b) ==
    /\ At("call", b)
    /\ ~errored
    /\ errored' = TRUE
    /\ op' = [op EXCEPT ![b] = "dummy"]
    /\ pc' = AfterCall(b)
    /\ UNCHANGED <<modeVars, tensor, chain, tailFails, result>>

\* The process group ends the operation; it has timeouts of its own.
OpDone(b) ==
    /\ op[b] = "pending"
    /\ op' = [op EXCEPT ![b] = "done"]
    /\ tensor' = [tensor EXCEPT ![b].summed = TRUE]
    /\ UNCHANGED <<modeVars, pc, errored, chain, tailFails, result>>

OpFails(b) ==
    /\ op[b] = "pending"
    /\ op' = [op EXCEPT ![b] = "failed"]
    /\ UNCHANGED <<modeVars, pc, errored, tensor, chain, tailFails, result>>

-----------------------------------------------------------------------------
(* _ManagedWork                                                            *)

\* mutant: the chain is built again by a second call
SetFutureCallbackAgain(b) ==
    CASE op[b] = "pending" -> chain' = [chain EXCEPT ![b] = "late"] /\ UNCHANGED <<errored, tensor>>
      [] op[b] = "done" ->
            /\ chain' = [chain EXCEPT ![b] = "ran"]
            /\ tensor' = [tensor EXCEPT ![b].divided = @ + 1]
            /\ UNCHANGED errored
      [] op[b] = "failed" ->
            /\ chain' = [chain EXCEPT ![b] = "ran"]
            /\ errored' = TRUE
            /\ UNCHANGED tensor

\* _set_future_callback.  On a finished operation the callbacks run here, in
\* order; wrap_future turns a failure of the first into its default value.
\* The caller's own callbacks do not divide.
SetFutureCallback(b) ==
    CASE chain[b] # "lazy" -> UNCHANGED <<errored, tensor, chain>>
      [] chain[b] = "lazy" /\ op[b] = "pending" ->
            chain' = [chain EXCEPT ![b] = "late"] /\ UNCHANGED <<errored, tensor>>
      [] chain[b] = "lazy" /\ op[b] = "done" ->
            /\ chain' = [chain EXCEPT ![b] = "ran"]
            /\ tensor' = [tensor EXCEPT ![b].divided = @ + 1]
            /\ UNCHANGED errored
      [] chain[b] = "lazy" /\ op[b] = "failed" ->
            /\ chain' = [chain EXCEPT ![b] = "ran"]
            /\ errored' = TRUE
            /\ UNCHANGED tensor

\* mutant: nobody reports what a late callback raises
LateCallbacksQuiet(b) ==
    /\ chain[b] = "late"
    /\ op[b] # "pending"
    /\ chain' = [chain EXCEPT ![b] = "ran"]
    /\ tailFails' = [tailFails EXCEPT ![b] = FALSE]
    /\ UNCHANGED <<modeVars, pc, errored, op, tensor, result>>

\* A late chain: the operation ends, the first callback's assertion fails,
\* wrap_future reports it; a second callback fails with nobody to report it.
LateCallbacks(b) ==
    /\ chain[b] = "late"
    /\ op[b] # "pending"
    /\ errored' = TRUE
    /\ chain' = [chain EXCEPT ![b] = "ran"]
    /\ tailFails' = [tailFails EXCEPT ![b] = (length > 1)]
    /\ UNCHANGED <<modeVars, pc, op, tensor, result>>

\* A late chain: the timer of future_timeout comes first.
LateTimeout(b) ==
    /\ chain[b] = "late"
    /\ op[b] = "pending"
    /\ errored' = TRUE
    /\ chain' = [chain EXCEPT ![b] = "ran"]
    /\ tailFails' = [tailFails EXCEPT ![b] = (length > 1)]
    /\ UNCHANGED <<modeVars, pc, op, tensor, result>>

\* synchronize() without an accelerator does not wait for the operation.
Synchronize(b) ==
    /\ At("sync", b)
    /\ IF op[b] = "dummy" THEN UNCHANGED <<errored, tensor, chain>>
       ELSE SetFutureCallback(b)
    /\ pc' = IF b < NumBuckets THEN <<"call", b + 1>> ELSE <<"wait", 1>>
    /\ UNCHANGED <<modeVars, op, tailFails, result>>

\* mutant: the chain is not built
WaitOpOnly(b) ==
    /\ At("wait", b)
    /\ op[b] \in {"done", "failed"}
    /\ pc' = <<"tail", b>>
    /\ UNCHANGED <<modeVars, errored, op, tensor, chain, tailFails, result>>

\* wait(): the operation, then the chain, then its last future.
WaitOp(b) ==
    /\ At("wait", b)
    /\ op[b] \in {"done", "failed"}
    /\ IF op[b] = "failed"
       THEN /\ errored' = TRUE
            /\ result' = [result EXCEPT ![b] = "FALSE"]
            /\ pc' = <<"waited", b>>
            /\ UNCHANGED <<tensor, chain>>
       ELSE /\ SetFutureCallback(b)
            /\ pc' = <<"tail", b>>
            /\ UNCHANGED result
    /\ UNCHANGED <<modeVars, op, tailFails>>

WaitTail(b) ==
    /\ At("tail", b)
    /\ chain[b] = "ran"
    /\ errored' = (errored \/ tailFails[b])
    /\ result' = [result EXCEPT ![b] = IF tailFails[b] THEN "FALSE" ELSE "TRUE"]
    /\ pc' = <<"waited", b>>
    /\ UNCHANGED <<modeVars, op, tensor, chain, tailFails>>

WaitDummy(b) ==
    /\ At("wait", b)
    /\ op[b] = "dummy"
    /\ result' = [result EXCEPT ![b] = "TRUE"]
    /\ pc' = <<"waited", b>>
    /\ UNCHANGED <<modeVars, errored, op, tensor, chain, tailFails>>

\* The comm hook returns the last future's _fut.  A _DummyWork's future has
\* none, and neither has a chain that was never built: the hook raises.
Return(b) ==
    /\ At("waited", b)
    /\ pc' = IF use = "ddp" /\ chain[b] = "lazy" THEN <<"raised", b>>
             ELSE AfterWait(b)
    /\ UNCHANGED <<modeVars, errored, op, tensor, chain, tailFails, result>>

-----------------------------------------------------------------------------
\* should_commit, as far as this replica's vote goes.
Decide ==
    /\ pc = <<"decide", 0>>
    /\ errored' = (errored \/ (tells /\ \E b \in Buckets : op[b] = "failed"))
    /\ pc' = <<IF errored' THEN "discarded" ELSE "committed", 0>>
    /\ UNCHANGED <<modeVars, op, tensor, chain, tailFails, result>>

CallerNext ==
    \/ \E b \in Buckets : \/ CallSkipped(b) \/ CallIssues(b) \/ CallRaises(b)
                          \/ Synchronize(b)
                          \/ WaitOp(b) \/ WaitTail(b) \/ WaitDummy(b) \/ Return(b)
    \/ Decide

Next == CallerNext
        \/ \E b \in Buckets : OpDone(b) \/ OpFails(b) \/ LateCallbacks(b) \/ LateTimeout(b)

\* The trainer runs; the process group and the timers end what is begun.
Fairness == /\ WF_vars(CallerNext)
            /\ \A b \in Buckets : WF_vars(\/ OpDone(b) \/ OpFails(b)
                                         \/ LateCallbacks(b) \/ LateTimeout(b))

Spec == Init /\ [][Next]_vars /\ Fairness

-----------------------------------------------------------------------------
Places == {"call", "sync", "wait", "tail", "waited", "decide", "raised",
           "discarded", "committed"}

TypeOK ==
    /\ use \in Uses /\ length \in 1 .. 2 /\ tells \in BOOLEAN
    /\ pc \in Places \X (0 .. NumBuckets)
    /\ errored \in BOOLEAN
    /\ op \in [Buckets -> {"none", "dummy", "pending", "done", "failed"}]
    /\ tensor \in [Buckets -> [summed : BOOLEAN, divided : 0 .. 1]]
    /\ chain \in [Buckets -> {"lazy", "late", "ran"}]
    /\ tailFails \in [Buckets -> BOOLEAN]
    /\ result \in [Buckets -> {"none", "TRUE", "FALSE"}]

IsAverage(b) == tensor[b] = [summed |-> TRUE, divided |-> 1]
Committed == pc[1] = "committed"

\* A step that is committed has the average in every tensor whose work was
\* waited for: no failed, late, timed out or skipped reduce gets through,
\* whether or not wait() returned TRUE for it.
WaitedIsAverage ==
    Committed => \A b \in Buckets : result[b] # "none" => IsAverage(b)

\* Every reduce that failed and that the trainer waited for is known to the
\* manager by the time it votes, also when the process group does not tell.
FailuresAreReported ==
    pc[1] = "decide" => \A b \in Buckets :
        op[b] \in {"failed", "dummy"} /\ result[b] # "none" => errored

\* What a replica votes for is what it has: see the parts.
VotesAreInformed == WaitedIsAverage /\ FailuresAreReported

\* The step ends: no wait is left waiting for a chain that nobody runs.
StepEnds == <>(pc[1] \in {"committed", "discarded", "raised"})
=============================================================================
