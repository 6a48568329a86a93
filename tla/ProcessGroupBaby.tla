--------------------------- MODULE ProcessGroupBaby ---------------------------
(***************************************************************************)
(* The process group that runs in a subprocess: ProcessGroupBaby of        *)
(* torchft/process_group.py over the pipes of torchft/multiprocessing.py.  *)
(*                                                                         *)
(* The parent sends commands down one pipe and reads the answers to its    *)
(* waits from the same pipe; the results of futures come up a second pipe  *)
(* to a thread that completes them by operation id.  configure() kills the *)
(* subprocess and starts a new one with new pipes, but operation ids go on *)
(* and an old work that is freed tells the new subprocess to delete it.    *)
(* The subprocess runs a command loop; an operation that ends in another   *)
(* thread announces it under whatever id the loop's variable op_id holds.  *)
(*                                                                         *)
(* What a wait means depends on the backend of the subprocess.  Over Gloo  *)
(* it blocks until the operation has ended, and so does the operation's    *)
(* future.  Over NCCL or XCCL ("stream") a wait without a timeout makes    *)
(* the stream wait: it answers while the operation still runs, and the     *)
(* future is complete as soon as the operation was issued.                 *)
(*                                                                         *)
(* FreesFirst: the works of a step are gone before the next quorum         *)
(* configures.  SynchronizeGloo: a work over Gloo may be used through      *)
(* _ManagedWork.synchronize(), which asks for the future without a wait;   *)
(* _ManagedWork.wait() waits first.  Over the stream either may be used.   *)
(***************************************************************************)
EXTENDS Naturals, Sequences

CONSTANTS
    MaxOps,     \* bound: operations
    MaxGen,     \* bound: calls of configure
    FreesFirst,      \* works do not outlive their configuration
    SynchronizeGloo  \* futures over Gloo are asked for without a wait

Ops == 1 .. MaxOps
None == 0

VARIABLES
    backend,  \* what _create_pg makes: "gloo" or "stream"
    status,   \* what the last configure() came to
    gen,      \* calls of configure
    nextOp,   \* _next_op_id
    reqs,     \* the command pipe
    answers,  \* the same pipe, towards the parent
    futPipe,  \* the future pipe
    worker,   \* the subprocess
    opId,     \* the loop's variable op_id
    work,     \* the loop's dictionary of works
    watched,  \* works with a done callback
    op,       \* the state of each operation
    opGen,    \* the configuration it was issued under
    works,    \* the parent's work objects
    waiting,  \* the operation the parent waits for
    timedOps, \* the operations waited for on the stream with a timeout
    waited,   \* what the parent's wait gave
    answerOf, \* the operation whose answer the wait took
    lateWait, \* a wait of this configuration timed out
    registered, \* _futures
    future,   \* the futures given out
    futureOf, \* the operation whose result a future was completed with
    handler   \* _future_thread

pipeVars   == <<reqs, answers, futPipe>>
workerVars == <<worker, opId, work, watched>>
parentVars == <<backend, status, gen, nextOp, works, opGen>>
waitVars   == <<waiting, timedOps, waited, answerOf, lateWait>>
futureVars == <<registered, future, futureOf, handler>>
vars == <<pipeVars, workerVars, op, parentVars, waitVars, futureVars>>

Init ==
    /\ backend \in {"gloo", "stream"} /\ status = "none"
    /\ gen = 0 /\ nextOp = 1
    /\ reqs = <<>> /\ answers = <<>> /\ futPipe = <<>>
    /\ worker = "none" /\ opId = None /\ work = {} /\ watched = {}
    /\ op = [o \in Ops |-> "none"]
    /\ opGen = [o \in Ops |-> 0]
    /\ works = {}
    /\ waiting = None /\ timedOps = {} /\ waited = [o \in Ops |-> "no"]
    /\ answerOf = [o \in Ops |-> None] /\ lateWait = FALSE
    /\ registered = {} /\ future = [o \in Ops |-> "none"]
    /\ futureOf = [o \in Ops |-> None] /\ handler = "none"

-----------------------------------------------------------------------------
(* The parent                                                              *)

Killed == [o \in Ops |-> IF op[o] \in {"sent", "running"} THEN "killed" ELSE op[o]]

\* shutdown() and a new subprocess, with new pipes and no futures; configure()
\* goes on to wait for the subprocess's first message.
Configure ==
    /\ waiting = None
    /\ status # "configuring"
    /\ gen < MaxGen
    /\ FreesFirst => works = {}
    /\ status' = "configuring"
    /\ gen' = gen + 1
    /\ reqs' = <<>> /\ answers' = <<>> /\ futPipe' = <<>>
    /\ worker' = "starting" /\ opId' = None /\ work' = {} /\ watched' = {}
    /\ op' = Killed
    /\ lateWait' = FALSE
    /\ registered' = {} /\ handler' = "running"
    /\ UNCHANGED <<backend, nextOp, works, opGen, waiting, timedOps, waited, answerOf,
                   future, futureOf>>

\* shutdown() raises, since the future thread did not exit in time: the pipes
\* are closed, and the old subprocess, which is not killed, ends at that.
ShutdownRaises ==
    /\ waiting = None
    /\ status # "configuring"
    /\ FreesFirst => works = {}
    /\ handler = "running"
    /\ status' = "raised"
    /\ reqs' = <<>> /\ answers' = <<>> /\ futPipe' = <<>>
    /\ worker' = "dead" /\ opId' = None /\ work' = {} /\ watched' = {}
    /\ op' = Killed
    /\ UNCHANGED <<backend, gen, nextOp, works, opGen, waitVars, futureVars>>

ConfigureReturns ==
    /\ status = "configuring"
    /\ worker = "ready"
    /\ status' = "configured"
    /\ UNCHANGED <<pipeVars, workerVars, op, backend, gen, nextOp, works, opGen, waitVars,
                   futureVars>>

\* The subprocess reports an error, or nothing within the timeout.
ConfigureRaises ==
    /\ status = "configuring"
    /\ status' = "raised"
    /\ UNCHANGED <<pipeVars, workerVars, op, backend, gen, nextOp, works, opGen, waitVars,
                   futureVars>>

\* Anything the parent sends to a dead subprocess raises. After a configure()
\* that raised the manager has an error, and issues nothing.
CanSend == status = "configured" /\ worker # "dead" /\ waiting = None

\* _run_func
RunFunc ==
    /\ CanSend
    /\ nextOp <= MaxOps
    /\ reqs' = Append(reqs, <<"func", nextOp>>)
    /\ nextOp' = nextOp + 1
    /\ works' = works \cup {nextOp}
    /\ op' = [op EXCEPT ![nextOp] = "sent"]
    /\ opGen' = [opGen EXCEPT ![nextOp] = gen]
    /\ UNCHANGED <<backend, status, gen, answers, futPipe, workerVars, waitVars,
                   futureVars>>

\* _wait: the command, with a timeout or without, then the answer, an
\* exception, or a timeout.
Wait(o) ==
    /\ CanSend
    /\ o \in works /\ opGen[o] = gen /\ waited[o] = "no" /\ future[o] = "none"
    /\ reqs' = Append(reqs, <<"wait", o>>)
    /\ waiting' = o
    /\ \/ UNCHANGED timedOps
       \/ backend = "stream" /\ timedOps' = timedOps \cup {o}
    /\ UNCHANGED <<answers, futPipe, workerVars, op, parentVars, waited, answerOf,
                   lateWait, futureVars>>

\* The answer is not checked to be that of the operation waited for:
\* "assert op_id == op_id" compares the answer with itself.
WaitReturns ==
    /\ waiting # None
    /\ answers # <<>>
    /\ answers' = Tail(answers)
    /\ waited' = [waited EXCEPT ![waiting] =
                    IF Head(answers)[1] = "answer" THEN "TRUE" ELSE "raised"]
    /\ answerOf' = [answerOf EXCEPT ![waiting] = Head(answers)[2]]
    /\ waiting' = None
    /\ UNCHANGED <<reqs, futPipe, workerVars, op, parentVars, timedOps, lateWait,
                   futureVars>>

WaitTimesOut ==
    /\ waiting # None
    /\ answers = <<>>
    /\ waited' = [waited EXCEPT ![waiting] = "raised"]
    /\ waiting' = None
    /\ lateWait' = TRUE
    /\ UNCHANGED <<pipeVars, workerVars, op, parentVars, timedOps, answerOf, futureVars>>

\* mutant: the future is asked for before the operation was waited for
GetFutureAtOnce(o) ==
    /\ CanSend
    /\ o \in works /\ opGen[o] = gen /\ future[o] = "none"
    /\ registered' = registered \cup {o}
    /\ future' = [future EXCEPT ![o] = "pending"]
    /\ reqs' = Append(reqs, <<"future", o>>)
    /\ UNCHANGED <<answers, futPipe, workerVars, op, parentVars, waitVars, futureOf,
                   handler>>

\* _get_future, under _futures_lock. _ManagedWork.wait() asks for the future
\* when its wait has returned, _ManagedWork.synchronize() at once.
GetFuture(o) ==
    /\ CanSend
    /\ o \in works /\ opGen[o] = gen /\ future[o] = "none"
    /\ waited[o] # "raised"
    /\ backend = "gloo" /\ ~SynchronizeGloo => waited[o] = "TRUE"
    /\ registered' = registered \cup {o}
    /\ future' = [future EXCEPT ![o] = "pending"]
    /\ reqs' = Append(reqs, <<"future", o>>)
    /\ UNCHANGED <<answers, futPipe, workerVars, op, parentVars, waitVars, futureOf,
                   handler>>

\* _BabyWork.__del__, to whatever subprocess there is; a closed pipe is fine.
Free(o) ==
    /\ o \in works
    /\ waiting # o
    /\ works' = works \ {o}
    /\ reqs' = IF worker \in {"none", "dead"} THEN reqs ELSE Append(reqs, <<"del", o>>)
    /\ UNCHANGED <<answers, futPipe, workerVars, op, backend, status, gen, nextOp, opGen,
                   waitVars, futureVars>>

-----------------------------------------------------------------------------
(* The subprocess: _worker                                                 *)

\* The subprocess ends, and what it knew and had not read is gone with it. The
\* parent's reads raise.
Die ==
    /\ worker' = "dead"
    /\ reqs' = <<>> /\ opId' = None /\ work' = {} /\ watched' = {}
    /\ answers' = Append(answers, <<"exception", None>>)

WorkerStarts ==
    /\ worker = "starting"
    /\ worker' = "ready"
    /\ UNCHANGED <<pipeVars, opId, work, watched, op, parentVars, waitVars, futureVars>>

WorkerFailsToStart ==
    /\ worker = "starting"
    /\ worker' = "dead"
    /\ UNCHANGED <<pipeVars, opId, work, watched, op, parentVars, waitVars, futureVars>>

\* The next command is cmd, of operation o.
Takes(cmd, o) ==
    /\ worker = "ready"
    /\ reqs # <<>>
    /\ Head(reqs) = <<cmd, o>>
    /\ UNCHANGED <<parentVars, waitVars, futureVars>>

\* The command is carried out, with its operation's id in op_id.
Reads(o) == reqs' = Tail(reqs) /\ opId' = o

DoFunc(o) ==
    /\ Takes("func", o)
    /\ Reads(o)
    /\ op' = [op EXCEPT ![o] = "running"]
    /\ work' = work \cup {o}
    /\ UNCHANGED <<answers, futPipe, worker, watched>>

\* The operation cannot be issued: the exception ends the loop.
DoFuncRaises(o) ==
    /\ Takes("func", o)
    /\ op' = [op EXCEPT ![o] = "failed"]
    /\ Die
    /\ UNCHANGED futPipe

\* A wait blocks the loop; an id that is not in the dictionary ends it.
DoWait(o) ==
    /\ Takes("wait", o)
    /\ IF o \in work
       THEN Reads(o) /\ worker' = "waiting" /\ UNCHANGED <<answers, work, watched>>
       ELSE Die
    /\ UNCHANGED <<futPipe, op>>

DoDel(o) ==
    /\ Takes("del", o)
    /\ IF o \in work
       THEN Reads(o) /\ work' = work \ {o} /\ UNCHANGED <<answers, worker, watched>>
       ELSE Die
    /\ UNCHANGED <<futPipe, op>>

\* A wait that makes only the stream wait.
OnlyStreamWaits(o) == backend = "stream" /\ o \notin timedOps

\* What the future of an operation that is complete says: over the stream it was
\* completed when the operation was issued.
Result(o) == IF backend = "stream" \/ op[o] = "done" THEN "value" ELSE "error"

\* mutant: a callback on an operation that has ended is only noted
DoFutureWatches(o) ==
    /\ Takes("future", o)
    /\ IF o \in work
       THEN Reads(o) /\ watched' = watched \cup {o} /\ UNCHANGED <<answers, worker, work>>
       ELSE Die
    /\ UNCHANGED <<futPipe, op>>

\* A done callback on a future that is complete runs at once.
DoFuture(o) ==
    /\ Takes("future", o)
    /\ IF o \in work
       THEN /\ Reads(o)
            /\ IF backend = "gloo" /\ op[o] = "running"
               THEN watched' = watched \cup {o} /\ UNCHANGED futPipe
               ELSE futPipe' = Append(futPipe, <<o, Result(o), o>>) /\ UNCHANGED watched
            /\ UNCHANGED <<answers, worker, work>>
       ELSE Die /\ UNCHANGED futPipe
    /\ UNCHANGED op

\* The wait in the subprocess ends: the operation is done, or only the stream
\* waits for it. If the operation failed, or takes too long, the wait raises,
\* and the loop ends.
WaitedOpEnds ==
    /\ worker = "waiting"
    /\ \/ /\ op[opId] = "done" \/ OnlyStreamWaits(opId)
          /\ worker' = "ready" /\ answers' = Append(answers, <<"answer", opId>>)
          /\ UNCHANGED <<reqs, opId, work, watched>>
       \/ op[opId] # "done" /\ Die
    /\ UNCHANGED <<futPipe, op, parentVars, waitVars, futureVars>>

\* The operation ends, in a thread of its own; its callback reads op_id then.
OpEnds(o) ==
    /\ worker \in {"ready", "waiting"}
    /\ op[o] = "running"
    /\ \E r \in {"done", "failed"} :
        /\ op' = [op EXCEPT ![o] = r]
        /\ futPipe' = IF o \in watched
                      THEN Append(futPipe, <<opId, IF r = "done" THEN "value" ELSE "error", o>>)
                      ELSE futPipe
    /\ watched' = watched \ {o}
    /\ UNCHANGED <<reqs, answers, worker, opId, work, parentVars, waitVars, futureVars>>

\* The subprocess is lost: the parent's reads fail. Before configure() has
\* read the first message nothing tells it from a loss after that.
WorkerCrashes ==
    /\ worker \in {"ready", "waiting"}
    /\ status # "configuring"
    /\ Die
    /\ UNCHANGED <<futPipe, op, parentVars, waitVars, futureVars>>

WorkerNext == \/ WorkerStarts \/ WorkerFailsToStart \/ WaitedOpEnds
              \/ \E o \in Ops : \/ DoFunc(o) \/ DoFuncRaises(o) \/ DoWait(o)
                                \/ DoDel(o) \/ DoFuture(o)

-----------------------------------------------------------------------------
\* _future_handler: an id without a future ends the thread.
HandleFuture ==
    /\ handler = "running"
    /\ futPipe # <<>>
    /\ futPipe' = Tail(futPipe)
    /\ LET o == Head(futPipe)[1]
       IN  IF o \in registered
           THEN /\ registered' = registered \ {o}
                /\ future' = [future EXCEPT ![o] = Head(futPipe)[2]]
                /\ futureOf' = [futureOf EXCEPT ![o] = Head(futPipe)[3]]
                /\ UNCHANGED handler
           ELSE handler' = "ended" /\ UNCHANGED <<registered, future, futureOf>>
    /\ UNCHANGED <<reqs, answers, workerVars, op, parentVars, waitVars>>

\* The end of the pipe is not an OSError: the thread ends, and the futures
\* that are registered stay pending.
HandlerSeesEnd ==
    /\ handler = "running"
    /\ worker = "dead"
    /\ futPipe = <<>>
    /\ handler' = "ended"
    /\ UNCHANGED <<pipeVars, workerVars, op, parentVars, waitVars, registered, future,
                   futureOf>>

HandlerNext == HandleFuture \/ HandlerSeesEnd

-----------------------------------------------------------------------------
Next ==
    \/ Configure \/ ShutdownRaises \/ ConfigureReturns \/ ConfigureRaises
    \/ RunFunc \/ WaitReturns \/ WaitTimesOut
    \/ \E o \in Ops : Wait(o) \/ GetFuture(o) \/ Free(o) \/ OpEnds(o)
    \/ WorkerNext \/ WorkerCrashes
    \/ HandlerNext

\* The subprocess and the handler thread run, and operations end.
Fairness == /\ WF_vars(WorkerNext) /\ WF_vars(HandlerNext)
            /\ WF_vars(WaitReturns \/ WaitTimesOut)
            /\ \A o \in Ops : WF_vars(OpEnds(o))

Spec == Init /\ [][Next]_vars /\ Fairness

-----------------------------------------------------------------------------
Commands == {"func", "wait", "del", "future"} \X Ops

TypeOK ==
    /\ backend \in {"gloo", "stream"}
    /\ status \in {"none", "configuring", "configured", "raised"}
    /\ gen \in 0 .. MaxGen /\ nextOp \in 1 .. MaxOps + 1
    /\ reqs \in Seq(Commands)
    /\ answers \in Seq({"answer", "exception"} \X (Ops \cup {None}))
    /\ futPipe \in Seq(Ops \X {"value", "error"} \X Ops)
    /\ worker \in {"none", "starting", "ready", "waiting", "dead"}
    /\ opId \in Ops \cup {None} /\ work \subseteq Ops /\ watched \subseteq Ops
    /\ op \in [Ops -> {"none", "sent", "running", "done", "failed", "killed"}]
    /\ opGen \in [Ops -> 0 .. MaxGen] /\ works \subseteq Ops
    /\ waiting \in Ops \cup {None} /\ timedOps \subseteq Ops
    /\ waited \in [Ops -> {"no", "TRUE", "raised"}]
    /\ answerOf \in [Ops -> Ops \cup {None}] /\ lateWait \in BOOLEAN
    /\ registered \subseteq Ops
    /\ future \in [Ops -> {"none", "pending", "value", "error"}]
    /\ futureOf \in [Ops -> Ops \cup {None}]
    /\ handler \in {"none", "running", "ended"}

\* A wait that returns TRUE took the answer to its own operation, and unless
\* only the stream was to wait, that operation is done. This does not hold after
\* an earlier wait of the same configuration timed out and left its answer in
\* the pipe; no answer survives a configuration. Over the stream TRUE says
\* nothing of the operation, which may still run, or fail untold.
\* process_group.py:1751
WaitMeansDone ==
    \A o \in Ops : waited[o] = "TRUE" /\ opGen[o] = gen /\ ~lateWait =>
        /\ answerOf[o] = o
        /\ OnlyStreamWaits(o) \/ op[o] = "done"

\* A future has its own operation's result, whatever else is in flight; over
\* Gloo the operation has come to that result.  process_group.py:1686
FutureMeansDone ==
    \A o \in Ops : future[o] \in {"value", "error"} =>
        /\ futureOf[o] = o
        /\ backend = "gloo" => op[o] = IF future[o] = "value" THEN "done" ELSE "failed"

\* Every command names an operation the subprocess that reads it knows, in
\* spite of the ids and works that outlive a configuration: the loop never
\* ends with a KeyError.  process_group.py:1660
CommandsAreKnown ==
    worker = "ready" /\ reqs # <<>> /\ Head(reqs)[1] # "func" => Head(reqs)[2] \in work

\* The trainer and the subprocess mean the same operation by an id, in every
\* answer and command: see the parts.
AnswersMatch == WaitMeansDone /\ FutureMeansDone /\ CommandsAreKnown

\* A future that was asked for completes, unless the subprocess is lost or
\* killed by the next configuration.
FutureCompletes ==
    \A o \in Ops : future[o] = "pending" ~>
        future[o] # "pending" \/ worker = "dead" \/ opGen[o] # gen
=============================================================================
