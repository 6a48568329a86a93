--------------------------- MODULE ProcessGroupNCCL ---------------------------
(***************************************************************************)
(* A process group that is aborted and made again while it is in use:      *)
(* ProcessGroupWrapper, ProcessGroupNCCL and _WorkAcceleratorTimeout of    *)
(* torchft/process_group.py (ProcessGroupXCCL is the same code for another *)
(* device).                                                                *)
(*                                                                         *)
(* Three threads share _pg and _errored without a lock.  The trainer       *)
(* issues an operation, waits for it on the stream and asks errored()      *)
(* before it commits.  The timer's callback aborts the group if the stream *)
(* is not done in time.  The quorum thread configures the group again,     *)
(* which aborts the old communicator first.  An operation on an aborted    *)
(* communicator ends, but its tensors hold garbage.                        *)
(***************************************************************************)
EXTENDS Naturals

CONSTANT MaxGen   \* bound: communicators made

Gens == 1 .. MaxGen

VARIABLES
    pg,       \* _pg: the communicator, or 0 for None
    errored,  \* _errored is set
    gen,      \* communicators made so far
    aborted,  \* communicators that were aborted
    opGen,    \* the communicator of the step's operation; 0: none was issued
    op,       \* the operation on the stream
    trainer,  \* where the trainer is in its step
    known,    \* the manager has an error on record (report_error)
    timer,    \* the callback: where it is, and the _pg it read
    config,   \* the quorum thread, likewise
    overlap   \* a callback was under way when the last configuration began

vars == <<pg, errored, gen, aborted, opGen, op, trainer, known, timer, config, overlap>>

Init ==
    /\ pg = 0 /\ errored = FALSE /\ gen = 0
    /\ aborted = {}
    /\ opGen = 0 /\ op = "none"
    /\ trainer = "quorum" /\ known = FALSE
    /\ timer = [at |-> "off", pg |-> 0]
    /\ config = [at |-> "off", pg |-> 0]
    /\ overlap = FALSE

-----------------------------------------------------------------------------
(* The trainer                                                             *)

\* A step begins; a quorum of other members has the group configured.
StartQuorum ==
    /\ trainer = "quorum"
    /\ known' = FALSE
    /\ \/ /\ gen < MaxGen
          /\ config' = [at |-> "mark", pg |-> 0]
          /\ overlap' = (timer.at \notin {"off", "armed"})
       \/ gen > 0 /\ UNCHANGED <<config, overlap>>
    /\ opGen' = 0
    /\ op' = "none"
    /\ trainer' = "issue"
    /\ UNCHANGED <<pg, errored, gen, aborted, timer>>

\* Manager.allreduce, once the quorum thread is done.  Without a group the
\* call raises; after an error of the manager's own nothing is issued.
Issue ==
    /\ trainer = "issue"
    /\ config.at = "off"
    /\ IF known
       THEN trainer' = "decide" /\ UNCHANGED <<opGen, op, known>>
       ELSE IF pg = 0
       THEN known' = TRUE /\ trainer' = "decide" /\ UNCHANGED <<opGen, op>>
       ELSE /\ opGen' = pg
            /\ op' = IF pg \in aborted THEN "garbage" ELSE "running"
            /\ trainer' = "wait"
            /\ UNCHANGED known
    /\ UNCHANGED <<pg, errored, gen, aborted, timer, config, overlap>>

\* mutant: the wait is not timed
WaitUntimed ==
    /\ trainer = "wait"
    /\ trainer' = "decide"
    /\ UNCHANGED <<pg, errored, gen, aborted, opGen, op, known, timer, config, overlap>>

\* wait() arms the timer for the work that is on the stream; one timer at a
\* time is followed.
Wait ==
    /\ trainer = "wait"
    /\ timer' = IF timer.at = "off" THEN [timer EXCEPT !.at = "armed"] ELSE timer
    /\ trainer' = "decide"
    /\ UNCHANGED <<pg, errored, gen, aborted, opGen, op, known, config, overlap>>

\* The peers take part.
OpDone ==
    /\ op = "running"
    /\ op' = "done"
    /\ UNCHANGED <<pg, errored, gen, aborted, opGen, trainer, known, timer, config, overlap>>

\* should_commit: errored() waits for the stream first.
Decide ==
    /\ trainer = "decide"
    /\ op # "running"
    /\ trainer' = IF known \/ errored THEN "quorum" ELSE "committed"
    /\ UNCHANGED <<pg, errored, gen, aborted, opGen, op, known, timer, config, overlap>>

NextStep ==
    /\ trainer = "committed"
    /\ trainer' = "quorum"
    /\ UNCHANGED <<pg, errored, gen, aborted, opGen, op, known, timer, config, overlap>>

-----------------------------------------------------------------------------
(* abort(), by the callback or the quorum thread                           *)

\* The stream is not done when the timer fires, or it is and nothing happens.
Fire ==
    /\ timer.at = "armed"
    /\ timer' = [timer EXCEPT !.at = IF op = "running" THEN "mark" ELSE "off"]
    /\ UNCHANGED <<pg, errored, gen, aborted, opGen, op, trainer, known, config, overlap>>

\* mutant: the error is set after the communicator is aborted
MarkLate == errored' = errored

\* _errored is set before anything is aborted.
Mark == errored' = TRUE

\* A communicator is aborted; what runs on it ends.
AbortCommunicator(g) ==
    /\ aborted' = (aborted \cup {g}) \ {0}
    /\ op' = IF g # 0 /\ opGen = g /\ op = "running" THEN "garbage" ELSE op

CallbackMarks ==
    /\ timer.at = "mark"
    /\ Mark
    /\ timer' = [timer EXCEPT !.at = "read"]
    /\ UNCHANGED <<pg, gen, aborted, opGen, op, trainer, known, config, overlap>>

CallbackReads ==
    /\ timer.at = "read"
    /\ timer' = [timer EXCEPT !.at = "abort", !.pg = pg]
    /\ UNCHANGED <<pg, errored, gen, aborted, opGen, op, trainer, known, config, overlap>>

CallbackAborts ==
    /\ timer.at = "abort"
    /\ AbortCommunicator(timer.pg)
    /\ timer' = [timer EXCEPT !.at = IF timer.pg = 0 THEN "off" ELSE "clear"]
    /\ UNCHANGED <<pg, errored, gen, opGen, trainer, known, config, overlap>>

CallbackClears ==
    /\ timer.at = "clear"
    /\ pg' = 0
    /\ timer' = [timer EXCEPT !.at = "off"]
    /\ UNCHANGED <<errored, gen, aborted, opGen, op, trainer, known, config, overlap>>

-----------------------------------------------------------------------------
(* configure(), by the quorum thread                                       *)

\* abort(errored=False) sets _errored all the same.
ConfigMarks ==
    /\ config.at = "mark"
    /\ Mark
    /\ config' = [at |-> "abort", pg |-> pg]
    /\ UNCHANGED <<pg, gen, aborted, opGen, op, trainer, known, timer, overlap>>

ConfigAborts ==
    /\ config.at = "abort"
    /\ AbortCommunicator(config.pg)
    /\ pg' = IF config.pg = 0 THEN pg ELSE 0
    /\ config' = [config EXCEPT !.at = "store"]
    /\ UNCHANGED <<errored, gen, opGen, trainer, known, timer, overlap>>

\* The store, or the members, cannot be reached: the manager is told.
ConfigRaises ==
    /\ config.at \in {"store", "connect"}
    /\ known' = TRUE
    /\ config' = [config EXCEPT !.at = "off"]
    /\ UNCHANGED <<pg, errored, gen, aborted, opGen, op, trainer, timer, overlap>>

\* _create_pg clears the error first.
ConfigClears ==
    /\ config.at = "store"
    /\ errored' = FALSE
    /\ config' = [config EXCEPT !.at = "connect"]
    /\ UNCHANGED <<pg, gen, aborted, opGen, op, trainer, known, timer, overlap>>

ConfigCreates ==
    /\ config.at = "connect"
    /\ gen' = gen + 1
    /\ pg' = gen + 1
    /\ config' = [config EXCEPT !.at = "off"]
    /\ UNCHANGED <<errored, aborted, opGen, op, trainer, known, timer, overlap>>

-----------------------------------------------------------------------------
TrainerNext == StartQuorum \/ Issue \/ Wait \/ Decide \/ NextStep
TimerNext == Fire \/ CallbackMarks \/ CallbackReads \/ CallbackAborts \/ CallbackClears
ConfigNext == ConfigMarks \/ ConfigAborts \/ ConfigRaises \/ ConfigClears \/ ConfigCreates

Next == TrainerNext \/ OpDone \/ TimerNext \/ ConfigNext

\* The threads run and the timer fires; peers may never take part.
Fairness ==
    /\ WF_vars(Issue \/ Wait \/ Decide)
    /\ WF_vars(TimerNext)
    /\ WF_vars(ConfigNext)

Spec == Init /\ [][Next]_vars /\ Fairness

-----------------------------------------------------------------------------
TypeOK ==
    /\ pg \in 0 .. MaxGen /\ errored \in BOOLEAN /\ gen \in 0 .. MaxGen
    /\ aborted \subseteq Gens /\ overlap \in BOOLEAN
    /\ opGen \in 0 .. MaxGen /\ op \in {"none", "running", "done", "garbage"}
    /\ trainer \in {"quorum", "issue", "wait", "decide", "committed"}
    /\ known \in BOOLEAN
    /\ timer \in [at : {"off", "armed", "mark", "read", "abort", "clear"},
                  pg : 0 .. MaxGen]
    /\ config \in [at : {"off", "mark", "abort", "store", "connect"}, pg : 0 .. MaxGen]

\* "We need to set the error before aborting to ensure that errored() returns
\* the error correctly when NCCL abort fires and unblocks the stream"
\* (process_group.py:876): the garbage an abort leaves is never committed --
\* unless a callback was under way when the group was configured: its error is
\* wiped out, and it then reads, and aborts, the new communicator.
GarbageIsNotCommitted == trainer = "committed" /\ op = "garbage" => overlap

\* The error of one configuration does not outlive the next: a communicator
\* nobody aborts, with no callback under way, has no error on record, so its
\* steps are not discarded for another's -- with the same exception.
NoInheritedError ==
    pg # 0 /\ config.at = "off" /\ pg \notin aborted /\ timer.at \in {"off", "armed"}
        => ~errored \/ overlap

\* A step is decided by the errors of its own operation: see the parts.
ErrorsAreTheSteps == GarbageIsNotCommitted /\ NoInheritedError

\* An operation whose peers never come ends, by the callback's abort or the
\* configuration's: errored() does not wait forever.  With the same exception:
\* a callback that was under way may set the new _pg to None without aborting
\* it, and the operation's own callback then finds nothing to abort.
OperationsEnd == op = "running" ~> op # "running" \/ overlap

\* The comment without the exception.
AbortIsSeen == ~(trainer = "committed" /\ op = "garbage")
=============================================================================
