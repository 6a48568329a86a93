------------------------------ MODULE Timeouts ------------------------------
(***************************************************************************)
(* The timeout manager of torchft/futures.py and the use the process       *)
(* groups make of it.                                                      *)
(*                                                                         *)
(* One event loop thread arms and fires the timers; other threads post to  *)
(* it.  A timer guards a future (register), a block of code                *)
(* (context_timeout: the block issues an operation of a process group and  *)
(* the callback aborts the group), or the work queued on a stream          *)
(* (stream_timeout).  A watchdog thread checks that the loop still runs,   *)
(* and shutdown stops all of it.  Time is abstract: an armed timer may     *)
(* fire at once or much later, and the loop, unless it is stuck, serves    *)
(* the watchdog's request within its interval.                             *)
(***************************************************************************)
EXTENDS Naturals, Sequences, FiniteSets

CONSTANTS
    Futs,     \* futures given to register
    Blocks,   \* uses of context_timeout
    Streams,  \* uses of stream_timeout
    MaxUses,  \* bound: registrations
    MayRaise  \* the block's body may raise

ASSUME TimeoutsAssumption == MaxUses \in Nat /\ MayRaise \in BOOLEAN

Timers == Futs \cup Blocks \cup Streams

VARIABLES
    lock,       \* shutdown holds _lock
    loop,       \* the event loop and its thread
    ready,      \* what was posted with call_soon_threadsafe, in order
    timer,      \* the asyncio timer of each registration
    cancelled,  \* _TimerHandle._cancelled
    caller,     \* where the thread that registers is
    fut,        \* the guarded future, or the work on the stream
    timed,      \* the future register returned
    watchdog,   \* the watchdog thread
    healthy,    \* is_healthy of the watchdog's current round
    down,       \* where shutdown is
    delQueue    \* timers whose events wait in _del_queue

loopVars  == <<loop, ready, timer>>
futVars   == <<fut, timed>>
dogVars   == <<watchdog, healthy>>
vars == <<lock, loopVars, cancelled, caller, futVars, dogVars, down,
          delQueue>>

Init ==
    /\ lock = FALSE
    /\ loop = "none"
    /\ ready = <<>>
    /\ timer = [h \in Timers |-> "none"]
    /\ cancelled = [h \in Timers |-> FALSE]
    /\ caller = [h \in Timers |-> "idle"]
    /\ fut = [f \in Futs \cup Streams |-> "pending"]
    /\ timed = [f \in Futs |-> "pending"]
    /\ watchdog = "none"
    /\ healthy = FALSE
    /\ down = "up"
    /\ delQueue = {}

-----------------------------------------------------------------------------
(* The threads that register                                               *)

\* _clear_del_queue and _maybe_start_event_loop.  After shutdown the loop is
\* not started again (the comment in shutdown assumes so).
GetLoop(h) ==
    /\ caller[h] = "idle"
    /\ Cardinality({g \in Timers : caller[g] # "idle"}) < MaxUses
    /\ ~lock
    /\ down = "up"
    /\ caller' = [caller EXCEPT ![h] = "loop"]
    /\ delQueue' = {}
    /\ loop' = IF loop = "none" THEN "running" ELSE loop
    /\ watchdog' = IF loop = "none" THEN "check" ELSE watchdog
    /\ UNCHANGED <<lock, ready, timer, cancelled, futVars, healthy, down>>

\* The loop is asked to arm the timer, without the lock.
Post(h) ==
    /\ caller[h] = "loop"
    /\ ready' = Append(ready, <<"arm", h>>)
    /\ caller' = [caller EXCEPT ![h] = "posted"]
    /\ UNCHANGED <<lock, loop, timer, cancelled, futVars, dogVars, down, delQueue>>

\* _TimerHandle.cancel: stops the timer if it was armed already.
CancelTimer(h) ==
    /\ cancelled' = [cancelled EXCEPT ![h] = TRUE]
    /\ timer' = [timer EXCEPT ![h] = IF @ = "armed" THEN "off" ELSE @]

Complete(f) ==
    /\ fut[f] = "pending"
    /\ \E r \in {"value", "error"} : fut' = [fut EXCEPT ![f] = r]
    /\ UNCHANGED <<lock, loopVars, cancelled, caller, timed, dogVars,
                   down, delQueue>>

\* The done callback register adds: it cancels the timer...
OnDoneCancels(f) ==
    /\ caller[f] = "posted"
    /\ fut[f] # "pending"
    /\ CancelTimer(f)
    /\ caller' = [caller EXCEPT ![f] = "done"]
    /\ UNCHANGED <<lock, loop, ready, futVars, dogVars, down, delQueue>>

\* ... and passes the result on, unless the timer came first.
OnDoneSets(f) ==
    /\ caller[f] = "done"
    /\ timed' = [timed EXCEPT ![f] = IF @ = "pending" THEN fut[f] ELSE @]
    /\ caller' = [caller EXCEPT ![f] = "left"]
    /\ UNCHANGED <<lock, loopVars, cancelled, fut, dogVars, down, delQueue>>

\* The end of context_timeout's block, and an exception in it, which leaves
\* the generator at its yield: the timer is not cancelled.
LeaveBlock(b) ==
    /\ caller[b] = "posted"
    /\ caller' = [caller EXCEPT ![b] = "left"]
    /\ CancelTimer(b)
    /\ UNCHANGED <<lock, loop, ready, futVars, dogVars, down, delQueue>>

BlockRaises(b) ==
    /\ MayRaise
    /\ caller[b] = "posted"
    /\ caller' = [caller EXCEPT ![b] = "left"]
    /\ UNCHANGED <<lock, loopVars, cancelled, futVars, dogVars, down,
                   delQueue>>

-----------------------------------------------------------------------------
(* The event loop thread: one callback at a time                           *)

LoopIsFree == loop = "running" /\ \A h \in Timers : timer[h] # "firing"

\* A posted callback: _register_callback, with set_timer_handle's look at
\* _cancelled; the watchdog's updated_health; or loop.stop.
RunPosted ==
    /\ LoopIsFree
    /\ ready # <<>>
    /\ ready' = Tail(ready)
    /\ LET item == Head(ready)
       IN  /\ timer' = IF item[1] # "arm" THEN timer
                       ELSE [timer EXCEPT ![item[2]] =
                               IF cancelled[item[2]] THEN "off" ELSE "armed"]
           /\ healthy' = (healthy \/ item[1] = "health")
           /\ loop' = IF item[1] = "stop" THEN "stopped" ELSE loop
    /\ UNCHANGED <<lock, cancelled, caller, futVars, watchdog, down,
                   delQueue>>

\* The timer is due and was not cancelled; its callback begins.
Fire(h) ==
    /\ LoopIsFree
    /\ timer[h] = "armed"
    /\ timer' = [timer EXCEPT ![h] = "firing"]
    /\ UNCHANGED <<lock, loop, ready, cancelled, caller, futVars, dogVars,
                   down, delQueue>>

\* The callback: TimeoutError for the future (which fails, and is logged, if
\* the future is done), or abort of the process group: see ProcessGroupNCCL.
RunCallback(h) ==
    /\ loop = "running"
    /\ timer[h] = "firing"
    /\ timer' = [timer EXCEPT ![h] = "fired"]
    /\ timed' = IF h \in Futs /\ timed[h] = "pending"
                THEN [timed EXCEPT ![h] = "timeout"] ELSE timed
    /\ delQueue' = IF h \in Streams THEN delQueue \cup {h} ELSE delQueue
    /\ UNCHANGED <<lock, loop, ready, cancelled, caller, fut, dogVars, down>>

\* "The callbacks should not block": an abort that does.
CallbackHangs(h) ==
    /\ loop = "running"
    /\ h \in Blocks /\ timer[h] = "firing"
    /\ loop' = "stuck"
    /\ UNCHANGED <<lock, ready, timer, cancelled, caller, futVars, dogVars,
                   down, delQueue>>

LoopNext == RunPosted \/ \E h \in Timers : Fire(h) \/ RunCallback(h)

-----------------------------------------------------------------------------
(* _watchdog_loop                                                          *)

WatchdogAsks ==
    /\ watchdog = "check"
    /\ ~lock
    /\ watchdog' = IF loop = "none" THEN "ended" ELSE "asleep"
    /\ ready' = IF loop = "none" THEN ready ELSE Append(ready, <<"health">>)
    /\ healthy' = FALSE
    /\ UNCHANGED <<lock, loop, timer, cancelled, caller, futVars, down,
                   delQueue>>

\* After the interval; a loop that can has served the request by then.
WatchdogWakes ==
    /\ watchdog = "asleep"
    /\ healthy \/ loop # "running"
    /\ watchdog' = IF healthy THEN "check" ELSE "exit"
    /\ UNCHANGED <<lock, loopVars, cancelled, caller, futVars, healthy,
                   down, delQueue>>

WatchdogNext == WatchdogAsks \/ WatchdogWakes

-----------------------------------------------------------------------------
(* shutdown                                                                *)

\* mutant: the loop is stopped without the lock
ShutdownStopsUnlocked ==
    /\ down = "up"
    /\ loop # "none"
    /\ ready' = Append(ready, <<"stop">>)
    /\ down' = "join loop"
    /\ UNCHANGED <<lock, loop, timer, cancelled, caller, futVars, dogVars,
                   delQueue>>

ShutdownStops ==
    /\ down = "up"
    /\ loop # "none"
    /\ lock' = TRUE
    /\ ready' = Append(ready, <<"stop">>)
    /\ down' = "join loop"
    /\ UNCHANGED <<loop, timer, cancelled, caller, futVars, dogVars,
                   delQueue>>

\* mutant: the watchdog is joined under the lock as well
ShutdownKeepsLock ==
    /\ down = "join loop"
    /\ loop = "stopped"
    /\ loop' = "none"
    /\ down' = "join watchdog"
    /\ UNCHANGED <<lock, ready, timer, cancelled, caller, futVars, dogVars,
                   delQueue>>

ShutdownJoinsLoop ==
    /\ down = "join loop"
    /\ loop = "stopped"
    /\ loop' = "none"
    /\ lock' = FALSE
    /\ down' = "join watchdog"
    /\ UNCHANGED <<ready, timer, cancelled, caller, futVars, dogVars,
                   delQueue>>

ShutdownJoinsWatchdog ==
    /\ down = "join watchdog"
    /\ watchdog \in {"ended", "exit"}
    /\ down' = "down"
    /\ UNCHANGED <<lock, loopVars, cancelled, caller, futVars, dogVars,
                   delQueue>>

ShutdownNext == ShutdownJoinsLoop \/ ShutdownJoinsWatchdog

-----------------------------------------------------------------------------
Next ==
    \/ \E h \in Timers : GetLoop(h) \/ Post(h)
    \/ \E f \in Futs \cup Streams : Complete(f)
    \/ \E f \in Futs : OnDoneCancels(f) \/ OnDoneSets(f)
    \/ \E b \in Blocks : LeaveBlock(b) \/ BlockRaises(b) \/ CallbackHangs(b)
    \/ LoopNext
    \/ WatchdogNext
    \/ ShutdownStops \/ ShutdownNext

\* The threads run; an armed timer fires in the end.  Nothing says that a
\* future completes, that a block ends or that shutdown is called.
Fairness ==
    /\ WF_vars(RunPosted)
    /\ \A h \in Timers : WF_vars(Post(h) \/ Fire(h) \/ RunCallback(h))
    /\ \A f \in Futs : WF_vars(OnDoneCancels(f) \/ OnDoneSets(f))
    /\ WF_vars(WatchdogNext) /\ WF_vars(ShutdownNext)

Spec == Init /\ [][Next]_vars /\ Fairness

-----------------------------------------------------------------------------
TypeOK ==
    /\ lock \in BOOLEAN
    /\ loop \in {"none", "running", "stuck", "stopped"}
    /\ ready \in Seq({<<"arm", h>> : h \in Timers} \cup {<<"health">>, <<"stop">>})
    /\ timer \in [Timers -> {"none", "armed", "off", "firing", "fired"}]
    /\ cancelled \in [Timers -> BOOLEAN]
    /\ caller \in [Timers -> {"idle", "loop", "posted", "done", "left"}]
    /\ fut \in [Futs \cup Streams -> {"pending", "value", "error"}]
    /\ timed \in [Futs -> {"pending", "value", "error", "timeout"}]
    /\ watchdog \in {"none", "check", "asleep", "exit", "ended"}
    /\ healthy \in BOOLEAN
    /\ down \in {"up", "join loop", "join watchdog", "down"}
    /\ delQueue \subseteq Streams

\* A block that was left in time is not followed by its callback: whatever
\* the order of posting, arming and cancelling, an armed timer is never one
\* that was cancelled.  futures.py:190
CancelledIsNotArmed == \A h \in Timers : cancelled[h] => timer[h] # "armed"

\* "TimeoutManager is stuck" is printed only when a callback blocks the loop:
\* shutdown, which also ends the loop, never looks like it.  futures.py:113
NoFalseAlarm == watchdog = "exit" => loop = "stuck"

\* Neither a timer nor the watchdog goes off at the wrong time: see the parts.
NothingGoesOffWrongly == CancelledIsNotArmed /\ NoFalseAlarm

\* Every future given to register completes, although nothing says that the
\* operation behind it does -- unless the manager is shut down or its loop is
\* stuck.  futures.py:154
TimedFutureCompletes ==
    \A f \in Futs : caller[f] # "idle" ~>
        timed[f] # "pending" \/ down # "up" \/ loop = "stuck"

\* shutdown joins the loop under _lock and the watchdog without it: it ends
\* unless a callback blocks the loop.
ShutdownEnds == down = "join loop" ~> down = "down" \/ loop = "stuck"

\* Nobody waits for the timeout manager forever: see the parts.
TimeoutsEnd == TimedFutureCompletes /\ ShutdownEnds
=============================================================================
