----------------------------- MODULE WorksProofs -----------------------------
(***************************************************************************)
(* Theorems about the works and process groups of MCWorks, for any number  *)
(* of timers, calls, configurations and buckets: the timers that guard a   *)
(* work (Timeouts), the manager's wrapper around it (ManagedWork), what is *)
(* issued after a swallowed error (ErrorSwallowing), whose error decides a *)
(* step when a group is aborted and made again (ProcessGroupNCCL), and     *)
(* which answer reaches which call of a group that runs in a subprocess    *)
(* (ProcessGroupBaby).                                                     *)
(***************************************************************************)
EXTENDS MCWorks, TLAPS

-----------------------------------------------------------------------------
(* Timers and the watchdog *)

Posted(kind) == {i \in 1 .. Len(ready) : ready[i][1] = kind}

\* shutdown posts one stop, holding the lock until the loop has run it.
StopIsLocked ==
  /\ \A i, j \in Posted("stop") : i = j
  /\ Posted("stop") # {} => lock /\ down = "join loop" /\ loop # "stopped"
  /\ loop = "stopped" => lock /\ down = "join loop"

\* The watchdog's request is in the loop's queue, ahead of any stop, until it
\* is served.
RequestIsAhead ==
  watchdog = "asleep" /\ ~healthy =>
    /\ loop \in {"running", "stuck"}
    /\ \E i \in Posted("health") : \A j \in Posted("stop") : i < j

WatchdogInv == NoFalseAlarm /\ StopIsLocked /\ RequestIsAhead

TimersInv == TypeOK /\ CancelledIsNotArmed /\ WatchdogInv

Items == {<<"arm", h>> : h \in Timers} \cup {<<"health">>, <<"stop">>}

LEMMA ReadyTypes ==
  ASSUME NEW s \in Seq(Items)
  PROVE  /\ \A h \in Timers : Append(s, <<"arm", h>>) \in Seq(Items)
         /\ Append(s, <<"health">>) \in Seq(Items)
         /\ Append(s, <<"stop">>) \in Seq(Items)
         /\ s # <<>> => Tail(s) \in Seq(Items) /\ Head(s) \in Items
  <1>1. \A i \in Items : Append(s, i) \in Seq(Items)
    OBVIOUS
  <1>2. s # <<>> => Tail(s) \in Seq(Items) /\ Head(s) \in Items
    OBVIOUS
  <1>3. <<"health">> \in Items /\ <<"stop">> \in Items /\ \A h \in Timers : <<"arm", h>> \in Items
    BY DEF Items
  <1> QED
    BY <1>1, <1>2, <1>3

\* What is posted where, after one item more or one less.
LEMMA PostedAppend ==
  ASSUME ready \in Seq(Items), NEW item \in Items, ready' = Append(ready, item), NEW kind
  PROVE  /\ ready' \in Seq(Items)
         /\ item[1] = kind => Posted(kind)' = Posted(kind) \cup {Len(ready) + 1}
         /\ item[1] # kind => Posted(kind)' = Posted(kind)
  <1>1. /\ ready' \in Seq(Items)
        /\ Len(ready) \in Nat /\ Len(ready') = Len(ready) + 1
        /\ \A i \in 1 .. Len(ready) : ready'[i] = ready[i]
        /\ ready'[Len(ready) + 1] = item
    OBVIOUS
  <1>2. Posted(kind)' = {i \in 1 .. Len(ready') : ready'[i][1] = kind}
    BY DEF Posted
  <1> QED
    BY <1>1, <1>2 DEF Posted

LEMMA PostedTail ==
  ASSUME ready \in Seq(Items), ready # <<>>, ready' = Tail(ready), NEW kind
  PROVE  /\ ready' \in Seq(Items)
         /\ \A i \in Nat : i \in Posted(kind)' <=> i >= 1 /\ i + 1 \in Posted(kind)
         /\ 1 \in Posted(kind) <=> Head(ready)[1] = kind
         /\ Posted(kind)' \subseteq Nat \ {0}
  BY DEF Posted

LEMMA PostedRange ==
  ASSUME ready \in Seq(Items), NEW kind
  PROVE  Len(ready) \in Nat /\ \A i \in Posted(kind) : i \in 1 .. Len(ready)
  BY DEF Posted

LEMMA WatchdogFrame ==
  ASSUME WatchdogInv, UNCHANGED <<lock, loop, ready, watchdog, healthy, down>>
  PROVE  WatchdogInv'
  <1>1. Posted("stop")' = Posted("stop") /\ Posted("health")' = Posted("health")
    BY DEF Posted
  <1> QED
    BY <1>1 DEF WatchdogInv, NoFalseAlarm, StopIsLocked, RequestIsAhead

LEMMA WatchdogStep ==
  ASSUME TypeOK, WatchdogInv, [Next]_vars
  PROVE  WatchdogInv'
  <1>0. ready \in Seq(Items)
    BY DEF TypeOK, Items
  <1>1. ASSUME NEW h \in Timers, GetLoop(h)
        PROVE  WatchdogInv'
    <2>1. Posted("stop")' = Posted("stop") /\ Posted("health")' = Posted("health")
      BY <1>1 DEF GetLoop, Posted
    <2> QED
      BY <1>1, <2>1 DEF GetLoop, WatchdogInv, NoFalseAlarm, StopIsLocked, RequestIsAhead
  <1>2. ASSUME NEW h \in Timers, Post(h)
        PROVE  WatchdogInv'
    <2>1. <<"arm", h>> \in Items /\ <<"arm", h>>[1] = "arm"
      BY DEF Items
    <2>2. ready' = Append(ready, <<"arm", h>>)
      BY <1>2 DEF Post
    <2>3. Posted("stop")' = Posted("stop") /\ Posted("health")' = Posted("health")
      BY <1>0, <2>1, <2>2, PostedAppend
    <2> QED
      BY <1>2, <2>3 DEF Post, dogVars, WatchdogInv, NoFalseAlarm, StopIsLocked,
                        RequestIsAhead
  <1>3. ASSUME NEW h \in Timers,
               \/ Fire(h) \/ RunCallback(h) \/ Complete(h) \/ OnDoneCancels(h) \/ OnDoneSets(h)
               \/ LeaveBlock(h) \/ BlockRaises(h)
        PROVE  WatchdogInv'
    BY <1>3, WatchdogFrame DEF Fire, RunCallback, Complete, OnDoneCancels, OnDoneSets, LeaveBlock,
       BlockRaises, CancelTimer, loopVars, dogVars
  <1>4. ASSUME NEW b \in Blocks, CallbackHangs(b)
        PROVE  WatchdogInv'
    <2>1. Posted("stop")' = Posted("stop") /\ Posted("health")' = Posted("health")
      BY <1>4 DEF CallbackHangs, Posted
    <2> QED
      BY <1>4, <2>1 DEF CallbackHangs, dogVars, WatchdogInv, NoFalseAlarm, StopIsLocked,
                        RequestIsAhead
  <1>5. CASE RunPosted
    <2>1. ready # <<>> /\ ready' = Tail(ready) /\ loop = "running"
      BY <1>5 DEF RunPosted, LoopIsFree
    <2>2. /\ UNCHANGED <<lock, watchdog, down>>
          /\ healthy' = (healthy \/ Head(ready)[1] = "health")
          /\ loop' = IF Head(ready)[1] = "stop" THEN "stopped" ELSE loop
      BY <1>5 DEF RunPosted
    <2>3. /\ \A i \in Nat : i \in Posted("stop")' <=> i >= 1 /\ i + 1 \in Posted("stop")
          /\ 1 \in Posted("stop") <=> Head(ready)[1] = "stop"
          /\ Posted("stop")' \subseteq Nat \ {0}
      BY <1>0, <2>1, PostedTail
    <2>4. /\ \A i \in Nat : i \in Posted("health")' <=> i >= 1 /\ i + 1 \in Posted("health")
          /\ 1 \in Posted("health") <=> Head(ready)[1] = "health"
          /\ Posted("health")' \subseteq Nat \ {0}
      BY <1>0, <2>1, PostedTail
    <2>5. NoFalseAlarm'
      BY <2>1, <2>2 DEF WatchdogInv, NoFalseAlarm
    <2>6. StopIsLocked'
      <3>1. \A i \in Posted("stop") : i \in Nat
        BY <1>0, PostedRange
      <3>0. \A i, j \in Posted("stop") : i = j
        BY DEF WatchdogInv, StopIsLocked
      <3>2. ASSUME NEW i \in Posted("stop")', NEW j \in Posted("stop")'
            PROVE  i = j
        <4>1. i \in Nat /\ j \in Nat
          BY <2>3
        <4>2. i + 1 \in Posted("stop") /\ j + 1 \in Posted("stop")
          BY <2>3, <4>1
        <4>3. i + 1 = j + 1
          BY <3>0, <4>2
        <4> QED
          BY <4>1, <4>3
      <3>3. ASSUME Posted("stop")' # {}
            PROVE  lock' /\ down' = "join loop" /\ loop' # "stopped"
        <4>1. PICK i \in Posted("stop")' : TRUE
          BY <3>3
        <4>2. i \in Nat /\ i >= 1 /\ i + 1 \in Posted("stop")
          BY <2>3, <4>1
        <4>3. 1 \notin Posted("stop")
          <5>1. ASSUME 1 \in Posted("stop")
                PROVE  FALSE
            <6>1. i + 1 = 1
              BY <3>0, <4>2, <5>1
            <6> QED
              BY <4>2, <6>1
          <5> QED
            BY <5>1
        <4> QED
          BY <2>2, <2>3, <4>2, <4>3 DEF WatchdogInv, StopIsLocked
      <3>4. loop' = "stopped" => lock' /\ down' = "join loop"
        BY <2>1, <2>2, <2>3 DEF WatchdogInv, StopIsLocked
      <3> QED
        BY <3>2, <3>3, <3>4 DEF StopIsLocked
    <2>7. RequestIsAhead'
      <3>1. ASSUME watchdog' = "asleep", ~healthy'
            PROVE  /\ loop' \in {"running", "stuck"}
                   /\ \E i \in Posted("health")' : \A j \in Posted("stop")' : i < j
        <4>1. watchdog = "asleep" /\ ~healthy /\ Head(ready)[1] # "health"
          BY <2>2, <3>1
        <4>2. PICK i \in Posted("health") : \A j \in Posted("stop") : i < j
          BY <4>1 DEF WatchdogInv, RequestIsAhead
        <4>0. loop \in {"running", "stuck"}
          BY <4>1 DEF WatchdogInv, RequestIsAhead
        <4>3. i \in Nat /\ i > 1
          <5>1. i \in 1 .. Len(ready) /\ Len(ready) \in Nat
            BY <1>0, <4>2, PostedRange
          <5>2. i # 1
            BY <2>4, <4>1, <4>2
          <5> QED
            BY <5>1, <5>2
        <4>4. Head(ready)[1] # "stop"
          BY <2>3, <4>2, <4>3
        <4>5. i - 1 \in Posted("health")'
          BY <2>4, <4>2, <4>3
        <4>6. \A j \in Posted("stop")' : i - 1 < j
          BY <2>3, <4>2, <4>3
        <4> QED
          BY <2>1, <2>2, <4>4, <4>5, <4>6
      <3> QED
        BY <3>1 DEF RequestIsAhead
    <2> QED
      BY <2>5, <2>6, <2>7 DEF WatchdogInv
  <1>6. CASE WatchdogAsks
    <2>1. UNCHANGED <<lock, loop, down>> /\ watchdog = "check" /\ ~lock /\ healthy' = FALSE
      BY <1>6 DEF WatchdogAsks
    <2>2. Posted("stop") = {} /\ loop # "stopped"
      BY <2>1 DEF WatchdogInv, StopIsLocked
    <2>3. CASE loop = "none"
      <3>1. watchdog' = "ended" /\ ready' = ready
        BY <1>6, <2>3 DEF WatchdogAsks
      <3>2. Posted("stop")' = Posted("stop")
        BY <3>1 DEF Posted
      <3> QED
        BY <2>1, <2>2, <3>1, <3>2 DEF WatchdogInv, NoFalseAlarm, StopIsLocked, RequestIsAhead
    <2>4. CASE loop # "none"
      <3>1. watchdog' = "asleep" /\ ready' = Append(ready, <<"health">>)
        BY <1>6, <2>4 DEF WatchdogAsks
      <3>2. <<"health">> \in Items /\ <<"health">>[1] = "health"
        BY DEF Items
      <3>3. Posted("stop")' = Posted("stop")
        BY <1>0, <3>1, <3>2, PostedAppend
      <3>4. Len(ready) + 1 \in Posted("health")'
        BY <1>0, <3>1, <3>2, PostedAppend
      <3>5. loop \in {"running", "stuck"}
        BY <2>2, <2>4 DEF TypeOK
      <3> QED
        BY <2>1, <2>2, <3>1, <3>3, <3>4, <3>5
           DEF WatchdogInv, NoFalseAlarm, StopIsLocked, RequestIsAhead
    <2> QED
      BY <2>3, <2>4
  <1>7. CASE WatchdogWakes
    <2>1. Posted("stop")' = Posted("stop") /\ UNCHANGED <<lock, loop, healthy, down>>
      BY <1>7 DEF WatchdogWakes, Posted, loopVars
    <2>2. /\ watchdog = "asleep" /\ (healthy \/ loop # "running")
          /\ watchdog' = IF healthy THEN "check" ELSE "exit"
      BY <1>7 DEF WatchdogWakes
    <2>3. ~healthy => loop = "stuck"
      BY <2>2 DEF WatchdogInv, RequestIsAhead
    <2>4. NoFalseAlarm' /\ watchdog' # "asleep"
      BY <2>1, <2>2, <2>3 DEF NoFalseAlarm
    <2>5. StopIsLocked'
      BY <2>1 DEF WatchdogInv, StopIsLocked
    <2> QED
      BY <2>4, <2>5 DEF WatchdogInv, RequestIsAhead
  <1>8. CASE ShutdownStops
    <2>1. /\ down = "up" /\ loop # "none" /\ lock' = TRUE /\ down' = "join loop"
          /\ ready' = Append(ready, <<"stop">>)
          /\ UNCHANGED <<loop, watchdog, healthy>>
      BY <1>8 DEF ShutdownStops, dogVars
    <2>2. <<"stop">> \in Items /\ <<"stop">>[1] = "stop"
      BY DEF Items
    <2>5. Posted("stop") = {} /\ loop # "stopped"
      BY <2>1 DEF WatchdogInv, StopIsLocked
    <2>3. Posted("stop")' = {Len(ready) + 1}
      BY <1>0, <2>1, <2>2, <2>5, PostedAppend
    <2>4. Posted("health")' = Posted("health")
      BY <1>0, <2>1, <2>2, PostedAppend
    <2>6. StopIsLocked' /\ NoFalseAlarm'
      BY <2>1, <2>3, <2>5 DEF WatchdogInv, NoFalseAlarm, StopIsLocked
    <2>7. \A i \in Posted("health") : i < Len(ready) + 1
      BY <1>0, PostedRange
    <2>8. ASSUME watchdog' = "asleep", ~healthy'
          PROVE  /\ loop' \in {"running", "stuck"}
                 /\ \E i \in Posted("health")' : \A j \in Posted("stop")' : i < j
      <3>1. /\ loop \in {"running", "stuck"}
            /\ \E i \in Posted("health") : TRUE
        BY <2>1, <2>8 DEF WatchdogInv, RequestIsAhead
      <3> QED
        BY <2>1, <2>3, <2>4, <2>7, <3>1
    <2> QED
      BY <2>6, <2>8 DEF WatchdogInv, RequestIsAhead
  <1>9. CASE ShutdownJoinsLoop
    <2>1. /\ loop = "stopped" /\ loop' = "none" /\ UNCHANGED <<watchdog, healthy>>
          /\ Posted("stop")' = Posted("stop")
      BY <1>9 DEF ShutdownJoinsLoop, Posted, dogVars
    <2> QED
      BY <2>1 DEF WatchdogInv, NoFalseAlarm, StopIsLocked, RequestIsAhead
  <1>10. CASE ShutdownJoinsWatchdog
    <2>1. /\ down = "join watchdog" /\ UNCHANGED <<loop, lock, watchdog, healthy>>
          /\ Posted("stop")' = Posted("stop") /\ Posted("health")' = Posted("health")
      BY <1>10 DEF ShutdownJoinsWatchdog, Posted, loopVars, dogVars
    <2> QED
      BY <2>1 DEF WatchdogInv, NoFalseAlarm, StopIsLocked, RequestIsAhead
  <1>11. CASE UNCHANGED vars
    BY <1>11, WatchdogFrame DEF vars, loopVars, dogVars
  <1> QED
    BY <1>1, <1>2, <1>3, <1>4, <1>5, <1>6, <1>7, <1>8, <1>9, <1>10, <1>11
       DEF Next, LoopNext, WatchdogNext, ShutdownNext, Timers

LEMMA TimersTypes ==
  ASSUME TypeOK, [Next]_vars
  PROVE  TypeOK'
  <1> USE DEF TypeOK
  <1>0. ready \in Seq(Items)
    BY DEF Items
  <1>1. ASSUME NEW h \in Timers, GetLoop(h)
        PROVE  TypeOK'
    BY <1>1 DEF GetLoop, futVars
  <1>2. ASSUME NEW h \in Timers, Post(h)
        PROVE  TypeOK'
    <2>1. ready' \in Seq(Items)
      BY <1>0, <1>2, ReadyTypes DEF Post
    <2>2. UNCHANGED <<lock, loop, timer, cancelled, fut, timed, watchdog, healthy, down,
                      delQueue>>
      BY <1>2 DEF Post, futVars, dogVars
    <2> QED
      BY <1>2, <2>1, <2>2 DEF Post, Items
  <1>3. ASSUME NEW h \in Timers, CancelTimer(h)
        PROVE  /\ cancelled' \in [Timers -> BOOLEAN]
               /\ timer' \in [Timers -> {"none", "armed", "off", "firing", "fired"}]
    <2>1. cancelled' \in [Timers -> BOOLEAN]
      BY <1>3 DEF CancelTimer
    <2>2. timer' \in [Timers -> {"none", "armed", "off", "firing", "fired"}]
      BY <1>3 DEF CancelTimer
    <2> QED
      BY <2>1, <2>2
  <1>4. ASSUME NEW h \in Futs \cup Streams, Complete(h)
        PROVE  TypeOK'
    <2>1. fut' \in [Futs \cup Streams -> {"pending", "value", "error"}]
      BY <1>4 DEF Complete
    <2>2. UNCHANGED <<lock, loop, ready, timer, cancelled, caller, timed,
                      watchdog, healthy, down, delQueue>>
      BY <1>4 DEF Complete, loopVars, dogVars
    <2> QED
      BY <2>1, <2>2
  <1>5. ASSUME NEW h \in Futs, OnDoneCancels(h)
        PROVE  TypeOK'
    <2>1. h \in Timers
      BY DEF Timers
    <2> QED
      BY <1>3, <1>5, <2>1 DEF OnDoneCancels, futVars, dogVars
  <1>6. ASSUME NEW h \in Futs, OnDoneSets(h)
        PROVE  TypeOK'
    <2>1. caller' \in [Timers -> {"idle", "loop", "posted", "done", "left"}]
      BY <1>6 DEF OnDoneSets
    <2>2. timed' \in [Futs -> {"pending", "value", "error", "timeout"}]
      BY <1>6 DEF OnDoneSets
    <2>3. UNCHANGED <<lock, loop, ready, timer, cancelled, fut, watchdog,
                      healthy, down, delQueue>>
      BY <1>6 DEF OnDoneSets, loopVars, dogVars
    <2> QED
      BY <2>1, <2>2, <2>3
  <1>7. ASSUME NEW h \in Blocks, LeaveBlock(h)
        PROVE  TypeOK'
    <2>1. h \in Timers
      BY DEF Timers
    <2> QED
      BY <1>3, <1>7, <2>1 DEF LeaveBlock, futVars, dogVars
  <1>8. ASSUME NEW h \in Blocks, BlockRaises(h)
        PROVE  TypeOK'
    BY <1>8 DEF BlockRaises, loopVars, futVars, dogVars, Timers
  <1>9. ASSUME NEW h \in Blocks, CallbackHangs(h)
        PROVE  TypeOK'
    BY <1>9 DEF CallbackHangs, futVars, dogVars
  <1>10. CASE RunPosted
    <2>1. ready' \in Seq(Items) /\ Head(ready) \in Items
      BY <1>0, <1>10, ReadyTypes DEF RunPosted
    <2>2. healthy' \in BOOLEAN
      BY <1>10 DEF RunPosted
    <2>3. loop' \in {"none", "running", "stuck", "stopped"}
      BY <1>10 DEF RunPosted
    <2>4. timer' \in [Timers -> {"none", "armed", "off", "firing", "fired"}]
      BY <1>10 DEF RunPosted
    <2>5. UNCHANGED <<lock, cancelled, caller, fut, timed, watchdog, down,
                      delQueue>>
      BY <1>10 DEF RunPosted, futVars
    <2> QED
      BY <2>1, <2>2, <2>3, <2>4, <2>5 DEF Items
  <1>11. ASSUME NEW h \in Timers, Fire(h)
        PROVE  TypeOK'
    BY <1>11 DEF Fire, futVars, dogVars
  <1>12. ASSUME NEW h \in Timers, RunCallback(h)
        PROVE  TypeOK'
    <2>1. timer' \in [Timers -> {"none", "armed", "off", "firing", "fired"}]
      BY <1>12 DEF RunCallback
    <2>2. timed' \in [Futs -> {"pending", "value", "error", "timeout"}]
      BY <1>12 DEF RunCallback
    <2>3. delQueue' \subseteq Streams
      BY <1>12 DEF RunCallback
    <2>4. UNCHANGED <<lock, loop, ready, cancelled, caller, fut, watchdog, healthy, down>>
      BY <1>12 DEF RunCallback, dogVars
    <2> QED
      BY <2>1, <2>2, <2>3, <2>4
  <1>13. CASE WatchdogAsks
    <2>1. ready' \in Seq(Items)
      BY <1>0, <1>13, ReadyTypes DEF WatchdogAsks
    <2> QED
      BY <1>13, <2>1 DEF WatchdogAsks, futVars, Items
  <1>14. CASE WatchdogWakes
    BY <1>14 DEF WatchdogWakes, loopVars, futVars
  <1>15. CASE ShutdownStops
    <2>1. ready' \in Seq(Items)
      BY <1>0, <1>15, ReadyTypes DEF ShutdownStops
    <2> QED
      BY <1>15, <2>1 DEF ShutdownStops, futVars, dogVars, Items
  <1>16. CASE ShutdownNext
    BY <1>16 DEF ShutdownNext, ShutdownJoinsLoop, ShutdownJoinsWatchdog, loopVars, futVars,
                 dogVars
  <1>17. CASE UNCHANGED vars
    BY <1>17 DEF vars, loopVars, futVars, dogVars
  <1> QED
    BY <1>1, <1>2, <1>4, <1>5, <1>6, <1>7, <1>8, <1>9, <1>10, <1>11, <1>12, <1>13, <1>14,
       <1>15, <1>16, <1>17 DEF Next, LoopNext, WatchdogNext

\* Only RunPosted arms a timer, and it looks at _cancelled; only CancelTimer
\* sets that, and it stops the timer.
LEMMA CancelStep ==
  ASSUME TypeOK, CancelledIsNotArmed, [Next]_vars
  PROVE  CancelledIsNotArmed'
  <1> USE DEF CancelledIsNotArmed
  <1>0. /\ timer \in [Timers -> {"none", "armed", "off", "firing", "fired"}]
        /\ cancelled \in [Timers -> BOOLEAN]
    BY DEF TypeOK
  <1>1. ASSUME UNCHANGED <<timer, cancelled>>
        PROVE  CancelledIsNotArmed'
    BY <1>1
  <1>2. ASSUME NEW h \in Timers, CancelTimer(h)
        PROVE  CancelledIsNotArmed'
    BY <1>0, <1>2 DEF CancelTimer
  <1>3. CASE RunPosted
    <2>1. cancelled' = cancelled
      BY <1>3 DEF RunPosted
    <2>2. timer' = IF Head(ready)[1] # "arm" THEN timer
                   ELSE [timer EXCEPT ![Head(ready)[2]] =
                           IF cancelled[Head(ready)[2]] THEN "off" ELSE "armed"]
      BY <1>3 DEF RunPosted
    <2> QED
      BY <1>0, <2>1, <2>2
  <1>4. ASSUME NEW h \in Timers, Fire(h) \/ RunCallback(h)
        PROVE  CancelledIsNotArmed'
    BY <1>0, <1>4 DEF Fire, RunCallback
  <1> QED
    BY <1>1, <1>2, <1>3, <1>4
       DEF Next, LoopNext, WatchdogNext, ShutdownNext, GetLoop, Post, Complete, OnDoneCancels,
           OnDoneSets, LeaveBlock, BlockRaises, CallbackHangs, WatchdogAsks,
           WatchdogWakes, ShutdownStops, ShutdownJoinsLoop, ShutdownJoinsWatchdog, vars,
           loopVars, Timers

LEMMA TimersInit ==
  ASSUME Init
  PROVE  TimersInv
  <1>1. TypeOK
    <2>1. ready \in Seq({<<"arm", h>> : h \in Timers} \cup {<<"health">>, <<"stop">>})
      BY DEF Init
    <2>2. /\ timer \in [Timers -> {"none", "armed", "off", "firing", "fired"}]
          /\ cancelled \in [Timers -> BOOLEAN]
          /\ caller \in [Timers -> {"idle", "loop", "posted", "done", "left"}]
          /\ fut \in [Futs \cup Streams -> {"pending", "value", "error"}]
          /\ timed \in [Futs -> {"pending", "value", "error", "timeout"}]
      BY DEF Init
    <2> QED
      BY <2>1, <2>2 DEF Init, TypeOK
  <1>2. CancelledIsNotArmed
    BY DEF Init, CancelledIsNotArmed
  <1>3. Posted("stop") = {}
    BY DEF Init, Posted
  <1> QED
    BY <1>1, <1>2, <1>3
       DEF Init, TimersInv, WatchdogInv, NoFalseAlarm, StopIsLocked, RequestIsAhead

\* Neither a timer nor the watchdog of futures.py goes off at the wrong time.
\* A cancelled timer is not armed, in whatever order posting, arming and
\* cancelling come (futures.py:190); and the watchdog gives up only on a loop
\* that a callback blocks: its request is in the loop's queue ahead of any
\* stop, and shutdown holds the lock from its stop to the loop's end.
THEOREM TimersGoOffRightly == WSpec => []NothingGoesOffWrongly
  <1>1. WInit => TimersInv
    BY TimersInit DEF WInit
  <1>2. TimersInv /\ [WNext]_worksVars => TimersInv'
    <2> SUFFICES ASSUME TimersInv, [WNext]_worksVars
                 PROVE  TimersInv'
      OBVIOUS
    <2>1. [Next]_vars
      BY DEF WNext, worksVars
    <2> QED
      BY <2>1, TimersTypes, CancelStep, WatchdogStep DEF TimersInv
  <1>3. TimersInv => NothingGoesOffWrongly
    BY DEF TimersInv, WatchdogInv, NothingGoesOffWrongly
  <1> QED
    BY <1>1, <1>2, <1>3, PTL DEF WSpec
-----------------------------------------------------------------------------
(* What a replica votes for *)

Issued(b) == op[b] # "none"

\* Buckets are reduced in turn, each once.
CallsInTurn ==
  /\ \A b \in Managed!Buckets : ~Issued(b) =>
        /\ chain[b] = "lazy" /\ result[b] = "none"
        /\ ~tensor[b].summed /\ tensor[b].divided = 0
  /\ pc[1] \in {"call", "sync", "wait", "tail", "waited"} => pc[2] \in Managed!Buckets
  /\ pc[1] = "call" => \A c \in Managed!Buckets : c >= pc[2] => ~Issued(c)
  /\ pc[1] = "sync" => use = "sync" /\ Issued(pc[2])
  /\ pc[1] = "sync" \/ (use = "ddp" /\ pc[1] \in {"wait", "tail", "waited"}) =>
       \A c \in Managed!Buckets : c > pc[2] => ~Issued(c)

Averaged(b) == tensor[b].summed /\ tensor[b].divided = 1

\* A tensor is summed by an operation that is done, and divided by a chain
\* that ran; whatever else happened to it is on record.
TensorsFit ==
  \A b \in Managed!Buckets :
    /\ tensor[b].summed => op[b] = "done"
    /\ op[b] = "done" => tensor[b].summed
    /\ chain[b] # "ran" => tensor[b].divided = 0
    /\ chain[b] = "ran" => errored \/ Averaged(b)
    /\ op[b] = "dummy" => errored
    /\ result[b] # "none" => errored \/ Averaged(b)

CommittedIsAverage ==
  pc[1] = "committed" => \A b \in Managed!Buckets : result[b] # "none" => Averaged(b)

ManagedInv == Managed!TypeOK /\ CallsInTurn /\ TensorsFit /\ CommittedIsAverage

LEMMA BucketNumbers == Managed!Buckets \subseteq 1 .. NumBuckets /\ NumBuckets \in Nat
  BY WorksAssumption DEF Managed!Buckets

\* Where the caller goes after a call and after a wait.
LEMMA CallerPlaces ==
  ASSUME NEW b \in Managed!Buckets
  PROVE  /\ Managed!AfterCall(b) \in Managed!Places \X (0 .. NumBuckets)
         /\ Managed!AfterCall(b)[1] \in {"call", "sync", "wait"} =>
              Managed!AfterCall(b)[2] \in Managed!Buckets
         /\ Managed!AfterCall(b)[1] \in {"call", "sync", "wait", "decide"}
         /\ Managed!AfterCall(b)[1] = "call" => Managed!AfterCall(b)[2] = b + 1
         /\ Managed!AfterCall(b)[1] = "sync" => use = "sync" /\ Managed!AfterCall(b)[2] = b
         /\ use = "ddp" => Managed!AfterCall(b) = <<"wait", b>>
         /\ Managed!AfterWait(b) \in Managed!Places \X (0 .. NumBuckets)
         /\ Managed!AfterWait(b)[1] \in {"call", "wait"} =>
              Managed!AfterWait(b)[2] \in Managed!Buckets
         /\ Managed!AfterWait(b)[1] \in {"call", "wait", "decide"}
         /\ Managed!AfterWait(b)[1] = "call" => use = "ddp" /\ Managed!AfterWait(b)[2] = b + 1
         /\ use = "ddp" => Managed!AfterWait(b)[1] # "wait"
  BY WorksAssumption DEF Managed!AfterCall, Managed!AfterWait, Managed!Buckets, Managed!Places

LEMMA SyncIsIssued ==
  ASSUME Managed!TypeOK, CallsInTurn, NEW b \in Managed!Buckets, Managed!At("sync", b), op[b] # "dummy"
  PROVE  op[b] \in {"pending", "done", "failed"}
  BY DEF Managed!TypeOK, CallsInTurn, Issued, Managed!At

\* What building the chain does to it and to the tensor.
LEMMA ChainBuilt ==
  ASSUME Managed!TypeOK, TensorsFit, NEW b \in Managed!Buckets, op[b] \in {"pending", "done", "failed"},
         Managed!SetFutureCallback(b)
  PROVE  /\ errored' \in BOOLEAN
         /\ errored => errored'
         /\ chain' \in [Managed!Buckets -> {"lazy", "late", "ran"}]
         /\ tensor' \in [Managed!Buckets -> [summed : BOOLEAN, divided : 0 .. 1]]
         /\ \A c \in Managed!Buckets :
              c # b => chain'[c] = chain[c] /\ tensor'[c] = tensor[c]
         /\ tensor'[b].summed = tensor[b].summed
         /\ chain'[b] # "ran" => tensor'[b].divided = 0
         /\ chain'[b] = "ran" => errored' \/ Averaged(b)'
         /\ Averaged(b) => Averaged(b)'
  <1> USE DEF Managed!TypeOK, TensorsFit, Averaged
  <1>1. CASE chain[b] # "lazy"
    <2>1. UNCHANGED <<errored, tensor, chain>>
      BY <1>1 DEF Managed!SetFutureCallback
    <2> QED
      BY <1>1, <2>1
  <1>2. CASE chain[b] = "lazy" /\ op[b] = "pending"
    <2>1. /\ chain' = [chain EXCEPT ![b] = "late"]
          /\ UNCHANGED <<errored, tensor>>
      BY <1>2 DEF Managed!SetFutureCallback
    <2> QED
      BY <1>2, <2>1
  <1>3. CASE chain[b] = "lazy" /\ op[b] = "done"
    <2>1. /\ chain' = [chain EXCEPT ![b] = "ran"]
          /\ tensor' = [tensor EXCEPT ![b].divided = @ + 1]
          /\ UNCHANGED errored
      BY <1>3 DEF Managed!SetFutureCallback
    <2>2. /\ tensor[b].divided = 0
          /\ tensor[b] \in [summed : BOOLEAN, divided : 0 .. 1]
      BY <1>3
    <2>3. tensor' = [tensor EXCEPT ![b] = [tensor[b] EXCEPT !.divided = 1]]
      BY <2>1, <2>2
    <2>4. tensor'[b] = [tensor[b] EXCEPT !.divided = 1]
      BY <2>3
    <2>5. tensor'[b] \in [summed : BOOLEAN, divided : 0 .. 1]
      BY <2>2, <2>4
    <2>6. tensor' \in [Managed!Buckets -> [summed : BOOLEAN, divided : 0 .. 1]]
      BY <2>3, <2>4, <2>5
    <2>7. tensor'[b].summed = tensor[b].summed /\ tensor'[b].divided = 1
      BY <2>2, <2>4
    <2> QED
      BY <1>3, <2>1, <2>3, <2>6, <2>7
  <1>4. CASE chain[b] = "lazy" /\ op[b] = "failed"
    <2>1. /\ chain' = [chain EXCEPT ![b] = "ran"]
          /\ errored' = TRUE
          /\ UNCHANGED tensor
      BY <1>4 DEF Managed!SetFutureCallback
    <2> QED
      BY <1>4, <2>1
  <1> QED
    BY <1>1, <1>2, <1>3, <1>4

LEMMA ManagedTypes ==
  ASSUME Managed!TypeOK, CallsInTurn, TensorsFit, [Managed!Next]_managedVars
  PROVE  Managed!TypeOK'
  <1> USE DEF Managed!TypeOK, Managed!Places
  <1>1. ASSUME NEW b \in Managed!Buckets, Managed!CallSkipped(b)
        PROVE  Managed!TypeOK'
    BY <1>1, BucketNumbers DEF Managed!CallSkipped, Managed!At, Managed!AfterCall, Managed!modeVars
  <1>2. ASSUME NEW b \in Managed!Buckets, Managed!CallIssues(b)
        PROVE  Managed!TypeOK'
    BY <1>2, BucketNumbers DEF Managed!CallIssues, Managed!At, Managed!AfterCall, Managed!modeVars
  <1>3. ASSUME NEW b \in Managed!Buckets, Managed!CallRaises(b)
        PROVE  Managed!TypeOK'
    BY <1>3, BucketNumbers DEF Managed!CallRaises, Managed!At, Managed!AfterCall, Managed!modeVars
  <1>4. ASSUME NEW b \in Managed!Buckets, Managed!Synchronize(b)
        PROVE  Managed!TypeOK'
    <2>1. pc' \in Managed!Places \X (0 .. NumBuckets)
      BY <1>4, BucketNumbers DEF Managed!Synchronize, Managed!Buckets
    <2>2. UNCHANGED <<use, length, tells, op, tailFails, result>>
      BY <1>4 DEF Managed!Synchronize, Managed!modeVars
    <2>3. \/ UNCHANGED <<errored, tensor, chain>>
          \/ op[b] \in {"pending", "done", "failed"} /\ Managed!SetFutureCallback(b)
      BY <1>4, SyncIsIssued DEF Managed!Synchronize
    <2> QED
      BY <2>1, <2>2, <2>3, ChainBuilt
  <1>5. ASSUME NEW b \in Managed!Buckets, Managed!WaitOp(b)
        PROVE  Managed!TypeOK'
    <2>1. pc' \in Managed!Places \X (0 .. NumBuckets)
      BY <1>5, BucketNumbers DEF Managed!WaitOp
    <2>2. /\ UNCHANGED <<use, length, tells, op, tailFails>>
          /\ result' \in [Managed!Buckets -> {"none", "TRUE", "FALSE"}]
      BY <1>5 DEF Managed!WaitOp, Managed!modeVars
    <2>3. \/ errored' = TRUE /\ UNCHANGED <<tensor, chain>>
          \/ op[b] \in {"pending", "done", "failed"} /\ Managed!SetFutureCallback(b)
      BY <1>5 DEF Managed!WaitOp
    <2> QED
      BY <2>1, <2>2, <2>3, ChainBuilt
  <1>6. ASSUME NEW b \in Managed!Buckets, Managed!WaitTail(b)
        PROVE  Managed!TypeOK'
    BY <1>6, BucketNumbers DEF Managed!WaitTail, Managed!At, Managed!modeVars
  <1>7. ASSUME NEW b \in Managed!Buckets, Managed!WaitDummy(b)
        PROVE  Managed!TypeOK'
    BY <1>7, BucketNumbers DEF Managed!WaitDummy, Managed!At, Managed!modeVars
  <1>8. ASSUME NEW b \in Managed!Buckets, Managed!Return(b)
        PROVE  Managed!TypeOK'
    BY <1>8, BucketNumbers DEF Managed!Return, Managed!At, Managed!AfterWait, Managed!modeVars
  <1>9. ASSUME NEW b \in Managed!Buckets, Managed!OpDone(b)
        PROVE  Managed!TypeOK'
    BY <1>9, BucketNumbers, ZenonT(30) DEF Managed!OpDone, Managed!modeVars
  <1>10. ASSUME NEW b \in Managed!Buckets, Managed!OpFails(b)
        PROVE  Managed!TypeOK'
    BY <1>10, BucketNumbers DEF Managed!OpFails, Managed!modeVars
  <1>11. ASSUME NEW b \in Managed!Buckets, Managed!LateCallbacks(b)
        PROVE  Managed!TypeOK'
    BY <1>11, BucketNumbers DEF Managed!LateCallbacks, Managed!modeVars
  <1>12. ASSUME NEW b \in Managed!Buckets, Managed!LateTimeout(b)
        PROVE  Managed!TypeOK'
    BY <1>12, BucketNumbers DEF Managed!LateTimeout, Managed!modeVars
  <1>13. CASE Managed!Decide
    BY <1>13, BucketNumbers DEF Managed!Decide, Managed!modeVars
  <1>14. CASE UNCHANGED managedVars
    BY <1>14 DEF managedVars
  <1> QED
    BY <1>1, <1>2, <1>3, <1>4, <1>5, <1>6, <1>7, <1>8, <1>9, <1>10, <1>11, <1>12, <1>13, <1>14
       DEF Managed!Next, Managed!CallerNext

LEMMA TurnAfterCall ==
  ASSUME Managed!TypeOK, CallsInTurn, NEW b \in Managed!Buckets,
         pc[1] = "call", pc[2] = b, pc' = Managed!AfterCall(b),
         UNCHANGED <<use, tensor, chain, result>>,
         op'[b] # "none", \A c \in Managed!Buckets : c # b => op'[c] = op[c]
  PROVE  CallsInTurn'
  <1> DEFINE to == Managed!AfterCall(b)
  <1>1. /\ to[1] \in {"call", "sync", "wait"} => to[2] \in Managed!Buckets
        /\ to[1] \in {"call", "sync", "wait", "decide"}
        /\ to[1] = "call" => to[2] = b + 1
        /\ to[1] = "sync" => use = "sync" /\ to[2] = b
        /\ use = "ddp" => to[2] = b
    BY CallerPlaces
  <1>2. \A c \in Managed!Buckets : c > b => ~Issued(c)'
    <2> SUFFICES ASSUME NEW c \in Managed!Buckets, c > b
                 PROVE  op'[c] = "none"
      BY DEF Issued
    <2>1. c >= b /\ c # b
      BY BucketNumbers
    <2> QED
      BY <2>1 DEF CallsInTurn, Issued
  <1>3. \A c \in Managed!Buckets : c >= b + 1 => c > b
    BY BucketNumbers
  <1>4. \A c \in Managed!Buckets : ~Issued(c)' =>
          /\ chain'[c] = "lazy" /\ result'[c] = "none"
          /\ ~tensor'[c].summed /\ tensor'[c].divided = 0
    BY DEF CallsInTurn, Issued
  <1>6. to[1] = "sync" => op'[to[2]] # "none"
    BY <1>1
  <1> HIDE DEF to
  <1>5. pc' = to
    BY DEF to
  <1> QED
    BY <1>1, <1>2, <1>3, <1>4, <1>5, <1>6 DEF CallsInTurn, Issued

LEMMA ManagedTurns ==
  ASSUME Managed!TypeOK, CallsInTurn, TensorsFit, [Managed!Next]_managedVars
  PROVE  CallsInTurn'
  <1> USE DEF Managed!TypeOK, CallsInTurn, Issued
  <1>1. ASSUME NEW b \in Managed!Buckets, Managed!CallSkipped(b)
        PROVE  CallsInTurn'
    <2>1. /\ pc[1] = "call" /\ pc[2] = b /\ pc' = Managed!AfterCall(b)
          /\ UNCHANGED <<use, tensor, chain, result>>
          /\ op'[b] # "none"
          /\ \A c \in Managed!Buckets : c # b => op'[c] = op[c]
      BY <1>1 DEF Managed!CallSkipped, Managed!At, Managed!modeVars
    <2> QED
      BY <2>1, TurnAfterCall
  <1>2. ASSUME NEW b \in Managed!Buckets, Managed!CallIssues(b)
        PROVE  CallsInTurn'
    <2>1. /\ pc[1] = "call" /\ pc[2] = b /\ pc' = Managed!AfterCall(b)
          /\ UNCHANGED <<use, tensor, chain, result>>
          /\ op'[b] # "none"
          /\ \A c \in Managed!Buckets : c # b => op'[c] = op[c]
      BY <1>2 DEF Managed!CallIssues, Managed!At, Managed!modeVars
    <2> QED
      BY <2>1, TurnAfterCall
  <1>3. ASSUME NEW b \in Managed!Buckets, Managed!CallRaises(b)
        PROVE  CallsInTurn'
    <2>1. /\ pc[1] = "call" /\ pc[2] = b /\ pc' = Managed!AfterCall(b)
          /\ UNCHANGED <<use, tensor, chain, result>>
          /\ op'[b] # "none"
          /\ \A c \in Managed!Buckets : c # b => op'[c] = op[c]
      BY <1>3 DEF Managed!CallRaises, Managed!At, Managed!modeVars
    <2> QED
      BY <2>1, TurnAfterCall
  <1>4. ASSUME NEW b \in Managed!Buckets, Managed!Synchronize(b)
        PROVE  CallsInTurn'
    <2>1. /\ pc[1] = "sync" /\ pc[2] = b
          /\ pc' = IF b < NumBuckets THEN <<"call", b + 1>> ELSE <<"wait", 1>>
          /\ UNCHANGED <<use, op, result>>
      BY <1>4 DEF Managed!Synchronize, Managed!At, Managed!modeVars
    <2>2. \/ UNCHANGED <<errored, tensor, chain>>
          \/ op[b] \in {"pending", "done", "failed"} /\ Managed!SetFutureCallback(b)
      BY <1>4, SyncIsIssued DEF Managed!Synchronize
    <2>3. \A c \in Managed!Buckets : c # b => chain'[c] = chain[c] /\ tensor'[c] = tensor[c]
      BY <2>2, ChainBuilt
    <2>4. pc'[2] \in Managed!Buckets /\ use # "ddp"
      BY <2>1, WorksAssumption DEF CallsInTurn, Managed!Buckets
    <2>5. pc'[1] = "call" =>
            \A c \in Managed!Buckets : c >= pc'[2] => c > b
      BY <2>1, BucketNumbers
    <2> QED
      BY <2>1, <2>3, <2>4, <2>5
  <1>5. ASSUME NEW b \in Managed!Buckets, Managed!WaitOp(b)
        PROVE  CallsInTurn'
    <2>1. /\ pc[1] = "wait" /\ pc[2] = b /\ UNCHANGED <<use, op>>
          /\ pc' \in {<<"waited", b>>, <<"tail", b>>}
          /\ op[b] # "none"
          /\ \A c \in Managed!Buckets : c # b => result'[c] = result[c]
      BY <1>5 DEF Managed!WaitOp, Managed!At, Managed!modeVars
    <2>2. \/ UNCHANGED <<tensor, chain>>
          \/ op[b] \in {"pending", "done", "failed"} /\ Managed!SetFutureCallback(b)
      BY <1>5 DEF Managed!WaitOp
    <2>3. \A c \in Managed!Buckets : c # b => chain'[c] = chain[c] /\ tensor'[c] = tensor[c]
      BY <2>2, ChainBuilt
    <2> QED
      BY <2>1, <2>3
  <1>6. ASSUME NEW b \in Managed!Buckets, Managed!WaitTail(b)
        PROVE  CallsInTurn'
    BY <1>6, BucketNumbers DEF Managed!WaitTail, Managed!At, Managed!modeVars
  <1>7. ASSUME NEW b \in Managed!Buckets, Managed!WaitDummy(b)
        PROVE  CallsInTurn'
    BY <1>7, BucketNumbers DEF Managed!WaitDummy, Managed!At, Managed!modeVars
  <1>8. ASSUME NEW b \in Managed!Buckets, Managed!Return(b)
        PROVE  CallsInTurn'
    <2>1. /\ pc[1] = "waited" /\ pc[2] = b /\ UNCHANGED <<use, op, tensor, chain, result>>
          /\ pc' \in {<<"raised", b>>, Managed!AfterWait(b)}
      BY <1>8 DEF Managed!Return, Managed!At, Managed!modeVars
    <2>2. \A c \in Managed!Buckets : c >= b + 1 => c > b
      BY BucketNumbers
    <2> QED
      BY <2>1, <2>2, CallerPlaces
  <1>9. ASSUME NEW b \in Managed!Buckets, Managed!OpDone(b)
        PROVE  CallsInTurn'
    BY <1>9, BucketNumbers DEF Managed!OpDone, Managed!modeVars
  <1>10. ASSUME NEW b \in Managed!Buckets, Managed!OpFails(b)
        PROVE  CallsInTurn'
    BY <1>10, BucketNumbers DEF Managed!OpFails, Managed!modeVars
  <1>11. ASSUME NEW b \in Managed!Buckets, Managed!LateCallbacks(b)
        PROVE  CallsInTurn'
    BY <1>11, BucketNumbers DEF Managed!LateCallbacks, Managed!modeVars
  <1>12. ASSUME NEW b \in Managed!Buckets, Managed!LateTimeout(b)
        PROVE  CallsInTurn'
    BY <1>12, BucketNumbers DEF Managed!LateTimeout, Managed!modeVars
  <1>13. CASE Managed!Decide
    BY <1>13, BucketNumbers DEF Managed!Decide, Managed!modeVars
  <1>14. CASE UNCHANGED managedVars
    BY <1>14 DEF managedVars
  <1> QED
    BY <1>1, <1>2, <1>3, <1>4, <1>5, <1>6, <1>7, <1>8, <1>9, <1>10, <1>11, <1>12, <1>13, <1>14
       DEF Managed!Next, Managed!CallerNext

LEMMA ManagedTensors ==
  ASSUME Managed!TypeOK, CallsInTurn, TensorsFit, [Managed!Next]_managedVars
  PROVE  TensorsFit'
  <1> USE DEF Managed!TypeOK, CallsInTurn, TensorsFit, Issued, Averaged
  <1>1. ASSUME NEW b \in Managed!Buckets, Managed!CallSkipped(b)
        PROVE  TensorsFit'
    BY <1>1, BucketNumbers DEF Managed!CallSkipped, Managed!At, Managed!AfterCall, Managed!modeVars
  <1>2. ASSUME NEW b \in Managed!Buckets, Managed!CallIssues(b)
        PROVE  TensorsFit'
    BY <1>2, BucketNumbers DEF Managed!CallIssues, Managed!At, Managed!AfterCall, Managed!modeVars
  <1>3. ASSUME NEW b \in Managed!Buckets, Managed!CallRaises(b)
        PROVE  TensorsFit'
    BY <1>3, BucketNumbers DEF Managed!CallRaises, Managed!At, Managed!AfterCall, Managed!modeVars
  <1>4. ASSUME NEW b \in Managed!Buckets, Managed!Synchronize(b)
        PROVE  TensorsFit'
    <2>1. UNCHANGED <<op, result>>
      BY <1>4 DEF Managed!Synchronize
    <2>2. \/ UNCHANGED <<errored, tensor, chain>>
          \/ op[b] \in {"pending", "done", "failed"} /\ Managed!SetFutureCallback(b)
      BY <1>4, SyncIsIssued DEF Managed!Synchronize
    <2> QED
      BY <2>1, <2>2, ChainBuilt
  <1>5. ASSUME NEW b \in Managed!Buckets, Managed!WaitOp(b)
        PROVE  TensorsFit'
    <2>1. CASE op[b] = "failed"
      BY <1>5, <2>1 DEF Managed!WaitOp
    <2>2. CASE op[b] # "failed"
      <3>1. /\ UNCHANGED <<op, result>> /\ op[b] \in {"pending", "done", "failed"}
            /\ Managed!SetFutureCallback(b)
        BY <1>5, <2>2 DEF Managed!WaitOp
      <3> QED
        BY <3>1, ChainBuilt
    <2> QED
      BY <2>1, <2>2
  <1>6. ASSUME NEW b \in Managed!Buckets, Managed!WaitTail(b)
        PROVE  TensorsFit'
    BY <1>6, BucketNumbers DEF Managed!WaitTail, Managed!At, Managed!modeVars
  <1>7. ASSUME NEW b \in Managed!Buckets, Managed!WaitDummy(b)
        PROVE  TensorsFit'
    BY <1>7, BucketNumbers DEF Managed!WaitDummy, Managed!At, Managed!modeVars
  <1>8. ASSUME NEW b \in Managed!Buckets, Managed!Return(b)
        PROVE  TensorsFit'
    BY <1>8, BucketNumbers DEF Managed!Return, Managed!At, Managed!AfterWait, Managed!modeVars
  <1>9. ASSUME NEW b \in Managed!Buckets, Managed!OpDone(b)
        PROVE  TensorsFit'
    BY <1>9, BucketNumbers DEF Managed!OpDone, Managed!modeVars
  <1>10. ASSUME NEW b \in Managed!Buckets, Managed!OpFails(b)
        PROVE  TensorsFit'
    BY <1>10, BucketNumbers DEF Managed!OpFails, Managed!modeVars
  <1>11. ASSUME NEW b \in Managed!Buckets, Managed!LateCallbacks(b)
        PROVE  TensorsFit'
    BY <1>11, BucketNumbers DEF Managed!LateCallbacks, Managed!modeVars
  <1>12. ASSUME NEW b \in Managed!Buckets, Managed!LateTimeout(b)
        PROVE  TensorsFit'
    BY <1>12, BucketNumbers DEF Managed!LateTimeout, Managed!modeVars
  <1>13. CASE Managed!Decide
    BY <1>13, BucketNumbers DEF Managed!Decide, Managed!modeVars
  <1>14. CASE UNCHANGED managedVars
    BY <1>14 DEF managedVars
  <1> QED
    BY <1>1, <1>2, <1>3, <1>4, <1>5, <1>6, <1>7, <1>8, <1>9, <1>10, <1>11, <1>12, <1>13, <1>14
       DEF Managed!Next, Managed!CallerNext

LEMMA ManagedCommits ==
  ASSUME Managed!TypeOK, TensorsFit, CommittedIsAverage, [Managed!Next]_managedVars
  PROVE  CommittedIsAverage'
  <1> USE DEF Managed!TypeOK, TensorsFit, CommittedIsAverage, Averaged
  <1>1. ASSUME NEW b \in Managed!Buckets, Managed!CallSkipped(b)
        PROVE  CommittedIsAverage'
    BY <1>1, BucketNumbers DEF Managed!CallSkipped, Managed!At, Managed!AfterCall, Managed!modeVars
  <1>2. ASSUME NEW b \in Managed!Buckets, Managed!CallIssues(b)
        PROVE  CommittedIsAverage'
    BY <1>2, BucketNumbers DEF Managed!CallIssues, Managed!At, Managed!AfterCall, Managed!modeVars
  <1>3. ASSUME NEW b \in Managed!Buckets, Managed!CallRaises(b)
        PROVE  CommittedIsAverage'
    BY <1>3, BucketNumbers DEF Managed!CallRaises, Managed!At, Managed!AfterCall, Managed!modeVars
  <1>4. ASSUME NEW b \in Managed!Buckets, Managed!Synchronize(b)
        PROVE  CommittedIsAverage'
    BY <1>4, BucketNumbers DEF Managed!Synchronize, Managed!At, Managed!SetFutureCallback, Managed!modeVars
  <1>5. ASSUME NEW b \in Managed!Buckets, Managed!WaitOp(b)
        PROVE  CommittedIsAverage'
    BY <1>5 DEF Managed!WaitOp
  <1>6. ASSUME NEW b \in Managed!Buckets, Managed!WaitTail(b)
        PROVE  CommittedIsAverage'
    BY <1>6, BucketNumbers DEF Managed!WaitTail, Managed!At, Managed!modeVars
  <1>7. ASSUME NEW b \in Managed!Buckets, Managed!WaitDummy(b)
        PROVE  CommittedIsAverage'
    BY <1>7, BucketNumbers DEF Managed!WaitDummy, Managed!At, Managed!modeVars
  <1>8. ASSUME NEW b \in Managed!Buckets, Managed!Return(b)
        PROVE  CommittedIsAverage'
    BY <1>8, BucketNumbers DEF Managed!Return, Managed!At, Managed!AfterWait, Managed!modeVars
  <1>9. ASSUME NEW b \in Managed!Buckets, Managed!OpDone(b)
        PROVE  CommittedIsAverage'
    BY <1>9, BucketNumbers DEF Managed!OpDone, Managed!modeVars
  <1>10. ASSUME NEW b \in Managed!Buckets, Managed!OpFails(b)
        PROVE  CommittedIsAverage'
    BY <1>10, BucketNumbers DEF Managed!OpFails, Managed!modeVars
  <1>11. ASSUME NEW b \in Managed!Buckets, Managed!LateCallbacks(b)
        PROVE  CommittedIsAverage'
    BY <1>11, BucketNumbers DEF Managed!LateCallbacks, Managed!modeVars
  <1>12. ASSUME NEW b \in Managed!Buckets, Managed!LateTimeout(b)
        PROVE  CommittedIsAverage'
    BY <1>12, BucketNumbers DEF Managed!LateTimeout, Managed!modeVars
  <1>13. CASE Managed!Decide
    BY <1>13, BucketNumbers DEF Managed!Decide, Managed!modeVars
  <1>14. CASE UNCHANGED managedVars
    BY <1>14 DEF managedVars
  <1> QED
    BY <1>1, <1>2, <1>3, <1>4, <1>5, <1>6, <1>7, <1>8, <1>9, <1>10, <1>11, <1>12, <1>13, <1>14
       DEF Managed!Next, Managed!CallerNext

LEMMA ManagedInit ==
  ASSUME Managed!Init
  PROVE  ManagedInv
  <1>0. 1 \in Managed!Buckets /\ 1 \in 0 .. NumBuckets
    BY WorksAssumption DEF Managed!Buckets
  <1>1. Managed!TypeOK
    <2>1. /\ op \in [Managed!Buckets -> {"none", "dummy", "pending", "done", "failed"}]
          /\ tensor \in [Managed!Buckets -> [summed : BOOLEAN, divided : 0 .. 1]]
          /\ chain \in [Managed!Buckets -> {"lazy", "late", "ran"}]
          /\ tailFails \in [Managed!Buckets -> BOOLEAN]
          /\ result \in [Managed!Buckets -> {"none", "TRUE", "FALSE"}]
      BY DEF Managed!Init
    <2>2. length \in 1 .. 2
      BY DEF Managed!Init
    <2> QED
      BY <1>0, <2>1, <2>2 DEF Managed!Init, Managed!TypeOK, Managed!Places
  <1> QED
    BY <1>0, <1>1 DEF ManagedInv, Managed!Init, CallsInTurn, TensorsFit, CommittedIsAverage, Issued

\* A step that is committed has the average in every tensor whose work was
\* waited for, and whoever votes knows of every failed reduce it waited for
\* (manager.py: allreduce, wrap_future, should_commit; _ManagedWork): whatever
\* the number of buckets, the caller's order of waits, and the moment at which
\* operations end and timers fire.
THEOREM VotesFitTensors == WSpec => []VotesAreInformed
  <1>1. WInit => ManagedInv
    BY ManagedInit DEF WInit
  <1>2. ManagedInv /\ [WNext]_worksVars => ManagedInv'
    <2> SUFFICES ASSUME ManagedInv, [WNext]_worksVars
                 PROVE  ManagedInv'
      OBVIOUS
    <2>1. [Managed!Next]_managedVars
      BY DEF WNext, worksVars
    <2> QED
      BY <2>1, ManagedTypes, ManagedTurns, ManagedTensors, ManagedCommits DEF ManagedInv
  <1>3. ManagedInv => VotesAreInformed
    <2> SUFFICES ASSUME ManagedInv
                 PROVE  Managed!WaitedIsAverage /\ Managed!FailuresAreReported
      BY DEF VotesAreInformed, Managed!VotesAreInformed
    <2>1. ASSUME NEW b \in Managed!Buckets, Averaged(b)
          PROVE  Managed!IsAverage(b)
      BY <2>1 DEF ManagedInv, Managed!TypeOK, Averaged, Managed!IsAverage
    <2>2. Managed!WaitedIsAverage
      BY <2>1 DEF ManagedInv, CommittedIsAverage, Managed!WaitedIsAverage, Managed!Committed
    <2>3. Managed!FailuresAreReported
      BY DEF ManagedInv, TensorsFit, Averaged, Managed!FailuresAreReported
    <2> QED
      BY <2>2, <2>3
  <1> QED
    BY <1>1, <1>2, <1>3, PTL DEF WSpec

-----------------------------------------------------------------------------
(* Errors that are swallowed *)

\* A call that was answered has ended, and none was made in a later
\* configuration than the present one.
CallsInOrder ==
  /\ \A d \in answered : call[d] \in {"dummy", "done", "failed"}
  /\ \A d \in Swallow!Calls : callConf[d] <= confs

\* While no error is on record, every failure that was answered as a success
\* belongs to an earlier configuration.
FailuresAreRecorded ==
  ~error => \A d \in answered : call[d] = "failed" => callConf[d] # confs

SwallowInv == Swallow!TypeOK /\ CallsInOrder /\ FailuresAreRecorded

LEMMA SwallowInit == Swallow!Init => SwallowInv
  <1>1. Swallow!Init => Swallow!TypeOK
    <2>1. Swallow!Init => confs \in 1..MaxConfs /\ callConf \in [Swallow!Calls -> 0..MaxConfs]
      BY WorksAssumption DEF Swallow!Init
    <2> QED
      BY <2>1 DEF Swallow!Init, Swallow!TypeOK
  <1>2. Swallow!Init => CallsInOrder
    BY DEF Swallow!Init, CallsInOrder
  <1>3. Swallow!Init => FailuresAreRecorded
    BY DEF Swallow!Init, FailuresAreRecorded
  <1> QED
    BY <1>1, <1>2, <1>3 DEF SwallowInv

LEMMA SwallowStep == SwallowInv /\ [Swallow!Next]_swallowVars => SwallowInv'
  <1> SUFFICES ASSUME SwallowInv, [Swallow!Next]_swallowVars PROVE SwallowInv'
    OBVIOUS
  <1>0. Swallow!TypeOK /\ CallsInOrder /\ FailuresAreRecorded /\ confs \in Nat
    BY WorksAssumption DEF SwallowInv, Swallow!TypeOK
  <1> USE DEF SwallowInv, Swallow!TypeOK, CallsInOrder, FailuresAreRecorded
  <1>1. CASE Swallow!Configure
    <2>1. /\ error' = FALSE /\ confs' = confs + 1 /\ confs' \in 1..MaxConfs
          /\ UNCHANGED <<callConf, answered>>
          /\ call' = [c \in Swallow!Calls |-> IF call[c] = "pending" THEN "failed" ELSE call[c]]
      BY <1>0, <1>1, WorksAssumption DEF Swallow!Configure
    <2>2. Swallow!TypeOK'
      BY <1>0, <2>1
    <2>3. CallsInOrder' /\ FailuresAreRecorded'
      BY <1>0, <2>1
    <2> QED
      BY <2>2, <2>3
  <1>2. ASSUME NEW c \in Swallow!Calls, Swallow!Allreduce(c)
        PROVE  SwallowInv'
    <2>1. /\ call[c] = "none" /\ c \notin answered
          /\ callConf' = [callConf EXCEPT ![c] = confs]
          /\ confs' = confs /\ answered' = answered
      BY <1>0, <1>2 DEF Swallow!Allreduce
    <2>2. PICK r \in {"dummy", "pending"} : call' = [call EXCEPT ![c] = r]
      BY <1>2 DEF Swallow!Allreduce
    <2>3. error' \in BOOLEAN /\ (error => error')
      <3>1. error' = error \/ error' = TRUE
        BY <1>2 DEF Swallow!Allreduce
      <3> QED
        BY <1>0, <3>1
    <2>4. call' \in [Swallow!Calls -> {"none", "pending", "dummy", "done", "failed"}]
      BY <1>0, <2>2
    <2>5. callConf' \in [Swallow!Calls -> 0..MaxConfs]
      BY <1>0, <2>1
    <2>6. Swallow!TypeOK'
      BY <1>0, <2>1, <2>3, <2>4, <2>5
    <2>7. CallsInOrder'
      BY <1>0, <2>1, <2>2
    <2>8. FailuresAreRecorded'
      BY <1>0, <2>1, <2>2, <2>3
    <2> QED
      BY <2>6, <2>7, <2>8
  <1>3. ASSUME NEW c \in Swallow!Calls, Swallow!OperationEnds(c)
        PROVE  SwallowInv'
    <2>1. PICK r \in {"done", "failed"} : call' = [call EXCEPT ![c] = r]
      BY <1>3 DEF Swallow!OperationEnds
    <2>2. /\ UNCHANGED <<error, confs, callConf, answered>>
          /\ c \notin answered
      BY <1>3 DEF Swallow!OperationEnds
    <2>3. Swallow!TypeOK'
      BY <1>0, <2>1, <2>2
    <2> QED
      BY <1>0, <2>1, <2>2, <2>3
  <1>4. ASSUME NEW c \in Swallow!Calls, Swallow!Answer(c)
        PROVE  SwallowInv'
    <2>1. /\ UNCHANGED <<confs, call, callConf>>
          /\ answered' = answered \cup {c}
          /\ call[c] \in {"dummy", "done", "failed"}
          /\ error' = (error \/ call[c] = "failed")
      BY <1>4 DEF Swallow!Answer
    <2>2. ~error' => ~error /\ call[c] # "failed"
      BY <2>1
    <2> QED
      BY <1>0, <2>1, <2>2
  <1>5. CASE UNCHANGED swallowVars
    BY <1>0, <1>5 DEF swallowVars
  <1> QED
    BY <1>1, <1>2, <1>3, <1>4, <1>5 DEF Swallow!Next

\* Once a failure was answered as a success, nothing more is issued on that
\* configuration.
THEOREM SwallowedMeansSkipped == WSpec => NothingAfterFailure
  <1>1. WInit => SwallowInv
    BY SwallowInit DEF WInit
  <1>2. SwallowInv /\ [WNext]_worksVars => SwallowInv'
    BY SwallowStep DEF WNext, worksVars, swallowVars
  <1>3. SwallowInv /\ [WNext]_worksVars => [Swallow!NothingAfterFailure]_swallowVars
    <2> SUFFICES ASSUME SwallowInv, Swallow!Next
                 PROVE  Swallow!NothingAfterFailure
      BY DEF WNext, worksVars, swallowVars
    <2> SUFFICES ASSUME NEW c \in Swallow!Calls, Swallow!Issues(c)
                 PROVE  ~error
      BY DEF SwallowInv, FailuresAreRecorded, Swallow!NothingAfterFailure
    <2> QED
      BY DEF SwallowInv, Swallow!TypeOK, Swallow!Next, Swallow!Issues, Swallow!Configure,
             Swallow!Allreduce, Swallow!OperationEnds, Swallow!Answer
  <1> QED
    BY <1>1, <1>2, <1>3, PTL DEF WSpec, NothingAfterFailure

-----------------------------------------------------------------------------
(* Whose error decides a step *)

CallbackRuns == nTimer.at \notin {"off", "armed"}

\* The quorum thread configures while the trainer is about to issue, so that
\* nothing of the step is on the stream, and makes a communicator at the end.
ConfigBeforeIssue ==
  config.at # "off" => trainer = "issue" /\ nOp = "none" /\ nGen < MaxComms

\* The communicators aborted, the one in use, and those that were read to be
\* aborted, have been made.
GensMade ==
  /\ pg <= nGen /\ nTimer.pg <= nGen /\ config.pg <= nGen
  /\ aborted \subseteq 1 .. nGen

\* Nothing of a step that is decided is running.
DecidedHasEnded == trainer = "committed" => nOp # "running"

\* No callback runs while the group is configured, ...
CallbackAlone == CallbackRuns => config.at = "off"

\* ... and what it read is still the communicator in use when it aborts it,
\* with the error set before.
CallbackInOrder ==
  /\ nTimer.at \in {"read", "abort", "clear"} => nErrored
  /\ nTimer.at \in {"abort", "clear"} => nTimer.pg = pg
  /\ nTimer.at = "clear" => pg \in aborted

\* The configuration takes away the communicator in use, then the error.
ConfigInOrder ==
  /\ config.at = "abort" => config.pg = pg
  /\ config.at \in {"store", "connect"} => pg = 0
  /\ config.at = "connect" => ~nErrored

\* Garbage, and an aborted communicator, come with an error on record; ...
AbortsAreRecorded ==
  /\ nOp = "garbage" => nErrored
  /\ pg \in aborted => nErrored \/ config.at \in {"mark", "abort"}

\* ... and an error with a communicator on its way out.
ErrorsArePassing == nErrored => pg = 0 \/ config.at # "off" \/ CallbackRuns


\* All of the latter as long as no callback was under way when the last
\* configuration began.
NothingOverlaps ==
  /\ CallbackAlone /\ CallbackInOrder /\ ConfigInOrder
  /\ AbortsAreRecorded /\ ErrorsArePassing
  /\ NCCL!GarbageIsNotCommitted

NCCLShape == NCCL!TypeOK /\ ConfigBeforeIssue /\ GensMade /\ DecidedHasEnded

NCCLInv == NCCLShape /\ (~overlap => NothingOverlaps)

LEMMA NCCLInit == NCCL!Init => NCCLInv
  <1> SUFFICES ASSUME NCCL!Init PROVE NCCLInv
    OBVIOUS
  <1>1. NCCL!TypeOK
    <2>1. /\ pg \in 0 .. MaxComms /\ nGen \in 0 .. MaxComms /\ nOpGen \in 0 .. MaxComms
          /\ nTimer \in [at : {"off", "armed", "mark", "read", "abort", "clear"},
                         pg : 0 .. MaxComms]
          /\ config \in [at : {"off", "mark", "abort", "store", "connect"}, pg : 0 .. MaxComms]
      BY WorksAssumption DEF NCCL!Init
    <2> QED
      BY <2>1 DEF NCCL!Init, NCCL!TypeOK
  <1>3. ConfigBeforeIssue /\ GensMade /\ DecidedHasEnded
    BY DEF NCCL!Init, ConfigBeforeIssue, GensMade, DecidedHasEnded
  <1>2. NothingOverlaps
    BY DEF NCCL!Init, NothingOverlaps, CallbackAlone, CallbackInOrder, ConfigInOrder,
           AbortsAreRecorded, ErrorsArePassing, CallbackRuns, NCCL!GarbageIsNotCommitted
  <1> QED
    BY <1>1, <1>2, <1>3 DEF NCCLInv, NCCLShape

LEMMA NCCLShapeStep == NCCLShape /\ [NCCL!Next]_ncclVars => NCCLShape'
  <1> SUFFICES ASSUME NCCLShape, [NCCL!Next]_ncclVars PROVE NCCLShape'
    OBVIOUS
  <1> USE WorksAssumption DEF NCCLShape, NCCL!TypeOK, ConfigBeforeIssue, GensMade,
                              DecidedHasEnded, NCCL!Gens
  <1>0. ASSUME NEW g \in 0 .. MaxComms, g <= nGen, NCCL!AbortCommunicator(g)
        PROVE  /\ aborted' \subseteq (1 .. MaxComms) \cap (1 .. nGen)
               /\ nOp' \in {nOp, "garbage"} /\ (nOp = "none" => nOp' = "none")
               /\ (nOp # "running" => nOp' = nOp)
    BY <1>0 DEF NCCL!AbortCommunicator
  <1>1. CASE NCCL!StartQuorum
    <2>1. overlap' \in BOOLEAN
      BY <1>1 DEF NCCL!StartQuorum
    <2>2. /\ config' \in [at : {"off", "mark", "abort", "store", "connect"}, pg : 0 .. MaxComms]
          /\ config'.at # "off" => config.at # "off" \/ nGen < MaxComms
          /\ config'.pg <= nGen
      BY <1>1 DEF NCCL!StartQuorum
    <2>3. /\ known' \in BOOLEAN /\ nOpGen' = 0 /\ nOp' = "none" /\ trainer' = "issue"
          /\ UNCHANGED <<pg, nErrored, nGen, aborted, nTimer>>
      BY <1>1 DEF NCCL!StartQuorum
    <2> QED
      BY <2>1, <2>2, <2>3
  <1>2. CASE NCCL!Issue
    BY <1>2 DEF NCCL!Issue, NCCL!Mark
  <1>3. CASE NCCL!Wait
    BY <1>3 DEF NCCL!Wait, NCCL!Mark
  <1>4. CASE NCCL!Decide
    BY <1>4 DEF NCCL!Decide, NCCL!Mark
  <1>5. CASE NCCL!NextStep
    BY <1>5 DEF NCCL!NextStep, NCCL!Mark
  <1>6. CASE NCCL!OpDone
    BY <1>6 DEF NCCL!OpDone, NCCL!Mark
  <1>7. CASE NCCL!Fire
    BY <1>7 DEF NCCL!Fire, NCCL!Mark
  <1>8. CASE NCCL!CallbackMarks
    BY <1>8 DEF NCCL!CallbackMarks, NCCL!Mark
  <1>9. CASE NCCL!CallbackReads
    BY <1>9 DEF NCCL!CallbackReads, NCCL!Mark
  <1>10. CASE NCCL!CallbackAborts
    <2>1. NCCL!AbortCommunicator(nTimer.pg)
      BY <1>10 DEF NCCL!CallbackAborts
    <2> QED
      BY <1>0, <1>10, <2>1 DEF NCCL!CallbackAborts
  <1>11. CASE NCCL!CallbackClears
    BY <1>11 DEF NCCL!CallbackClears, NCCL!Mark
  <1>12. CASE NCCL!ConfigMarks
    BY <1>12 DEF NCCL!ConfigMarks, NCCL!Mark
  <1>13. CASE NCCL!ConfigAborts
    <2>1. NCCL!AbortCommunicator(config.pg)
      BY <1>13 DEF NCCL!ConfigAborts
    <2> QED
      BY <1>0, <1>13, <2>1 DEF NCCL!ConfigAborts
  <1>14. CASE NCCL!ConfigRaises
    BY <1>14 DEF NCCL!ConfigRaises, NCCL!Mark
  <1>15. CASE NCCL!ConfigClears
    BY <1>15 DEF NCCL!ConfigClears, NCCL!Mark
  <1>16. CASE NCCL!ConfigCreates
    BY <1>16 DEF NCCL!ConfigCreates, NCCL!Mark
  <1>17. CASE UNCHANGED ncclVars
    BY <1>17 DEF ncclVars
  <1> QED
    BY <1>1, <1>2, <1>3, <1>4, <1>5, <1>6, <1>7, <1>8, <1>9, <1>10, <1>11, <1>12, <1>13, <1>14, <1>15, <1>16, <1>17 DEF NCCL!Next, NCCL!TrainerNext,
       NCCL!TimerNext, NCCL!ConfigNext

LEMMA NCCLOverlapStep ==
  ASSUME NCCLInv, [NCCL!Next]_ncclVars, ~overlap'
  PROVE  NothingOverlaps'
  <1> USE WorksAssumption DEF NCCLInv, NCCLShape, NCCL!TypeOK, ConfigBeforeIssue, GensMade,
          DecidedHasEnded, NothingOverlaps, CallbackRuns, CallbackAlone, CallbackInOrder,
          ConfigInOrder, AbortsAreRecorded, ErrorsArePassing, NCCL!GarbageIsNotCommitted
  <1>1. CASE NCCL!StartQuorum
    <2>1. CASE UNCHANGED <<config, overlap>>
      BY <1>1, <2>1 DEF NCCL!StartQuorum
    <2>2. CASE config' = [at |-> "mark", pg |-> 0] /\ overlap' = (nTimer.at \notin {"off", "armed"})
      <3>1. ~CallbackRuns
        BY <2>2
      <3>2. UNCHANGED <<pg, nErrored, nGen, aborted, nTimer>> /\ nOp' = "none" /\ trainer' = "issue"
        BY <1>1 DEF NCCL!StartQuorum
      <3> QED
        BY <2>2, <3>1, <3>2
    <2> QED
      BY <1>1, <2>1, <2>2 DEF NCCL!StartQuorum
  <1>2. CASE NCCL!Issue
    BY <1>2 DEF NCCL!Issue, NCCL!Mark
  <1>3. CASE NCCL!Wait
    BY <1>3 DEF NCCL!Wait, NCCL!Mark
  <1>4. CASE NCCL!Decide
    BY <1>4 DEF NCCL!Decide, NCCL!Mark
  <1>5. CASE NCCL!NextStep
    BY <1>5 DEF NCCL!NextStep, NCCL!Mark
  <1>6. CASE NCCL!OpDone
    BY <1>6 DEF NCCL!OpDone, NCCL!Mark
  <1>7. CASE NCCL!Fire
    BY <1>7 DEF NCCL!Fire, NCCL!Mark
  <1>8. CASE NCCL!CallbackMarks
    BY <1>8 DEF NCCL!CallbackMarks, NCCL!Mark
  <1>9. CASE NCCL!CallbackReads
    BY <1>9 DEF NCCL!CallbackReads, NCCL!Mark
  <1>10. CASE NCCL!CallbackAborts
    BY <1>10 DEF NCCL!CallbackAborts, NCCL!Mark, NCCL!AbortCommunicator
  <1>11. CASE NCCL!CallbackClears
    BY <1>11 DEF NCCL!CallbackClears, NCCL!Mark
  <1>12. CASE NCCL!ConfigMarks
    BY <1>12 DEF NCCL!ConfigMarks, NCCL!Mark
  <1>13. CASE NCCL!ConfigAborts
    BY <1>13 DEF NCCL!ConfigAborts, NCCL!Mark, NCCL!AbortCommunicator
  <1>14. CASE NCCL!ConfigRaises
    BY <1>14 DEF NCCL!ConfigRaises, NCCL!Mark
  <1>15. CASE NCCL!ConfigClears
    BY <1>15 DEF NCCL!ConfigClears, NCCL!Mark
  <1>16. CASE NCCL!ConfigCreates
    BY <1>16 DEF NCCL!ConfigCreates, NCCL!Mark
  <1>17. CASE UNCHANGED ncclVars
    BY <1>17 DEF ncclVars
  <1> QED
    BY <1>1, <1>2, <1>3, <1>4, <1>5, <1>6, <1>7, <1>8, <1>9, <1>10, <1>11, <1>12, <1>13, <1>14, <1>15, <1>16, <1>17 DEF NCCL!Next, NCCL!TrainerNext,
       NCCL!TimerNext, NCCL!ConfigNext

\* The garbage an aborted communicator leaves is never committed, and a step is
\* never discarded for the error of an earlier configuration -- unless a
\* callback was under way when the group was configured.
THEOREM StepsOwnErrors == WSpec => []ErrorsAreTheSteps
  <1>1. WInit => NCCLInv
    BY NCCLInit DEF WInit
  <1>2. NCCLInv /\ [WNext]_worksVars => NCCLInv'
    <2>1. NCCLInv /\ [NCCL!Next]_ncclVars => NCCLInv'
      BY NCCLShapeStep, NCCLOverlapStep DEF NCCLInv
    <2> QED
      BY <2>1 DEF WNext, worksVars, ncclVars
  <1>3. NCCLInv => ErrorsAreTheSteps
    BY DEF NCCLInv, NothingOverlaps, ErrorsArePassing, CallbackRuns, ErrorsAreTheSteps,
           NCCL!ErrorsAreTheSteps, NCCL!NoInheritedError, NCCL!GarbageIsNotCommitted
  <1> QED
    BY <1>1, <1>2, <1>3, PTL DEF WSpec
-----------------------------------------------------------------------------
(* Answers of the subprocess *)

\* Command c on operation o comes before position i of a pipe.
Earlier(q, c, o, i) == \E j \in 1 .. i - 1 : q[j] = <<c, o>>

InPipe(c, o) == Earlier(reqs, c, o, Len(reqs) + 1)

\* Over Gloo the loop has got to the wait for o, and has not ended there.
WaitTaken(o) == backend = "stream" \/ bOp[o] = "done" \/ (worker = "waiting" /\ opId = o)

\* What is in the command pipe: an operation is issued once; a command on it finds it in
\* the dictionary when its turn comes; over Gloo a future is asked for after the wait.
RequestFits(i) ==
  /\ reqs[i][2] < nextOp
  /\ reqs[i][1] = "func" => /\ bOp[reqs[i][2]] = "sent"
                            /\ ~Earlier(reqs, "func", reqs[i][2], i)
  /\ reqs[i][1] # "func" /\ worker # "dead" =>
       /\ reqs[i][2] \in work \/ Earlier(reqs, "func", reqs[i][2], i)
       /\ ~Earlier(reqs, "del", reqs[i][2], i)
  /\ reqs[i][1] = "future" /\ worker # "dead" =>
       WaitTaken(reqs[i][2]) \/ Earlier(reqs, "wait", reqs[i][2], i)

RequestsFit == \A i \in 1 .. Len(reqs) : RequestFits(i)

\* The parent's works are of this configuration, and the subprocess has them, or
\* will have when it has read the pipe.
WorksFit ==
  \A o \in works :
    /\ o < nextOp /\ bOpGen[o] = bGen
    /\ worker # "dead" => (o \in work \/ InPipe("func", o)) /\ ~InPipe("del", o)

\* An operation of the dictionary has begun; one not yet made has no trace.
OpsFit ==
  /\ \A o \in work : o < nextOp /\ bOp[o] \in {"running", "done", "failed"}
  /\ \A o \in Baby!Ops : o >= nextOp => bOp[o] = "none" /\ waited[o] = "no"
  /\ \A o \in Baby!Ops : bOpGen[o] <= bGen

\* A wait whose answer was given, or is waited for, is in the pipe or was taken.
WaitsFit ==
  /\ waiting # Baby!None => waiting < nextOp /\ bOpGen[waiting] = bGen
  /\ \A o \in Baby!Ops :
       (waiting = o \/ waited[o] = "TRUE") /\ bOpGen[o] = bGen /\ worker # "dead" =>
          WaitTaken(o) \/ InPipe("wait", o)

\* Before a wait times out there is one wait under way, the parent's: in the pipe, in
\* the loop, or answered.
AnswersFit ==
  /\ worker # "dead" => \A i \in 1 .. Len(answers) : answers[i][1] = "answer"
  /\ \A i \in 1 .. Len(answers) : answers[i][1] = "exception" => i = Len(answers)
  /\ worker = "waiting" => opId # Baby!None
  /\ ~lateWait =>
       \A i \in 1 .. Len(answers) : answers[i][1] = "answer" =>
          /\ i = 1 /\ waiting # Baby!None /\ answers[i][2] = waiting
          /\ Baby!OnlyStreamWaits(waiting) \/ bOp[waiting] = "done"
  /\ ~lateWait /\ worker # "dead" =>
       /\ \A i \in 1 .. Len(reqs) : reqs[i][1] = "wait" =>
            /\ reqs[i][2] = waiting /\ ~Earlier(reqs, "wait", waiting, i)
            /\ answers = <<>> /\ worker # "waiting"
       /\ worker = "waiting" => opId = waiting /\ answers = <<>>

\* What goes up the future pipe is the value of the operation it names, which over
\* Gloo has ended.
FuturesFit ==
  /\ watched = {}
  /\ \A i \in 1 .. Len(futPipe) :
       /\ futPipe[i][2] = "value" /\ futPipe[i][3] = futPipe[i][1]
       /\ backend = "gloo" => bOp[futPipe[i][1]] = "done"

BabyInv == /\ Baby!TypeOK /\ RequestsFit /\ WorksFit /\ OpsFit /\ WaitsFit /\ AnswersFit
           /\ FuturesFit /\ Baby!WaitMeansDone /\ Baby!FutureMeansDone

\* A command at the end of a pipe comes before nothing.
LEMMA EarlierAppend ==
  ASSUME NEW S, NEW q \in Seq(S), NEW x \in S
  PROVE  /\ Len(Append(q, x)) = Len(q) + 1
         /\ \A i \in 1 .. Len(q) : Append(q, x)[i] = q[i]
         /\ Append(q, x)[Len(q) + 1] = x
         /\ \A c, o : \A i \in 1 .. Len(q) + 1 :
              Earlier(Append(q, x), c, o, i) <=> Earlier(q, c, o, i)
         /\ \A c, o : Earlier(Append(q, x), c, o, Len(q) + 2)
                         <=> Earlier(q, c, o, Len(q) + 1) \/ x = <<c, o>>
  <1>1. /\ Len(Append(q, x)) = Len(q) + 1 /\ Len(q) \in Nat
        /\ \A i \in 1 .. Len(q) : Append(q, x)[i] = q[i]
        /\ Append(q, x)[Len(q) + 1] = x
    OBVIOUS
  <1> DEFINE r == Append(q, x)
  <1> HIDE DEF r
  <1>2. ASSUME NEW c, NEW o, NEW i \in 1 .. Len(q) + 1
        PROVE  Earlier(r, c, o, i) <=> Earlier(q, c, o, i)
    BY <1>1 DEF Earlier, r
  <1>3. ASSUME NEW c, NEW o
        PROVE  Earlier(r, c, o, Len(q) + 2) <=> Earlier(q, c, o, Len(q) + 1) \/ x = <<c, o>>
    <2>1. 1 .. (Len(q) + 2) - 1 = 1 .. Len(q) + 1 /\ 1 .. (Len(q) + 1) - 1 = 1 .. Len(q)
      BY <1>1
    <2>2. Earlier(r, c, o, Len(q) + 2) <=> \E j \in 1 .. Len(q) + 1 : r[j] = <<c, o>>
      BY <2>1 DEF Earlier
    <2>3. Earlier(q, c, o, Len(q) + 1) <=> \E j \in 1 .. Len(q) : q[j] = <<c, o>>
      BY <2>1 DEF Earlier
    <2>4. (\A j \in 1 .. Len(q) : r[j] = q[j]) /\ r[Len(q) + 1] = x
      BY <1>1 DEF r
    <2>5. \A j : j \in 1 .. Len(q) + 1 <=> j \in 1 .. Len(q) \/ j = Len(q) + 1
      BY <1>1
    <2> QED
      BY <2>2, <2>3, <2>4, <2>5
  <1> QED
    BY <1>1, <1>2, <1>3 DEF r

\* What comes first comes before the rest.
LEMMA EarlierTail ==
  ASSUME NEW S, NEW q \in Seq(S), q # <<>>
  PROVE  /\ Len(q) = Len(Tail(q)) + 1 /\ Len(Tail(q)) \in Nat /\ q[1] = Head(q)
         /\ \A i \in 1 .. Len(Tail(q)) : Tail(q)[i] = q[i + 1]
         /\ \A c, o : ~Earlier(q, c, o, 1)
         /\ \A c, o : \A i \in 1 .. Len(Tail(q)) + 1 :
              Earlier(q, c, o, i + 1) <=> Head(q) = <<c, o>> \/ Earlier(Tail(q), c, o, i)
  <1>1. /\ Len(q) = Len(Tail(q)) + 1 /\ Len(Tail(q)) \in Nat /\ q[1] = Head(q)
        /\ \A i \in 1 .. Len(Tail(q)) : Tail(q)[i] = q[i + 1]
    OBVIOUS
  <1> DEFINE r == Tail(q)
  <1> HIDE DEF r
  <1>2. ASSUME NEW c, NEW o, NEW i \in 1 .. Len(r) + 1
        PROVE  Earlier(q, c, o, i + 1) <=> q[1] = <<c, o>> \/ Earlier(r, c, o, i)
    <2>1. ASSUME Earlier(q, c, o, i + 1) PROVE q[1] = <<c, o>> \/ Earlier(r, c, o, i)
      <3>1. PICK j \in 1 .. (i + 1) - 1 : q[j] = <<c, o>>
        BY <2>1 DEF Earlier
      <3>2. CASE j = 1
        BY <3>1, <3>2
      <3>3. CASE j # 1
        <4>1. j - 1 \in 1 .. i - 1 /\ j - 1 \in 1 .. Len(r) /\ (j - 1) + 1 = j
          BY <1>1, <3>1, <3>3 DEF r
        <4>2. r[j - 1] = q[(j - 1) + 1]
          BY <1>1, <4>1 DEF r
        <4> QED
          BY <3>1, <4>1, <4>2 DEF Earlier
      <3> QED
        BY <3>2, <3>3
    <2>2. ASSUME q[1] = <<c, o>> PROVE Earlier(q, c, o, i + 1)
      <3>1. 1 \in 1 .. (i + 1) - 1
        BY <1>1 DEF r
      <3> QED
        BY <2>2, <3>1 DEF Earlier
    <2>3. ASSUME Earlier(r, c, o, i) PROVE Earlier(q, c, o, i + 1)
      <3>1. PICK j \in 1 .. i - 1 : r[j] = <<c, o>>
        BY <2>3 DEF Earlier
      <3>2. j \in 1 .. Len(r) /\ j + 1 \in 1 .. (i + 1) - 1
        BY <1>1, <3>1 DEF r
      <3>3. r[j] = q[j + 1]
        BY <1>1, <3>2 DEF r
      <3> QED
        BY <3>1, <3>2, <3>3 DEF Earlier
    <2> QED
      BY <2>1, <2>2, <2>3
  <1>3. \A c, o : ~Earlier(q, c, o, 1)
    BY DEF Earlier
  <1> QED
    BY <1>1, <1>2, <1>3 DEF r

\* In the beginning there are no commands, answers or works.
LEMMA BabyInitInv == Baby!Init => BabyInv
  <1> SUFFICES ASSUME Baby!Init PROVE BabyInv
    OBVIOUS
  <1>1. MaxOps \in Nat /\ MaxConfigs \in Nat
    BY WorksAssumption
  <1>2. reqs = <<>> /\ answers = <<>> /\ futPipe = <<>> /\ Len(reqs) = 0 /\ Len(answers) = 0
        /\ Len(futPipe) = 0
    BY DEF Baby!Init
  <1>3. Baby!TypeOK
    <2>1. reqs \in Seq(Baby!Commands) /\ answers \in Seq({"answer", "exception"} \X (Baby!Ops \cup {Baby!None}))
          /\ futPipe \in Seq(Baby!Ops \X {"value", "error"} \X Baby!Ops)
      BY <1>2
    <2>2. bGen \in 0 .. MaxConfigs /\ nextOp \in 1 .. MaxOps + 1
      BY <1>1 DEF Baby!Init
    <2>3. /\ bOp \in [Baby!Ops -> {"none", "sent", "running", "done", "failed", "killed"}]
          /\ bOpGen \in [Baby!Ops -> 0 .. MaxConfigs]
          /\ waited \in [Baby!Ops -> {"no", "TRUE", "raised"}]
          /\ answerOf \in [Baby!Ops -> Baby!Ops \cup {Baby!None}]
          /\ futureOf \in [Baby!Ops -> Baby!Ops \cup {Baby!None}]
          /\ future \in [Baby!Ops -> {"none", "pending", "value", "error"}]
      BY <1>1 DEF Baby!Init
    <2> QED
      BY <2>1, <2>2, <2>3 DEF Baby!Init, Baby!TypeOK
  <1>4. RequestsFit /\ WorksFit /\ OpsFit /\ WaitsFit /\ AnswersFit /\ FuturesFit
    BY <1>2, <1>1 DEF Baby!Init, RequestsFit, RequestFits, WorksFit, OpsFit, WaitsFit, AnswersFit, Baby!OnlyStreamWaits, FuturesFit,
                Baby!None, Baby!Ops
  <1>5. Baby!WaitMeansDone /\ Baby!FutureMeansDone
    BY DEF Baby!Init, Baby!WaitMeansDone, Baby!OnlyStreamWaits, Baby!FutureMeansDone
  <1> QED
    BY <1>3, <1>4, <1>5 DEF BabyInv

\* Pipes keep their types.
LEMMA PipeTypes ==
  ASSUME NEW S, NEW q \in Seq(S)
  PROVE  /\ \A x \in S : Append(q, x) \in Seq(S)
         /\ q # <<>> => Tail(q) \in Seq(S) /\ Head(q) \in S
  OBVIOUS

\* A callback that waits for an operation to end finds an id in the loop's variable.
WatchedHasId == watched # {} => opId \in Baby!Ops

LEMMA BabyTypes ==
  ASSUME Baby!TypeOK, WatchedHasId, Baby!Next PROVE Baby!TypeOK' /\ WatchedHasId'
  <1>0. MaxOps \in Nat /\ MaxConfigs \in Nat /\ Baby!Ops \subseteq Nat /\ nextOp \in Nat /\ bGen \in Nat
    BY WorksAssumption DEF Baby!TypeOK, Baby!Ops
  <1> DEFINE Answer == {"answer", "exception"} \X (Baby!Ops \cup {Baby!None})
  <1>1. ASSUME Baby!Configure \/ Baby!ShutdownRaises PROVE Baby!TypeOK'
    <2>1. bGen' \in 0 .. MaxConfigs
      BY <1>0, <1>1 DEF Baby!Configure, Baby!ShutdownRaises, Baby!TypeOK
    <2>2. reqs' \in Seq(Baby!Commands) /\ answers' \in Seq(Answer)
          /\ futPipe' \in Seq(Baby!Ops \X {"value", "error"} \X Baby!Ops)
      <3>1. reqs' = <<>> /\ answers' = <<>> /\ futPipe' = <<>>
        BY <1>1 DEF Baby!Configure, Baby!ShutdownRaises
      <3>2. \A T : <<>> \in Seq(T)
        OBVIOUS
      <3> QED
        BY <3>1, <3>2, Zenon
    <2>3. bOp' \in [Baby!Ops -> {"none", "sent", "running", "done", "failed", "killed"}]
      BY <1>1 DEF Baby!Configure, Baby!ShutdownRaises, Baby!Killed, Baby!TypeOK
    <2> QED
      BY <1>1, <2>1, <2>2, <2>3 DEF Baby!Configure, Baby!ShutdownRaises, Baby!TypeOK,
           Baby!waitVars, Baby!futureVars
  <1>2. ASSUME Baby!RunFunc PROVE Baby!TypeOK'
    <2>1. nextOp \in Baby!Ops /\ nextOp' \in 1 .. MaxOps + 1
      BY <1>0, <1>2 DEF Baby!RunFunc, Baby!Ops, Baby!TypeOK
    <2>2. <<"func", nextOp>> \in Baby!Commands
      BY <2>1 DEF Baby!Commands
    <2>3. reqs' \in Seq(Baby!Commands)
      <3>1. reqs \in Seq(Baby!Commands) /\ reqs' = Append(reqs, <<"func", nextOp>>)
        BY <1>2 DEF Baby!RunFunc, Baby!TypeOK
      <3> QED
        BY <2>2, <3>1, PipeTypes
    <2> QED
      BY <1>2, <2>1, <2>3 DEF Baby!RunFunc, Baby!TypeOK, Baby!workerVars, Baby!waitVars, Baby!futureVars
  <1>3. ASSUME NEW o \in Baby!Ops, Baby!Wait(o) \/ Baby!GetFuture(o) \/ Baby!Free(o)
        PROVE  Baby!TypeOK'
    <2>1. \A c \in {"wait", "future", "del"} : <<c, o>> \in Baby!Commands
      BY DEF Baby!Commands
    <2>2. reqs' \in Seq(Baby!Commands)
      <3>1. /\ reqs \in Seq(Baby!Commands)
            /\ reqs' = reqs \/ \E c \in {"wait", "future", "del"} : reqs' = Append(reqs, <<c, o>>)
        BY <1>3 DEF Baby!Wait, Baby!GetFuture, Baby!Free, Baby!TypeOK
      <3> QED
        BY <2>1, <3>1, PipeTypes
    <2>3. CASE Baby!Wait(o)
      BY <2>2, <2>3 DEF Baby!Wait, Baby!TypeOK, Baby!parentVars, Baby!workerVars, Baby!futureVars
    <2>4. CASE Baby!GetFuture(o)
      BY <2>2, <2>4 DEF Baby!GetFuture, Baby!TypeOK, Baby!parentVars, Baby!workerVars, Baby!waitVars
    <2>5. CASE Baby!Free(o)
      BY <2>2, <2>5 DEF Baby!Free, Baby!TypeOK, Baby!workerVars, Baby!waitVars, Baby!futureVars
    <2> QED
      BY <1>3, <2>3, <2>4, <2>5
  <1>4. ASSUME Baby!WaitReturns \/ Baby!WaitTimesOut PROVE Baby!TypeOK'
    <2>1. answers' \in Seq(Answer)
      <3>1. /\ answers \in Seq(Answer)
            /\ answers' = answers \/ (answers # <<>> /\ answers' = Tail(answers))
        BY <1>4 DEF Baby!WaitReturns, Baby!WaitTimesOut, Baby!TypeOK, Baby!pipeVars
      <3> QED
        BY <3>1, PipeTypes
    <2>2. answers # <<>> => Head(answers)[2] \in Baby!Ops \cup {Baby!None}
      <3>1. answers \in Seq(Answer)
        BY DEF Baby!TypeOK
      <3>2. answers # <<>> => Head(answers) \in Answer
        BY <3>1, PipeTypes
      <3> QED
        BY <3>2
    <2>3. answerOf' \in [Baby!Ops -> Baby!Ops \cup {Baby!None}]
      BY <1>4, <2>2 DEF Baby!WaitReturns, Baby!WaitTimesOut, Baby!TypeOK
    <2> QED
      BY <1>4, <2>1, <2>3 DEF Baby!WaitReturns, Baby!WaitTimesOut, Baby!TypeOK, Baby!parentVars,
           Baby!workerVars, Baby!futureVars, Baby!pipeVars, Baby!None
  <1>14. ASSUME Baby!ConfigureReturns \/ Baby!ConfigureRaises PROVE Baby!TypeOK'
    BY <1>14 DEF Baby!ConfigureReturns, Baby!ConfigureRaises, Baby!TypeOK, Baby!pipeVars,
         Baby!workerVars, Baby!waitVars, Baby!futureVars
  <1>5. Append(answers, <<"exception", Baby!None>>) \in Seq(Answer)
        /\ \A o \in Baby!Ops \cup {Baby!None} : Append(answers, <<"answer", o>>) \in Seq(Answer)
    <2>1. answers \in Seq(Answer)
      BY DEF Baby!TypeOK
    <2> QED
      BY <2>1, PipeTypes
  <1>6. /\ reqs # <<>> => Tail(reqs) \in Seq(Baby!Commands)
        /\ <<>> \in Seq(Baby!Commands) /\ reqs \in Seq(Baby!Commands)
    <2>1. \A S : <<>> \in Seq(S)
      OBVIOUS
    <2>2. reqs \in Seq(Baby!Commands)
      BY DEF Baby!TypeOK
    <2> QED
      BY <2>1, <2>2, PipeTypes, Zenon
  <1>7. ASSUME NEW o \in Baby!Ops, Baby!DoFunc(o) \/ Baby!DoFuncRaises(o) \/ Baby!DoWait(o) \/ Baby!DoDel(o)
        PROVE  Baby!TypeOK'
    <2>0. reqs' \in Seq(Baby!Commands)
      <3>1. reqs # <<>> /\ (reqs' = Tail(reqs) \/ reqs' = <<>>)
        BY <1>7 DEF Baby!DoFunc, Baby!DoFuncRaises, Baby!DoWait, Baby!DoDel, Baby!Takes, Baby!Reads,
           Baby!Die
      <3> QED
        BY <1>6, <3>1, Zenon
    <2>1. /\ opId' \in Baby!Ops \cup {Baby!None} /\ watched' \subseteq Baby!Ops
          /\ UNCHANGED <<Baby!parentVars, Baby!waitVars, Baby!futureVars, futPipe>>
      BY <1>7 DEF Baby!DoFunc, Baby!DoFuncRaises, Baby!DoWait, Baby!DoDel, Baby!Takes,
         Baby!Reads, Baby!Die, Baby!TypeOK
    <2>2. answers' \in Seq(Answer)
      BY <1>5, <1>7 DEF Baby!DoFunc, Baby!DoFuncRaises, Baby!DoWait, Baby!DoDel, Baby!Takes, Baby!Die, Baby!TypeOK
    <2>3. /\ worker' \in {"none", "starting", "ready", "waiting", "dead"}
          /\ work' \subseteq Baby!Ops
          /\ bOp' \in [Baby!Ops -> {"none", "sent", "running", "done", "failed", "killed"}]
      BY <1>7 DEF Baby!DoFunc, Baby!DoFuncRaises, Baby!DoWait, Baby!DoDel, Baby!Takes, Baby!Die, Baby!TypeOK
    <2> QED
      BY <2>0, <2>1, <2>2, <2>3 DEF Baby!TypeOK, Baby!parentVars, Baby!waitVars, Baby!futureVars
  <1>8. ASSUME NEW o \in Baby!Ops, Baby!DoFuture(o)
        PROVE  Baby!TypeOK'
    <2>0. reqs' \in Seq(Baby!Commands)
      <3>1. reqs # <<>> /\ (reqs' = Tail(reqs) \/ reqs' = <<>>)
        BY <1>8 DEF Baby!DoFuture, Baby!Takes, Baby!Reads, Baby!Die
      <3> QED
        BY <1>6, <3>1, Zenon
    <2>1. /\ opId' \in Baby!Ops \cup {Baby!None} /\ work' \subseteq Baby!Ops
          /\ UNCHANGED <<Baby!parentVars, Baby!waitVars, Baby!futureVars, bOp>>
      BY <1>8 DEF Baby!DoFuture, Baby!Takes, Baby!Reads, Baby!Die, Baby!TypeOK
    <2>2. answers' \in Seq(Answer)
      BY <1>5, <1>8 DEF Baby!DoFuture, Baby!Takes, Baby!Die, Baby!TypeOK
    <2>3. <<o, Baby!Result(o), o>> \in Baby!Ops \X {"value", "error"} \X Baby!Ops
      BY DEF Baby!Result
    <2>4. futPipe' \in Seq(Baby!Ops \X {"value", "error"} \X Baby!Ops)
      <3>1. /\ futPipe \in Seq(Baby!Ops \X {"value", "error"} \X Baby!Ops)
            /\ futPipe' = futPipe \/ futPipe' = Append(futPipe, <<o, Baby!Result(o), o>>)
        BY <1>8 DEF Baby!DoFuture, Baby!TypeOK
      <3> DEFINE S == Baby!Ops \X {"value", "error"} \X Baby!Ops
                 x == <<o, Baby!Result(o), o>>
      <3>2. futPipe \in Seq(S) /\ x \in S
        BY <2>3, <3>1
      <3>3. futPipe' = futPipe \/ futPipe' = Append(futPipe, x)
        BY <3>1
      <3> HIDE DEF S, x
      <3>4. futPipe' \in Seq(S)
        BY <3>2, <3>3, PipeTypes
      <3> QED
        BY <3>4 DEF S
    <2>5. /\ worker' \in {"none", "starting", "ready", "waiting", "dead"}
          /\ watched' \subseteq Baby!Ops
      BY <1>8 DEF Baby!DoFuture, Baby!Takes, Baby!Die, Baby!TypeOK
    <2> QED
      BY <2>0, <2>1, <2>2, <2>4, <2>5 DEF Baby!TypeOK, Baby!parentVars, Baby!waitVars, Baby!futureVars
  <1>9. ASSUME Baby!WorkerStarts \/ Baby!WorkerFailsToStart \/ Baby!WaitedOpEnds \/ Baby!WorkerCrashes
               \/ Baby!HandlerSeesEnd
        PROVE  Baby!TypeOK'
    <2>1. answers' \in Seq(Answer)
      BY <1>5, <1>9 DEF Baby!WorkerStarts, Baby!WorkerFailsToStart, Baby!WaitedOpEnds, Baby!WorkerCrashes,
           Baby!HandlerSeesEnd, Baby!Die, Baby!TypeOK, Baby!pipeVars
    <2>0. /\ UNCHANGED <<futPipe, bOp, Baby!parentVars, Baby!waitVars, registered, future, futureOf>>
          /\ \/ UNCHANGED <<reqs, opId, work, watched>>
             \/ reqs' = <<>> /\ opId' = Baby!None /\ work' = {} /\ watched' = {}
      BY <1>9 DEF Baby!WorkerStarts, Baby!WorkerFailsToStart, Baby!WaitedOpEnds, Baby!WorkerCrashes,
           Baby!HandlerSeesEnd, Baby!Die, Baby!pipeVars, Baby!futureVars, Baby!workerVars
    <2>3. /\ worker' \in {"none", "starting", "ready", "waiting", "dead"}
          /\ handler' \in {"none", "running", "ended"}
      BY <1>9 DEF Baby!WorkerStarts, Baby!WorkerFailsToStart, Baby!WaitedOpEnds, Baby!WorkerCrashes,
           Baby!HandlerSeesEnd, Baby!Die, Baby!workerVars, Baby!futureVars, Baby!TypeOK
    <2>2. /\ reqs' \in Seq(Baby!Commands) /\ opId' \in Baby!Ops \cup {Baby!None}
          /\ work' \subseteq Baby!Ops /\ watched' \subseteq Baby!Ops
      BY <1>6, <2>0, Zenon DEF Baby!TypeOK
    <2> QED
      BY <2>0, <2>1, <2>2, <2>3 DEF Baby!TypeOK, Baby!parentVars, Baby!waitVars
  <1>10. ASSUME NEW o \in Baby!Ops, Baby!OpEnds(o) PROVE Baby!TypeOK'
    <2>1. PICK r \in {"value", "error"} :
             futPipe' = futPipe \/ (o \in watched /\ futPipe' = Append(futPipe, <<opId, r, o>>))
      BY <1>10 DEF Baby!OpEnds
    <2>2. o \in watched => <<opId, r, o>> \in Baby!Ops \X {"value", "error"} \X Baby!Ops
      BY DEF WatchedHasId
    <2>3. futPipe' \in Seq(Baby!Ops \X {"value", "error"} \X Baby!Ops)
      <3>1. futPipe \in Seq(Baby!Ops \X {"value", "error"} \X Baby!Ops)
        BY DEF Baby!TypeOK
      <3>2. CASE futPipe' = futPipe
        BY <3>1, <3>2
      <3>3. CASE o \in watched /\ futPipe' = Append(futPipe, <<opId, r, o>>)
        <4> DEFINE S == Baby!Ops \X {"value", "error"} \X Baby!Ops
        <4>1. futPipe \in Seq(S) /\ <<opId, r, o>> \in S
          BY <2>2, <3>1, <3>3
        <4> HIDE DEF S
        <4>2. Append(futPipe, <<opId, r, o>>) \in Seq(S)
          BY <4>1, PipeTypes
        <4> QED
          BY <3>3, <4>2 DEF S
      <3> QED
        BY <2>1, <3>2, <3>3
    <2> QED
      BY <1>10, <2>3 DEF Baby!OpEnds, Baby!TypeOK, Baby!parentVars, Baby!waitVars, Baby!futureVars
  <1>11. ASSUME Baby!HandleFuture PROVE Baby!TypeOK'
    <2>1. /\ futPipe' \in Seq(Baby!Ops \X {"value", "error"} \X Baby!Ops)
          /\ Head(futPipe) \in Baby!Ops \X {"value", "error"} \X Baby!Ops
      <3>1. futPipe \in Seq(Baby!Ops \X {"value", "error"} \X Baby!Ops) /\ futPipe # <<>> /\ futPipe' = Tail(futPipe)
        BY <1>11 DEF Baby!HandleFuture, Baby!TypeOK
      <3> QED
        BY <3>1, PipeTypes
    <2>2. Head(futPipe)[2] \in {"value", "error"} /\ Head(futPipe)[3] \in Baby!Ops
      BY <2>1
    <2>3. /\ handler' \in {"none", "running", "ended"} /\ registered' \subseteq Baby!Ops
          /\ UNCHANGED <<reqs, answers, Baby!workerVars, bOp, Baby!parentVars, Baby!waitVars>>
      BY <1>11 DEF Baby!HandleFuture, Baby!TypeOK
    <2>4. /\ future' \in [Baby!Ops -> {"none", "pending", "value", "error"}]
          /\ futureOf' \in [Baby!Ops -> Baby!Ops \cup {Baby!None}]
      BY <1>11, <2>2 DEF Baby!HandleFuture, Baby!TypeOK
    <2> QED
      BY <2>1, <2>3, <2>4 DEF Baby!TypeOK, Baby!parentVars, Baby!waitVars, Baby!workerVars
  <1>12. WatchedHasId'
    BY DEF WatchedHasId, Baby!Next, Baby!WorkerNext, Baby!HandlerNext, Baby!Configure, Baby!ShutdownRaises,
         Baby!ConfigureReturns, Baby!ConfigureRaises, Baby!RunFunc, Baby!Wait,
         Baby!GetFuture, Baby!Free, Baby!WaitReturns, Baby!WaitTimesOut, Baby!WorkerStarts,
         Baby!WorkerFailsToStart, Baby!Takes, Baby!Reads, Baby!DoFunc, Baby!DoFuncRaises, Baby!DoWait, Baby!DoDel,
         Baby!DoFuture, Baby!WaitedOpEnds, Baby!OpEnds, Baby!WorkerCrashes, Baby!HandleFuture,
         Baby!HandlerSeesEnd, Baby!workerVars, Baby!pipeVars, Baby!Die
  <1>13. Baby!TypeOK'
    BY <1>1, <1>2, <1>3, <1>4, <1>7, <1>8, <1>9, <1>10, <1>11, <1>14
       DEF Baby!Next, Baby!WorkerNext, Baby!HandlerNext
  <1> QED
    BY <1>12, <1>13

\* What the types say, and the parts of the invariant.
LEMMA BabyFacts ==
  ASSUME BabyInv
  PROVE  /\ Baby!TypeOK /\ bGen \in Nat /\ nextOp \in Nat
         /\ MaxOps \in Nat /\ Baby!Ops \subseteq Nat /\ Baby!None \notin Baby!Ops
         /\ bOpGen \in [Baby!Ops -> Nat] /\ works \subseteq Baby!Ops /\ work \subseteq Baby!Ops
         /\ reqs \in Seq(Baby!Commands) /\ Len(reqs) \in Nat
         /\ \A i \in 1 .. Len(reqs) : /\ reqs[i] \in Baby!Commands /\ reqs[i][2] \in Baby!Ops
                                      /\ reqs[i] = <<reqs[i][1], reqs[i][2]>>
         /\ RequestsFit /\ WorksFit /\ OpsFit /\ WaitsFit /\ AnswersFit /\ FuturesFit
         /\ Baby!WaitMeansDone /\ Baby!FutureMeansDone
  <1>1. /\ Baby!TypeOK /\ RequestsFit /\ WorksFit /\ OpsFit /\ WaitsFit /\ AnswersFit /\ FuturesFit
        /\ Baby!WaitMeansDone /\ Baby!FutureMeansDone
    BY DEF BabyInv
  <1>2. MaxOps \in Nat /\ MaxConfigs \in Nat
    BY WorksAssumption
  <1>3. /\ bGen \in Nat /\ nextOp \in Nat /\ Baby!Ops \subseteq Nat /\ Baby!None \notin Baby!Ops
        /\ works \subseteq Baby!Ops /\ work \subseteq Baby!Ops
    BY <1>1, <1>2 DEF Baby!TypeOK, Baby!Ops, Baby!None
  <1>4. bOpGen \in [Baby!Ops -> Nat]
    <2>1. bOpGen \in [Baby!Ops -> 0 .. MaxConfigs] /\ 0 .. MaxConfigs \subseteq Nat
      BY <1>1, <1>2 DEF Baby!TypeOK
    <2> QED
      BY <2>1
  <1>5. reqs \in Seq(Baby!Commands) /\ Len(reqs) \in Nat /\ \A i \in 1 .. Len(reqs) : reqs[i] \in Baby!Commands
    <2>1. reqs \in Seq(Baby!Commands)
      BY <1>1 DEF Baby!TypeOK
    <2> QED
      BY <2>1
  <1>6. \A r \in Baby!Commands : r[2] \in Baby!Ops /\ r = <<r[1], r[2]>>
    BY DEF Baby!Commands
  <1> QED
    BY <1>1, <1>2, <1>3, <1>4, <1>5, <1>6

\* A command is sent: it is the last, and what came before comes before.
LEMMA BabySends ==
  ASSUME BabyInv, NEW cmd \in {"func", "wait", "del", "future"}, NEW op1 \in Baby!Ops,
         reqs' = Append(reqs, <<cmd, op1>>)
  PROVE  /\ Len(reqs') = Len(reqs) + 1
         /\ \A i \in 1 .. Len(reqs') : i \in 1 .. Len(reqs) \/ i = Len(reqs) + 1
         /\ \A i \in 1 .. Len(reqs) : reqs'[i] = reqs[i]
         /\ reqs'[Len(reqs) + 1] = <<cmd, op1>>
         /\ \A c, o : \A i \in 1 .. Len(reqs) : Earlier(reqs', c, o, i) <=> Earlier(reqs, c, o, i)
         /\ \A c, o : Earlier(reqs', c, o, Len(reqs) + 1) <=> InPipe(c, o)
         /\ \A c, o : InPipe(c, o)' <=> InPipe(c, o) \/ (c = cmd /\ o = op1)
  <1>1. reqs \in Seq(Baby!Commands) /\ Len(reqs) \in Nat /\ <<cmd, op1>> \in Baby!Commands
    BY BabyFacts DEF Baby!Commands
  <1> DEFINE x == <<cmd, op1>>
  <1>2. /\ Len(Append(reqs, x)) = Len(reqs) + 1
        /\ \A i \in 1 .. Len(reqs) : Append(reqs, x)[i] = reqs[i]
        /\ Append(reqs, x)[Len(reqs) + 1] = x
        /\ \A c, o : \A i \in 1 .. Len(reqs) + 1 :
               Earlier(Append(reqs, x), c, o, i) <=> Earlier(reqs, c, o, i)
        /\ \A c, o : Earlier(Append(reqs, x), c, o, Len(reqs) + 2)
                          <=> (Earlier(reqs, c, o, Len(reqs) + 1) \/ x = <<c, o>>)
    BY <1>1, EarlierAppend
  <1>3. \A c, o : x = <<c, o>> <=> c = cmd /\ o = op1
    OBVIOUS
  <1>4. /\ (Len(reqs) + 1) + 1 = Len(reqs) + 2 /\ Len(reqs) + 1 \in 1 .. Len(reqs) + 1
        /\ \A i \in 1 .. Len(reqs) + 1 : i \in 1 .. Len(reqs) \/ i = Len(reqs) + 1
        /\ \A i \in 1 .. Len(reqs) : i \in 1 .. Len(reqs) + 1
    BY <1>1
  <1> HIDE DEF x
  <1>5. reqs' = Append(reqs, x)
    BY DEF x
  <1>6. \A c, o : InPipe(c, o)' <=> InPipe(c, o) \/ (c = cmd /\ o = op1)
    <2>1. \A c, o : InPipe(c, o)' <=> Earlier(reqs', c, o, Len(reqs) + 2)
      BY <1>2, <1>4, <1>5 DEF InPipe
    <2> QED
      BY <1>2, <1>3, <1>5, <2>1 DEF InPipe
  <1>7. /\ \A c, o : \A i \in 1 .. Len(reqs) : Earlier(reqs', c, o, i) <=> Earlier(reqs, c, o, i)
        /\ \A c, o : Earlier(reqs', c, o, Len(reqs) + 1) <=> InPipe(c, o)
    BY <1>2, <1>4, <1>5 DEF InPipe
  <1> QED
    BY <1>2, <1>4, <1>5, <1>6, <1>7 DEF x

\* A command is taken: it was the first, and the others move up.
LEMMA BabyTakes ==
  ASSUME BabyInv, NEW cmd \in {"func", "wait", "del", "future"}, NEW op1 \in Baby!Ops,
         Baby!Takes(cmd, op1), Baby!Reads(op1)
  PROVE  /\ Len(reqs) = Len(reqs') + 1 /\ Len(reqs') \in Nat
         /\ 1 \in 1 .. Len(reqs) /\ reqs[1] = <<cmd, op1>>
         /\ \A i \in 1 .. Len(reqs') : i + 1 \in 1 .. Len(reqs) /\ reqs'[i] = reqs[i + 1]
         /\ \A c, o : ~Earlier(reqs, c, o, 1)
         /\ \A c, o : \A i \in 1 .. Len(reqs') :
               Earlier(reqs, c, o, i + 1) <=> (c = cmd /\ o = op1) \/ Earlier(reqs', c, o, i)
         /\ \A c, o : InPipe(c, o) <=> (c = cmd /\ o = op1) \/ InPipe(c, o)'
  <1>1. /\ reqs \in Seq(Baby!Commands) /\ reqs # <<>> /\ reqs' = Tail(reqs) /\ Head(reqs) = <<cmd, op1>>
        /\ reqs' \in Seq(Baby!Commands)
    BY BabyFacts, PipeTypes DEF Baby!Takes, Baby!Reads
  <1> DEFINE r == Tail(reqs)
             x == Head(reqs)
  <1>2. /\ Len(reqs) = Len(r) + 1 /\ Len(r) \in Nat /\ reqs[1] = x
        /\ \A i \in 1 .. Len(r) : r[i] = reqs[i + 1]
        /\ \A c, o : ~Earlier(reqs, c, o, 1)
        /\ \A c, o : \A i \in 1 .. Len(r) + 1 :
              Earlier(reqs, c, o, i + 1) <=> x = <<c, o>> \/ Earlier(r, c, o, i)
    BY <1>1, EarlierTail
  <1> HIDE DEF r, x
  <1>3. reqs' = r /\ x = <<cmd, op1>>
    BY <1>1 DEF r, x
  <1>4. \A c, o : x = <<c, o>> <=> c = cmd /\ o = op1
    BY <1>3
  <1>5. /\ \A i \in 1 .. Len(r) : i + 1 \in 1 .. Len(reqs) /\ i \in 1 .. Len(r) + 1
        /\ 1 \in 1 .. Len(reqs) /\ Len(r) + 1 \in 1 .. Len(r) + 1
    BY <1>2
  <1>6. \A c, o : InPipe(c, o) <=> (c = cmd /\ o = op1) \/ InPipe(c, o)'
    <2>1. \A c, o : InPipe(c, o)' <=> Earlier(r, c, o, Len(r) + 1)
      BY <1>3 DEF InPipe
    <2>2. \A c, o : InPipe(c, o) <=> Earlier(reqs, c, o, (Len(r) + 1) + 1)
      BY <1>2 DEF InPipe
    <2> QED
      BY <1>2, <1>4, <1>5, <2>1, <2>2
  <1> QED
    BY <1>2, <1>3, <1>4, <1>5, <1>6

-----------------------------------------------------------------------------
\* configure(), or a shutdown() that raises: nothing of the old subprocess is left.
LEMMA BabyConfigure ==
  ASSUME FreesFirst, BabyInv, Baby!TypeOK', Baby!Configure \/ Baby!ShutdownRaises PROVE BabyInv'
  <1>0. /\ Baby!TypeOK /\ OpsFit /\ WaitsFit /\ Baby!FutureMeansDone /\ Baby!WaitMeansDone
        /\ bGen \in Nat /\ nextOp \in Nat
        /\ Baby!Ops \subseteq Nat /\ \A o \in Baby!Ops : bOpGen[o] \in Nat
    BY BabyFacts
  <1>1. /\ works = {} /\ works' = {} /\ nextOp' = nextOp /\ bOpGen' = bOpGen
        /\ reqs' = <<>> /\ answers' = <<>> /\ futPipe' = <<>> /\ Len(reqs') = 0 /\ Len(answers') = 0
        /\ Len(futPipe') = 0
        /\ worker' \in {"starting", "dead"} /\ opId' = Baby!None /\ work' = {} /\ watched' = {}
        /\ waiting = Baby!None /\ waiting' = Baby!None
        /\ UNCHANGED <<backend, timedOps, waited, answerOf, future, futureOf>>
        /\ bOp' = [o \in Baby!Ops |-> IF bOp[o] \in {"sent", "running"} THEN "killed" ELSE bOp[o]]
    BY FreesFirst DEF Baby!Configure, Baby!ShutdownRaises, Baby!Killed, Baby!waitVars, Baby!futureVars
  <1>2. \/ worker' = "starting" /\ \A o \in Baby!Ops : bOpGen'[o] # bGen'
        \/ worker' = "dead" /\ bGen' = bGen /\ lateWait' = lateWait
    BY <1>0 DEF OpsFit, Baby!Configure, Baby!ShutdownRaises, Baby!waitVars
  <1>3. RequestsFit' /\ WorksFit' /\ FuturesFit' /\ AnswersFit'
    BY <1>1 DEF RequestsFit, WorksFit, FuturesFit, AnswersFit
  <1>4. OpsFit'
    <2>1. bGen' = bGen \/ bGen' = bGen + 1
      BY DEF Baby!Configure, Baby!ShutdownRaises
    <2> QED
      BY <1>0, <1>1, <2>1 DEF OpsFit
  <1>5. WaitsFit' /\ Baby!WaitMeansDone'
    <2>1. \A o \in Baby!Ops : waiting' # o
      BY <1>1 DEF Baby!Ops, Baby!None
    <2>2. \A o \in Baby!Ops : bOp[o] = "done" => bOp'[o] = "done"
      BY <1>1
    <2> QED
      BY <1>0, <1>1, <1>2, <2>1, <2>2 DEF WaitsFit, Baby!WaitMeansDone, Baby!OnlyStreamWaits
  <1>6. Baby!FutureMeansDone'
    BY <1>0, <1>1 DEF Baby!FutureMeansDone
  <1> QED
    BY <1>3, <1>4, <1>5, <1>6 DEF BabyInv

\* configure() returns or raises: the parent's part of it only.
LEMMA BabyConfigureEnds ==
  ASSUME BabyInv, Baby!TypeOK', Baby!ConfigureReturns \/ Baby!ConfigureRaises PROVE BabyInv'
  <1>1. UNCHANGED <<reqs, answers, futPipe, worker, opId, work, watched, bOp, backend, bGen, nextOp,
                    works, bOpGen, waiting, timedOps, waited, answerOf, lateWait, future, futureOf>>
    BY DEF Baby!ConfigureReturns, Baby!ConfigureRaises, Baby!pipeVars, Baby!workerVars, Baby!waitVars,
         Baby!futureVars
  <1> QED
    BY <1>1, BabyFacts DEF BabyInv, RequestsFit, RequestFits, WorksFit, OpsFit, WaitsFit,
       AnswersFit, FuturesFit, WaitTaken, InPipe, Baby!WaitMeansDone, Baby!OnlyStreamWaits,
       Baby!FutureMeansDone

\* _run_func: an operation of its own id.
LEMMA BabyRunFunc ==
  ASSUME BabyInv, Baby!TypeOK', Baby!RunFunc PROVE BabyInv'
  <1>0. nextOp \in Baby!Ops /\ nextOp \in Nat /\ RequestsFit /\ WorksFit /\ OpsFit /\ WaitsFit /\ AnswersFit
        /\ FuturesFit /\ Baby!WaitMeansDone /\ Baby!FutureMeansDone
    BY BabyFacts DEF Baby!RunFunc, Baby!Ops, Baby!TypeOK
  <1>1. /\ reqs' = Append(reqs, <<"func", nextOp>>) /\ nextOp' = nextOp + 1
        /\ works' = works \cup {nextOp}
        /\ bOp' = [bOp EXCEPT ![nextOp] = "sent"] /\ bOpGen' = [bOpGen EXCEPT ![nextOp] = bGen]
        /\ UNCHANGED <<backend, bGen, answers, futPipe, worker, opId, work, watched, waiting, timedOps,
                       waited, answerOf, lateWait, future, futureOf>>
        /\ waiting = Baby!None /\ worker # "dead"
    BY DEF Baby!RunFunc, Baby!CanSend, Baby!workerVars, Baby!waitVars, Baby!futureVars
  <1>2. /\ \A i \in 1 .. Len(reqs') : i \in 1 .. Len(reqs) \/ i = Len(reqs) + 1
        /\ \A i \in 1 .. Len(reqs) : reqs'[i] = reqs[i]
        /\ reqs'[Len(reqs) + 1] = <<"func", nextOp>>
        /\ \A c, o : \A i \in 1 .. Len(reqs) : Earlier(reqs', c, o, i) <=> Earlier(reqs, c, o, i)
        /\ \A c, o : Earlier(reqs', c, o, Len(reqs) + 1) <=> InPipe(c, o)
        /\ \A c, o : InPipe(c, o)' <=> InPipe(c, o) \/ (c = "func" /\ o = nextOp)
    BY <1>0, <1>1, BabySends
  <1>3. \A i \in 1 .. Len(reqs) : /\ reqs[i][2] \in Baby!Ops /\ reqs[i][2] < nextOp /\ reqs[i][2] # nextOp
                                 /\ reqs[i][2] < nextOp'
                                 /\ reqs[i] = <<reqs[i][1], reqs[i][2]>>
    <2>1. \A i \in 1 .. Len(reqs) : reqs[i][2] < nextOp
      BY <1>0 DEF RequestsFit, RequestFits
    <2>2. ASSUME NEW o \in Baby!Ops, o < nextOp PROVE o # nextOp /\ o < nextOp'
      <3>1. o \in Nat /\ nextOp' = nextOp + 1
        BY <1>1, BabyFacts
      <3> QED
        BY <1>0, <2>2, <3>1
    <2>3. \A i \in 1 .. Len(reqs) : reqs[i][2] \in Baby!Ops /\ reqs[i] = <<reqs[i][1], reqs[i][2]>>
      BY BabyFacts
    <2> QED
      BY <2>1, <2>2, <2>3
  <1>14. \A o \in Baby!Ops : o < nextOp => o # nextOp /\ o < nextOp + 1
    <2>1. ASSUME NEW o \in Baby!Ops, o < nextOp PROVE o # nextOp /\ o < nextOp + 1
      <3>1. o \in Nat
        BY BabyFacts
      <3> QED
        BY <1>0, <2>1, <3>1
    <2> QED
      BY <2>1
  <1>12. \A c : ~InPipe(c, nextOp)
    <2>1. \A c : \A i \in 1 .. Len(reqs) : reqs[i] # <<c, nextOp>>
      BY <1>3
    <2>2. 1 .. (Len(reqs) + 1) - 1 = 1 .. Len(reqs)
      BY BabyFacts
    <2> QED
      BY <2>1, <2>2 DEF InPipe, Earlier
  <1>4. /\ \A o \in Baby!Ops : o # nextOp => bOp'[o] = bOp[o] /\ bOpGen'[o] = bOpGen[o]
        /\ bOp'[nextOp] = "sent" /\ bOpGen'[nextOp] = bGen /\ bOp[nextOp] = "none"
        /\ waited[nextOp] = "no" /\ nextOp \notin work
    <2>1. nextOp >= nextOp /\ ~(nextOp < nextOp)
      BY <1>0
    <2>2. bOp[nextOp] = "none" /\ waited[nextOp] = "no" /\ nextOp \notin work
      BY <1>0, <2>1 DEF OpsFit
    <2> QED
      BY <1>0, <1>1, <2>2, BabyFacts DEF Baby!TypeOK
  <1>5. \A o \in Baby!Ops : WaitTaken(o) => WaitTaken(o)'
    BY <1>1, <1>4 DEF WaitTaken
  <1>6. RequestsFit'
    <2>1. ASSUME NEW i \in 1 .. Len(reqs) PROVE RequestFits(i)'
      <3>1. RequestFits(i)
        BY <1>0 DEF RequestsFit
      <3>4. /\ reqs'[i] = reqs[i]
            /\ \A c : Earlier(reqs', c, reqs[i][2], i) <=> Earlier(reqs, c, reqs[i][2], i)
        BY <1>2
      <3>5. bOp'[reqs[i][2]] = bOp[reqs[i][2]]
        BY <1>3, <1>4
      <3>6. reqs[i][2] < nextOp' /\ opId' = opId
        BY <1>1, <1>3
      <3>2. /\ reqs'[i] = reqs[i] /\ bOp'[reqs[i][2]] = bOp[reqs[i][2]]
            /\ reqs[i][2] < nextOp' /\ opId' = opId
            /\ \A c : Earlier(reqs', c, reqs[i][2], i) <=> Earlier(reqs, c, reqs[i][2], i)
        BY <3>4, <3>5, <3>6
      <3>3. reqs'[i] = reqs[i] /\ worker' = worker /\ work' = work /\ backend' = backend
        BY <1>1, <3>2
      <3> QED
        BY <3>1, <3>2, <3>3 DEF RequestFits, WaitTaken
    <2>2. ASSUME NEW i, i = Len(reqs) + 1 PROVE RequestFits(i)'
      <3>1. nextOp < nextOp + 1
        BY <1>0
      <3>2. /\ reqs'[Len(reqs) + 1][1] = "func" /\ reqs'[Len(reqs) + 1][2] = nextOp
            /\ ~Earlier(reqs', "func", nextOp, Len(reqs) + 1)
            /\ bOp'[nextOp] = "sent" /\ nextOp' = nextOp + 1
        <4>1. reqs'[Len(reqs) + 1] = <<"func", nextOp>>
          BY <1>2
        <4>2. ~Earlier(reqs', "func", nextOp, Len(reqs) + 1)
          BY <1>2, <1>12
        <4>3. bOp'[nextOp] = "sent" /\ nextOp' = nextOp + 1
          BY <1>1, <1>4
        <4> QED
          BY <4>1, <4>2, <4>3
      <3> QED
        BY <2>2, <3>1, <3>2 DEF RequestFits
    <2> QED
      BY <1>2, <2>1, <2>2 DEF RequestsFit
  <1>7. WorksFit'
    <2>1. \A o \in works : o < nextOp + 1 /\ o # nextOp /\ o \in Baby!Ops
      <3>1. works \subseteq Baby!Ops
        BY BabyFacts
      <3> QED
        BY <1>0, <1>14, <3>1 DEF WorksFit
    <2>2. nextOp < nextOp + 1
      BY <1>0
    <2>3. ASSUME NEW o \in works
          PROVE  /\ o < nextOp' /\ bOpGen'[o] = bGen'
                 /\ worker' # "dead" => (o \in work' \/ InPipe("func", o)') /\ ~InPipe("del", o)'
      <3>1. bOpGen[o] = bGen /\ (worker # "dead" => (o \in work \/ InPipe("func", o)) /\ ~InPipe("del", o))
        BY <1>0 DEF WorksFit
      <3>2. bOpGen'[o] = bGen' /\ o < nextOp'
        BY <1>1, <1>4, <2>1, <3>1
      <3>3. /\ InPipe("func", o) => InPipe("func", o)'
            /\ ~InPipe("del", o) => ~InPipe("del", o)'
        BY <1>2
      <3> QED
        BY <1>1, <3>1, <3>2, <3>3
    <2>4. ASSUME NEW o, o = nextOp
          PROVE  /\ o < nextOp' /\ bOpGen'[o] = bGen'
                 /\ worker' # "dead" => (o \in work' \/ InPipe("func", o)') /\ ~InPipe("del", o)'
      <3>1. o < nextOp' /\ bOpGen'[o] = bGen'
        BY <1>1, <1>4, <2>2, <2>4
      <3>2. InPipe("func", o)' /\ ~InPipe("del", o)'
        BY <1>2, <1>12, <2>4
      <3> QED
        BY <3>1, <3>2
    <2>5. \A o \in works' : o \in works \/ o = nextOp
      BY <1>1
    <2> QED
      BY <2>3, <2>4, <2>5 DEF WorksFit
  <1>8. OpsFit'
    <2>1. ASSUME NEW o \in Baby!Ops, o >= nextOp + 1 PROVE o >= nextOp /\ o # nextOp
      <3>1. o \in Nat
        BY BabyFacts
      <3> QED
        BY <1>0, <2>1, <3>1
    <2>2. \A o \in work : o < nextOp + 1 /\ o \in Baby!Ops /\ o # nextOp
      <3>1. work \subseteq Baby!Ops
        BY BabyFacts
      <3> QED
        BY <1>0, <1>14, <3>1 DEF OpsFit
    <2>3. bGen <= bGen
      BY BabyFacts
    <2> QED
      BY <1>0, <1>1, <1>4, <2>1, <2>2, <2>3 DEF OpsFit
  <1>9. WaitsFit'
    <2>1. \A o \in Baby!Ops : waiting # o
      BY <1>1 DEF Baby!Ops, Baby!None
    <2>2. waited[nextOp] = "no"
      BY <1>4
    <2> QED
      BY <1>0, <1>1, <1>2, <1>4, <1>5, <2>1 DEF WaitsFit
  <1>10. AnswersFit'
    <2>1. ~lateWait => \A i \in 1 .. Len(reqs) : reqs[i][1] # "wait"
      <3>1. ~lateWait => \A i \in 1 .. Len(reqs) : reqs[i][1] = "wait" => reqs[i][2] = Baby!None
        BY <1>0, <1>1 DEF AnswersFit, Baby!OnlyStreamWaits
      <3> QED
        BY <3>1, BabyFacts
    <2>2. ~lateWait => \A i \in 1 .. Len(reqs') : reqs'[i][1] # "wait"
      BY <1>2, <2>1
    <2>3. ~lateWait => \A i \in 1 .. Len(answers) : answers[i][1] # "answer"
      BY <1>0, <1>1 DEF AnswersFit, Baby!OnlyStreamWaits
    <2> QED
      BY <1>0, <1>1, <2>2, <2>3 DEF AnswersFit, Baby!OnlyStreamWaits
  <1>11. FuturesFit'
    <2>1. ASSUME NEW i \in 1 .. Len(futPipe), bOp[futPipe[i][1]] = "done"
          PROVE  bOp'[futPipe[i][1]] = "done"
      <3>1. futPipe \in Seq(Baby!Ops \X {"value", "error"} \X Baby!Ops)
        BY BabyFacts DEF Baby!TypeOK
      <3>2. futPipe[i][1] \in Baby!Ops
        BY <3>1
      <3> QED
        BY <2>1, <3>2, <1>4
    <2> QED
      BY <1>0, <1>1, <2>1 DEF FuturesFit
  <1>13. Baby!WaitMeansDone' /\ Baby!FutureMeansDone'
    <2>1. \A o \in Baby!Ops : bOp[o] \in {"done", "failed"} => bOp'[o] = bOp[o]
      BY <1>4
    <2>2. backend = "gloo" => future[nextOp] \notin {"value", "error"}
      BY <1>0, <1>4 DEF Baby!FutureMeansDone
    <2> QED
      BY <1>0, <1>1, <1>4, <2>1, <2>2 DEF Baby!WaitMeansDone, Baby!OnlyStreamWaits, Baby!FutureMeansDone
  <1> QED
    BY <1>6, <1>7, <1>8, <1>9, <1>10, <1>11, <1>13 DEF BabyInv

\* A command that is sent takes nothing from those before it.
LEMMA BabyBefore ==
  ASSUME BabyInv, NEW cmd \in {"wait", "del", "future"}, NEW op1 \in Baby!Ops,
         reqs' = Append(reqs, <<cmd, op1>>),
         UNCHANGED <<backend, nextOp, worker, opId, work, bOp>>,
         op1 < nextOp,
         worker # "dead" => (op1 \in work \/ InPipe("func", op1)) /\ ~InPipe("del", op1),
         cmd = "future" /\ worker # "dead" => WaitTaken(op1) \/ InPipe("wait", op1)
  PROVE  RequestsFit'
  <1>1. /\ \A i \in 1 .. Len(reqs') : i \in 1 .. Len(reqs) \/ i = Len(reqs) + 1
        /\ \A i \in 1 .. Len(reqs) : reqs'[i] = reqs[i]
        /\ reqs'[Len(reqs) + 1] = <<cmd, op1>>
        /\ \A c, o : \A i \in 1 .. Len(reqs) : Earlier(reqs', c, o, i) <=> Earlier(reqs, c, o, i)
        /\ \A c, o : Earlier(reqs', c, o, Len(reqs) + 1) <=> InPipe(c, o)
    BY BabySends
  <1>2. ASSUME NEW i \in 1 .. Len(reqs) PROVE RequestFits(i)'
    <2>1. RequestFits(i)
      BY BabyFacts DEF RequestsFit
    <2>2. /\ reqs'[i] = reqs[i]
          /\ \A c : Earlier(reqs', c, reqs[i][2], i) <=> Earlier(reqs, c, reqs[i][2], i)
      BY <1>1
    <2> QED
      BY <2>1, <2>2 DEF RequestFits, WaitTaken
  <1>3. ASSUME NEW i, i = Len(reqs) + 1 PROVE RequestFits(i)'
    <2>1. /\ reqs'[i][1] = cmd /\ reqs'[i][2] = op1
          /\ \A c : Earlier(reqs', c, op1, i) <=> InPipe(c, op1)
      BY <1>1, <1>3
    <2>2. cmd # "func"
      OBVIOUS
    <2> QED
      BY <2>1, <2>2 DEF RequestFits, WaitTaken
  <1> QED
    BY <1>1, <1>2, <1>3 DEF RequestsFit

\* While the parent waits for nothing and no wait was given up, no wait is under way.
LEMMA BabyNoWait ==
  ASSUME BabyInv, waiting = Baby!None, ~lateWait, worker # "dead"
  PROVE  /\ worker # "waiting" /\ answers = <<>> /\ \A i \in 1 .. Len(reqs) : reqs[i][1] # "wait"
         /\ \A o : ~InPipe("wait", o)
  <1>1. worker # "waiting"
    BY BabyFacts DEF AnswersFit, Baby!OnlyStreamWaits
  <1>2. answers = <<>>
    <2>1. answers \in Seq({"answer", "exception"} \X (Baby!Ops \cup {Baby!None}))
      BY BabyFacts DEF Baby!TypeOK
    <2>2. \A i \in 1 .. Len(answers) : answers[i][1] = "answer" /\ answers[i][1] # "answer"
      BY BabyFacts DEF AnswersFit, Baby!OnlyStreamWaits
    <2>3. Len(answers) = 0
      BY <2>1, <2>2
    <2> QED
      BY <2>1, <2>3
  <1>3. \A i \in 1 .. Len(reqs) : reqs[i][1] # "wait"
    <2>1. \A i \in 1 .. Len(reqs) : reqs[i][1] = "wait" => reqs[i][2] = waiting
      BY BabyFacts DEF AnswersFit, Baby!OnlyStreamWaits
    <2>2. \A i \in 1 .. Len(reqs) : reqs[i][2] \in Baby!Ops /\ Baby!None \notin Baby!Ops
      BY BabyFacts
    <2> QED
      BY <2>1, <2>2
  <1>4. \A o : ~InPipe("wait", o)
    <2>1. 1 .. (Len(reqs) + 1) - 1 = 1 .. Len(reqs)
      BY BabyFacts
    <2> QED
      BY <1>3, <2>1 DEF InPipe, Earlier
  <1> QED
    BY <1>1, <1>2, <1>3, <1>4

\* _wait sends its command.
LEMMA BabyWait ==
  ASSUME BabyInv, Baby!TypeOK', NEW o \in Baby!Ops, Baby!Wait(o) PROVE BabyInv'
  <1>1. /\ reqs' = Append(reqs, <<"wait", o>>) /\ waiting' = o /\ waiting = Baby!None
        /\ o \in works /\ bOpGen[o] = bGen /\ worker # "dead"
        /\ waited[o] = "no" /\ timedOps' \in {timedOps, timedOps \cup {o}}
        /\ UNCHANGED <<answers, futPipe, worker, opId, work, watched, bOp, backend, bGen, nextOp, works,
                       bOpGen, waited, answerOf, lateWait, future, futureOf>>
    BY DEF Baby!Wait, Baby!CanSend, Baby!workerVars, Baby!parentVars, Baby!futureVars
  <1>2. /\ \A i \in 1 .. Len(reqs') : i \in 1 .. Len(reqs) \/ i = Len(reqs) + 1
        /\ \A i \in 1 .. Len(reqs) : reqs'[i] = reqs[i]
        /\ reqs'[Len(reqs) + 1] = <<"wait", o>>
        /\ \A c, p : Earlier(reqs', c, p, Len(reqs) + 1) <=> InPipe(c, p)
        /\ \A c, p : InPipe(c, p)' <=> InPipe(c, p) \/ (c = "wait" /\ p = o)
    BY <1>1, BabySends
  <1>3. /\ o < nextOp /\ (o \in work \/ InPipe("func", o)) /\ ~InPipe("del", o)
        /\ WorksFit /\ OpsFit /\ WaitsFit /\ AnswersFit /\ FuturesFit
        /\ Baby!WaitMeansDone /\ Baby!FutureMeansDone
    BY <1>1, BabyFacts DEF WorksFit
  <1>4. RequestsFit'
    <2>1. "wait" \in {"wait", "del", "future"} /\ "wait" # "future"
      OBVIOUS
    <2> QED
      BY <1>1, <1>3, <2>1, BabyBefore
  <1>5. WorksFit' /\ OpsFit' /\ FuturesFit'
    BY <1>1, <1>2, <1>3 DEF WorksFit, OpsFit, FuturesFit
  <1>6. WaitsFit'
    BY <1>1, <1>2, <1>3 DEF WaitsFit, WaitTaken
  <1>7. AnswersFit'
    <2>1. ~lateWait => /\ worker # "waiting" /\ answers = <<>>
                       /\ \A i \in 1 .. Len(reqs) : reqs[i][1] # "wait"
                       /\ ~InPipe("wait", o)
      BY <1>1, BabyNoWait
    <2>2. /\ worker' # "dead" => \A i \in 1 .. Len(answers') : answers'[i][1] = "answer"
          /\ \A i \in 1 .. Len(answers') : answers'[i][1] = "exception" => i = Len(answers')
          /\ worker' = "waiting" => opId' # Baby!None
      BY <1>1, <1>3 DEF AnswersFit, Baby!OnlyStreamWaits
    <2>3. ~lateWait' => answers' = <<>> /\ worker' # "waiting" /\ Len(answers') = 0
      BY <1>1, <2>1
    <2>4. ~lateWait' => \A i \in 1 .. Len(reqs') : reqs'[i][1] = "wait" =>
             i = Len(reqs) + 1 /\ reqs'[i][2] = waiting' /\ ~Earlier(reqs', "wait", waiting', i)
      BY <1>1, <1>2, <2>1
    <2> QED
      BY <2>2, <2>3, <2>4 DEF AnswersFit, Baby!OnlyStreamWaits
  <1>8. Baby!WaitMeansDone' /\ Baby!FutureMeansDone'
    BY <1>1, <1>3 DEF Baby!WaitMeansDone, Baby!OnlyStreamWaits, Baby!FutureMeansDone
  <1> QED
    BY <1>4, <1>5, <1>6, <1>7, <1>8 DEF BabyInv

\* A command other than a wait changes nothing about the waits.
LEMMA BabyAnswersKept ==
  ASSUME BabyInv, NEW cmd \in {"del", "future"}, NEW op1 \in Baby!Ops,
         reqs' = Append(reqs, <<cmd, op1>>),
         UNCHANGED <<answers, worker, opId, bOp, backend, timedOps, waiting, lateWait>>
  PROVE  AnswersFit'
  <1>1. /\ \A i \in 1 .. Len(reqs') : i \in 1 .. Len(reqs) \/ i = Len(reqs) + 1
        /\ \A i \in 1 .. Len(reqs) : reqs'[i] = reqs[i]
        /\ reqs'[Len(reqs) + 1] = <<cmd, op1>>
        /\ \A c, o : \A i \in 1 .. Len(reqs) : Earlier(reqs', c, o, i) <=> Earlier(reqs, c, o, i)
    BY BabySends
  <1>2. \A i \in 1 .. Len(reqs') : reqs'[i][1] = "wait" =>
           i \in 1 .. Len(reqs) /\ reqs'[i] = reqs[i]
           /\ (Earlier(reqs', "wait", waiting, i) <=> Earlier(reqs, "wait", waiting, i))
    BY <1>1
  <1>3. AnswersFit
    BY BabyFacts
  <1>4. ~lateWait' /\ worker' # "dead" =>
          \A i \in 1 .. Len(reqs') : reqs'[i][1] = "wait" =>
             /\ reqs'[i][2] = waiting' /\ ~Earlier(reqs', "wait", waiting', i)
             /\ answers' = <<>> /\ worker' # "waiting"
    BY <1>2, <1>3 DEF AnswersFit, Baby!OnlyStreamWaits
  <1> QED
    BY <1>3, <1>4 DEF AnswersFit, Baby!OnlyStreamWaits

\* _get_future sends its command, after the wait.
LEMMA BabyGetFuture ==
  ASSUME ~SynchronizeGloo, BabyInv, Baby!TypeOK', NEW o \in Baby!Ops, Baby!GetFuture(o) PROVE BabyInv'
  <1>1. /\ reqs' = Append(reqs, <<"future", o>>)
        /\ backend = "gloo" => waited[o] = "TRUE"
        /\ o \in works /\ bOpGen[o] = bGen /\ worker # "dead"
        /\ future' = [future EXCEPT ![o] = "pending"]
        /\ UNCHANGED <<answers, futPipe, worker, opId, work, watched, bOp, backend, bGen, nextOp, works,
                       bOpGen, waiting, timedOps, waited, answerOf, lateWait, futureOf>>
    BY ~SynchronizeGloo DEF Baby!GetFuture, Baby!CanSend, Baby!workerVars, Baby!parentVars, Baby!waitVars
  <1>2. \A c, p : InPipe(c, p)' <=> InPipe(c, p) \/ (c = "future" /\ p = o)
    BY <1>1, BabySends
  <1>3. /\ o < nextOp /\ (o \in work \/ InPipe("func", o)) /\ ~InPipe("del", o)
        /\ WorksFit /\ OpsFit /\ WaitsFit /\ AnswersFit /\ FuturesFit
        /\ Baby!WaitMeansDone /\ Baby!FutureMeansDone
    BY <1>1, BabyFacts DEF WorksFit
  <1>4. WaitTaken(o) \/ InPipe("wait", o)
    <2>1. backend \in {"gloo", "stream"}
      BY BabyFacts DEF Baby!TypeOK
    <2> QED
      BY <1>1, <1>3, <2>1 DEF WaitsFit, WaitTaken
  <1>5. RequestsFit'
    BY <1>1, <1>3, <1>4, BabyBefore
  <1>6. WorksFit' /\ OpsFit' /\ FuturesFit' /\ WaitsFit'
    BY <1>1, <1>2, <1>3 DEF WorksFit, OpsFit, FuturesFit, WaitsFit, WaitTaken
  <1>7. AnswersFit'
    BY <1>1, BabyAnswersKept
  <1>8. Baby!WaitMeansDone' /\ Baby!FutureMeansDone'
    <2>1. future \in [Baby!Ops -> {"none", "pending", "value", "error"}]
      BY BabyFacts DEF Baby!TypeOK
    <2> QED
      BY <1>1, <1>3, <2>1 DEF Baby!WaitMeansDone, Baby!OnlyStreamWaits, Baby!FutureMeansDone
  <1> QED
    BY <1>5, <1>6, <1>7, <1>8 DEF BabyInv

\* A work is freed: no other command on it follows.
LEMMA BabyFree ==
  ASSUME BabyInv, Baby!TypeOK', NEW o \in Baby!Ops, Baby!Free(o) PROVE BabyInv'
  <1>1. /\ o \in works /\ works' = works \ {o}
        /\ UNCHANGED <<answers, futPipe, worker, opId, work, watched, bOp, backend, bGen, nextOp, bOpGen,
                       waiting, timedOps, waited, answerOf, lateWait, future, futureOf>>
    BY DEF Baby!Free, Baby!workerVars, Baby!waitVars, Baby!futureVars
  <1>2. /\ RequestsFit /\ WorksFit /\ OpsFit /\ WaitsFit /\ AnswersFit /\ FuturesFit
        /\ Baby!WaitMeansDone /\ Baby!FutureMeansDone
    BY BabyFacts
  <1>3. OpsFit' /\ FuturesFit' /\ Baby!WaitMeansDone' /\ Baby!FutureMeansDone'
    BY <1>1, <1>2 DEF OpsFit, FuturesFit, Baby!WaitMeansDone, Baby!OnlyStreamWaits, Baby!FutureMeansDone
  <1>4. CASE reqs' = reqs
    <2>1. RequestsFit' /\ WaitsFit' /\ AnswersFit'
      BY <1>1, <1>2, <1>4 DEF RequestsFit, RequestFits, WaitsFit, AnswersFit, Baby!OnlyStreamWaits, WaitTaken, InPipe
    <2>2. WorksFit'
      BY <1>1, <1>2, <1>4 DEF WorksFit, InPipe
    <2> QED
      BY <1>3, <2>1, <2>2 DEF BabyInv
  <1>5. CASE reqs' = Append(reqs, <<"del", o>>)
    <2>1. \A c, p : InPipe(c, p)' <=> InPipe(c, p) \/ (c = "del" /\ p = o)
      BY <1>5, BabySends
    <2>2. /\ o < nextOp
          /\ worker # "dead" => (o \in work \/ InPipe("func", o)) /\ ~InPipe("del", o)
      BY <1>1, <1>2 DEF WorksFit
    <2>3. RequestsFit'
      BY <1>1, <1>5, <2>2, BabyBefore
    <2>4. WorksFit'
      BY <1>1, <1>2, <2>1 DEF WorksFit
    <2>5. WaitsFit'
      BY <1>1, <1>2, <2>1 DEF WaitsFit, WaitTaken
    <2>6. AnswersFit'
      BY <1>1, <1>5, BabyAnswersKept
    <2> QED
      BY <1>3, <2>3, <2>4, <2>5, <2>6 DEF BabyInv
  <1> QED
    BY <1>4, <1>5 DEF Baby!Free

\* What a command that is taken finds: RequestsFit for the first position.
LEMMA BabyFirst ==
  ASSUME BabyInv, NEW cmd \in {"func", "wait", "del", "future"}, NEW op1 \in Baby!Ops,
         Baby!Takes(cmd, op1)
  PROVE  /\ op1 < nextOp /\ worker = "ready"
         /\ cmd = "func" => bOp[op1] = "sent"
         /\ cmd # "func" => op1 \in work
         /\ cmd = "future" => backend = "stream" \/ bOp[op1] = "done"
         /\ UNCHANGED <<backend, bGen, nextOp, works, bOpGen, waiting, timedOps, waited, answerOf, lateWait,
                       registered, future, futureOf>>
  <1>1. /\ 1 \in 1 .. Len(reqs) /\ reqs[1][1] = cmd /\ reqs[1][2] = op1
        /\ \A c, o : ~Earlier(reqs, c, o, 1)
    <2>1. reqs \in Seq(Baby!Commands) /\ reqs # <<>> /\ Head(reqs) = <<cmd, op1>>
      BY BabyFacts DEF Baby!Takes
    <2>2. 1 \in 1 .. Len(reqs) /\ reqs[1] = <<cmd, op1>>
      BY <2>1
    <2> QED
      BY <2>2 DEF Earlier
  <1>2. RequestFits(1)
    BY <1>1, BabyFacts DEF RequestsFit
  <1>3. /\ worker = "ready"
        /\ UNCHANGED <<backend, bGen, nextOp, works, bOpGen, waiting, timedOps, waited, answerOf, lateWait,
                       registered, future, futureOf>>
    BY DEF Baby!Takes, Baby!parentVars, Baby!waitVars, Baby!futureVars
  <1> QED
    BY <1>1, <1>2, <1>3 DEF RequestFits, WaitTaken

\* What the commands behind one that is taken need, they still have.
LEMMA BabyBehind ==
  ASSUME BabyInv, NEW cmd \in {"func", "wait", "del", "future"}, NEW op1 \in Baby!Ops,
         Baby!Takes(cmd, op1), Baby!Reads(op1),
         \A o \in Baby!Ops : bOp[o] = "done" => bOp'[o] = "done",
         \A o \in Baby!Ops : bOp[o] = "sent" /\ (cmd = "func" => o # op1) => bOp'[o] = "sent",
         \A o \in Baby!Ops : o \in work /\ (cmd = "del" => o # op1) => o \in work',
         cmd = "func" => op1 \in work',
         cmd = "wait" => worker' = "waiting"
  PROVE  RequestsFit'
  <1>1. /\ \A i \in 1 .. Len(reqs') : i + 1 \in 1 .. Len(reqs) /\ reqs'[i] = reqs[i + 1]
        /\ \A c, o : \A i \in 1 .. Len(reqs') :
              Earlier(reqs, c, o, i + 1) <=> (c = cmd /\ o = op1) \/ Earlier(reqs', c, o, i)
    BY BabyTakes, ZenonT(30)
  <1>2. worker = "ready" /\ opId' = op1 /\ nextOp' = nextOp /\ backend' = backend
    BY BabyFirst DEF Baby!Reads
  <1>3. ASSUME NEW i \in 1 .. Len(reqs') PROVE RequestFits(i)'
    <2>1. PICK r, j : r = reqs'[i] /\ j = i + 1 /\ r = reqs[j] /\ j \in 1 .. Len(reqs)
      BY <1>1
    <2>2. /\ r[2] < nextOp
          /\ r[1] = "func" => bOp[r[2]] = "sent" /\ ~Earlier(reqs, "func", r[2], j)
          /\ r[1] # "func" => /\ r[2] \in work \/ Earlier(reqs, "func", r[2], j)
                              /\ ~Earlier(reqs, "del", r[2], j)
          /\ r[1] = "future" => backend = "stream" \/ bOp[r[2]] = "done" \/ Earlier(reqs, "wait", r[2], j)
      BY <1>2, <2>1, BabyFacts DEF RequestsFit, RequestFits, WaitTaken
    <2>3. \A c : Earlier(reqs, c, r[2], j) <=> (c = cmd /\ r[2] = op1) \/ Earlier(reqs', c, r[2], i)
      BY <1>1, <2>1
    <2>4. r[2] \in Baby!Ops
      BY <2>1, BabyFacts
    <2>5. r[1] = "func" => bOp'[r[2]] = "sent" /\ ~Earlier(reqs', "func", r[2], i)
      BY <2>2, <2>3, <2>4
    <2>6. r[1] # "func" => /\ r[2] \in work' \/ Earlier(reqs', "func", r[2], i)
                           /\ ~Earlier(reqs', "del", r[2], i)
      BY <2>2, <2>3, <2>4
    <2>7. r[1] = "future" => \/ backend' = "stream" \/ bOp'[r[2]] = "done"
                             \/ worker' = "waiting" /\ opId' = r[2]
                             \/ Earlier(reqs', "wait", r[2], i)
      BY <1>2, <2>2, <2>3, <2>4
    <2> QED
      BY <1>2, <2>1, <2>2, <2>5, <2>6, <2>7 DEF RequestFits, WaitTaken
  <1> QED
    BY <1>3 DEF RequestsFit

\* A command that is carried out leaves the waits alone, unless it is one.
LEMMA BabyWaitsKept ==
  ASSUME BabyInv, NEW cmd \in {"func", "wait", "del", "future"}, NEW op1 \in Baby!Ops,
         Baby!Takes(cmd, op1), Baby!Reads(op1), answers' = answers,
         \A o \in Baby!Ops : bOp[o] = "done" => bOp'[o] = "done",
         worker' = IF cmd = "wait" THEN "waiting" ELSE worker
  PROVE  WaitsFit' /\ AnswersFit' /\ Baby!WaitMeansDone'
  <1>1. /\ \A i \in 1 .. Len(reqs') : i + 1 \in 1 .. Len(reqs) /\ reqs'[i] = reqs[i + 1]
        /\ \A c, o : \A i \in 1 .. Len(reqs') :
              Earlier(reqs, c, o, i + 1) <=> (c = cmd /\ o = op1) \/ Earlier(reqs', c, o, i)
        /\ \A c, o : InPipe(c, o) <=> (c = cmd /\ o = op1) \/ InPipe(c, o)'
        /\ 1 \in 1 .. Len(reqs) /\ reqs[1][1] = cmd /\ reqs[1][2] = op1
    <2>1. 1 \in 1 .. Len(reqs) /\ reqs[1] = <<cmd, op1>>
      BY BabyTakes, ZenonT(30)
    <2>2. /\ \A i \in 1 .. Len(reqs') : i + 1 \in 1 .. Len(reqs) /\ reqs'[i] = reqs[i + 1]
          /\ \A c, o : \A i \in 1 .. Len(reqs') :
                Earlier(reqs, c, o, i + 1) <=> (c = cmd /\ o = op1) \/ Earlier(reqs', c, o, i)
          /\ \A c, o : InPipe(c, o) <=> (c = cmd /\ o = op1) \/ InPipe(c, o)'
      BY BabyTakes, ZenonT(30)
    <2>3. reqs[1][1] = cmd /\ reqs[1][2] = op1
      BY <2>1
    <2> QED
      BY <2>1, <2>2, <2>3
  <1>2. /\ worker = "ready" /\ opId' = op1
        /\ UNCHANGED <<backend, bGen, nextOp, bOpGen, waiting, timedOps, waited, answerOf, lateWait>>
        /\ WaitsFit /\ AnswersFit /\ Baby!WaitMeansDone /\ Baby!None \notin Baby!Ops
    BY BabyFirst, BabyFacts DEF Baby!Reads
  <1>3. WaitsFit'
    BY <1>1, <1>2 DEF WaitsFit, WaitTaken
  <1>4. Baby!WaitMeansDone'
    BY <1>2 DEF Baby!WaitMeansDone, Baby!OnlyStreamWaits
  <1>5. waiting # Baby!None => waiting \in Baby!Ops
    BY BabyFacts DEF Baby!TypeOK
  <1>6. AnswersFit'
    <2>1. \A i \in 1 .. Len(answers') : answers'[i][1] = "exception" => i = Len(answers')
      BY <1>2 DEF AnswersFit, Baby!OnlyStreamWaits
    <2>2. \A i \in 1 .. Len(answers') : answers'[i][1] = "answer"
      BY <1>2 DEF AnswersFit, Baby!OnlyStreamWaits
    <2>3. ~lateWait => \A i \in 1 .. Len(answers) : answers[i][1] = "answer" =>
            /\ i = 1 /\ waiting # Baby!None /\ answers[i][2] = waiting
            /\ Baby!OnlyStreamWaits(waiting) \/ bOp'[waiting] = "done"
      BY <1>2, <1>5 DEF AnswersFit, Baby!OnlyStreamWaits
    <2>4. ~lateWait => \A i \in 1 .. Len(reqs) : reqs[i][1] = "wait" =>
             reqs[i][2] = waiting /\ ~Earlier(reqs, "wait", waiting, i) /\ answers = <<>>
      BY <1>2 DEF AnswersFit, Baby!OnlyStreamWaits
    <2>5. ~lateWait /\ cmd = "wait" => op1 = waiting /\ answers = <<>>
      BY <1>1, <2>4
    <2>6. ~lateWait => \A i \in 1 .. Len(reqs') : reqs'[i][1] = "wait" =>
             /\ reqs'[i][2] = waiting /\ ~Earlier(reqs', "wait", waiting, i) /\ answers = <<>>
             /\ cmd # "wait"
      <3>1. ASSUME ~lateWait, NEW i \in 1 .. Len(reqs'), reqs'[i][1] = "wait"
            PROVE  /\ reqs'[i][2] = waiting /\ ~Earlier(reqs', "wait", waiting, i) /\ answers = <<>>
                   /\ cmd # "wait"
        <4>1. PICK j \in 1 .. Len(reqs) : j = i + 1 /\ reqs'[i] = reqs[j]
          BY <1>1
        <4>2. reqs[j][2] = waiting /\ ~Earlier(reqs, "wait", waiting, j) /\ answers = <<>>
          BY <2>4, <3>1, <4>1
        <4>3. Earlier(reqs, "wait", waiting, j) <=> ("wait" = cmd /\ waiting = op1) \/ Earlier(reqs', "wait", waiting, i)
          BY <1>1, <4>1
        <4> QED
          BY <2>5, <3>1, <4>1, <4>2, <4>3
      <3> QED
        BY <3>1
    <2> QED
      BY <1>2, <2>1, <2>2, <2>3, <2>5, <2>6 DEF AnswersFit, Baby!OnlyStreamWaits
  <1> QED
    BY <1>2, <1>3, <1>4, <1>6

\* The subprocess ends: what the parent will read last is an exception. The operation
\* it was to issue may have failed.
LEMMA BabyDies ==
  ASSUME BabyInv, Baby!TypeOK', worker' = "dead", worker \in {"starting", "ready", "waiting"},
         answers' = answers \/ answers' = Append(answers, <<"exception", Baby!None>>),
         watched' = watched \/ watched' = {},
         \/ UNCHANGED <<reqs, work, bOp>>
         \/ /\ reqs' = <<>> /\ work' = {}
            /\ \/ bOp' = bOp
               \/ \E p \in Baby!Ops : /\ p < nextOp /\ bOp[p] = "sent"
                                        /\ bOp' = [bOp EXCEPT ![p] = "failed"],
         UNCHANGED <<futPipe, backend, bGen, nextOp, works, bOpGen, waiting,
                     timedOps, waited, answerOf, lateWait, future, futureOf>>
  PROVE  BabyInv'
  <1>1. /\ RequestsFit /\ WorksFit /\ OpsFit /\ WaitsFit /\ AnswersFit /\ FuturesFit
        /\ Baby!WaitMeansDone /\ Baby!FutureMeansDone
        /\ answers \in Seq({"answer", "exception"} \X (Baby!Ops \cup {Baby!None}))
    BY BabyFacts DEF Baby!TypeOK
  <1>2. /\ bOp \in [Baby!Ops -> {"none", "sent", "running", "done", "failed", "killed"}]
        /\ Baby!Ops \subseteq Nat /\ nextOp \in Nat /\ waiting \in Baby!Ops \cup {Baby!None}
        /\ futPipe \in Seq(Baby!Ops \X {"value", "error"} \X Baby!Ops)
    BY BabyFacts DEF Baby!TypeOK
  <1>3. \A p \in Baby!Ops :
          bOp'[p] = bOp[p] \/ (p < nextOp /\ bOp[p] = "sent" /\ bOp'[p] = "failed")
    <2>1. CASE bOp' = bOp
      BY <2>1
    <2>2. ASSUME NEW q \in Baby!Ops, q < nextOp, bOp[q] = "sent", bOp' = [bOp EXCEPT ![q] = "failed"]
          PROVE  \A p \in Baby!Ops :
                   bOp'[p] = bOp[p] \/ (p < nextOp /\ bOp[p] = "sent" /\ bOp'[p] = "failed")
      BY <1>2, <2>2
    <2> QED
      BY <2>1, <2>2
  <1>4. RequestsFit'
    <2>1. CASE reqs' = <<>>
      BY <2>1 DEF RequestsFit
    <2>2. CASE UNCHANGED <<reqs, work, bOp>>
      BY <1>1, <2>2 DEF RequestsFit, RequestFits
    <2> QED
      BY <2>1, <2>2
  <1>5. WorksFit' /\ WaitsFit'
    BY <1>1 DEF WorksFit, WaitsFit
  <1>6. OpsFit'
    <2>1. \A p \in Baby!Ops : p >= nextOp => bOp'[p] = bOp[p]
      <3>1. \A p \in Baby!Ops : p \in Nat /\ ~(p >= nextOp /\ p < nextOp)
        BY <1>2
      <3> QED
        BY <1>3, <3>1
    <2>2. CASE UNCHANGED <<work, bOp>>
      BY <1>1, <2>2 DEF OpsFit
    <2>3. CASE work' = {}
      BY <1>1, <2>1, <2>3 DEF OpsFit
    <2> QED
      BY <2>2, <2>3
  <1>7. FuturesFit'
    <2>1. \A i \in 1 .. Len(futPipe) : futPipe[i][1] \in Baby!Ops
      BY <1>2
    <2> QED
      BY <1>1, <1>3, <2>1 DEF FuturesFit
  <1>8. Baby!WaitMeansDone' /\ Baby!FutureMeansDone'
    BY <1>1, <1>3 DEF Baby!WaitMeansDone, Baby!OnlyStreamWaits, Baby!FutureMeansDone
  <1>9. AnswersFit'
    <2>0. waiting # Baby!None /\ bOp[waiting] = "done" => bOp'[waiting] = "done"
      BY <1>2, <1>3
    <2>1. CASE answers' = answers
      BY <1>1, <2>0, <2>1 DEF AnswersFit, Baby!OnlyStreamWaits
    <2>2. CASE answers' = Append(answers, <<"exception", Baby!None>>)
      <3>1. /\ Len(answers) \in Nat /\ Len(answers') = Len(answers) + 1
            /\ \A i \in 1 .. Len(answers) : answers'[i] = answers[i]
            /\ answers'[Len(answers) + 1] = <<"exception", Baby!None>>
        BY <1>1, <2>2
      <3>2. \A i \in 1 .. Len(answers') : i \in 1 .. Len(answers) \/ i = Len(answers')
        BY <3>1
      <3>3. \A i \in 1 .. Len(answers') : answers'[i][1] = "exception" => i = Len(answers')
        BY <1>1, <3>1, <3>2 DEF AnswersFit, Baby!OnlyStreamWaits
      <3>4. ~lateWait => \A i \in 1 .. Len(answers') : answers'[i][1] = "answer" =>
              /\ i = 1 /\ waiting # Baby!None /\ answers'[i][2] = waiting
              /\ Baby!OnlyStreamWaits(waiting) \/ bOp'[waiting] = "done"
        BY <1>1, <2>0, <3>1, <3>2 DEF AnswersFit, Baby!OnlyStreamWaits
      <3> QED
        BY <1>1, <3>3, <3>4 DEF AnswersFit, Baby!OnlyStreamWaits
    <2> QED
      BY <2>1, <2>2
  <1> QED
    BY <1>4, <1>5, <1>6, <1>7, <1>8, <1>9 DEF BabyInv

\* The loop issues an operation.
LEMMA BabyDoFunc ==
  ASSUME BabyInv, Baby!TypeOK', NEW o \in Baby!Ops, Baby!DoFunc(o) PROVE BabyInv'
  <1>1. /\ Baby!Takes("func", o) /\ Baby!Reads(o) /\ UNCHANGED <<futPipe, watched, answers, worker>>
        /\ bOp' = [bOp EXCEPT ![o] = "running"] /\ work' = work \cup {o}
    BY DEF Baby!DoFunc
  <1>2. /\ o < nextOp /\ worker = "ready" /\ bOp[o] = "sent"
        /\ UNCHANGED <<backend, bGen, nextOp, works, bOpGen, waiting, timedOps, waited, answerOf, lateWait,
                       registered, future, futureOf>>
    BY <1>1, BabyFirst
  <1>3. \A c, p : InPipe(c, p) <=> (c = "func" /\ p = o) \/ InPipe(c, p)'
    BY <1>1, BabyTakes
  <1>4. /\ WorksFit /\ OpsFit /\ FuturesFit /\ Baby!FutureMeansDone
        /\ bOp \in [Baby!Ops -> {"none", "sent", "running", "done", "failed", "killed"}]
        /\ o \in Nat /\ nextOp \in Nat /\ work \subseteq Baby!Ops
        /\ futPipe \in Seq(Baby!Ops \X {"value", "error"} \X Baby!Ops)
    BY BabyFacts DEF Baby!TypeOK
  <1>5. /\ \A p \in Baby!Ops : p # o => bOp'[p] = bOp[p]
        /\ bOp'[o] = "running"
    BY <1>1, <1>4
  <1>6. RequestsFit'
    BY <1>1, <1>2, <1>5, BabyBehind
  <1>7. WaitsFit' /\ AnswersFit' /\ Baby!WaitMeansDone'
    BY <1>1, <1>2, <1>5, BabyWaitsKept
  <1>8. WorksFit'
    BY <1>1, <1>2, <1>3, <1>4 DEF WorksFit
  <1>9. OpsFit'
    <2>1. ~(o >= nextOp)
      BY <1>2, <1>4
    <2> QED
      BY <1>1, <1>2, <1>4, <1>5, <2>1 DEF OpsFit
  <1>10. FuturesFit'
    <2>1. \A i \in 1 .. Len(futPipe) : futPipe[i][1] \in Baby!Ops
      BY <1>4
    <2> QED
      BY <1>1, <1>2, <1>4, <1>5, <2>1 DEF FuturesFit
  <1>11. Baby!FutureMeansDone'
    BY <1>2, <1>4, <1>5 DEF Baby!FutureMeansDone
  <1> QED
    BY <1>6, <1>7, <1>8, <1>9, <1>10, <1>11 DEF BabyInv

\* The loop cannot issue an operation, and ends.
LEMMA BabyDoFuncRaises ==
  ASSUME BabyInv, Baby!TypeOK', NEW o \in Baby!Ops, Baby!DoFuncRaises(o) PROVE BabyInv'
  <1>1. /\ Baby!Takes("func", o) /\ UNCHANGED futPipe
        /\ bOp' = [bOp EXCEPT ![o] = "failed"]
        /\ reqs' = <<>> /\ work' = {} /\ watched' = {} /\ worker' = "dead"
        /\ answers' = Append(answers, <<"exception", Baby!None>>)
    BY DEF Baby!DoFuncRaises, Baby!Die
  <1>2. /\ o < nextOp /\ worker = "ready" /\ bOp[o] = "sent"
        /\ UNCHANGED <<backend, bGen, nextOp, works, bOpGen, waiting, timedOps, waited, answerOf, lateWait,
                       registered, future, futureOf>>
    BY <1>1, BabyFirst
  <1> QED
    BY <1>1, <1>2, BabyDies

\* The loop waits, forgets a work, or answers a request for a future: it has the work.
LEMMA BabyDoWaitDelFuture ==
  ASSUME BabyInv, Baby!TypeOK', NEW o \in Baby!Ops, Baby!DoWait(o) \/ Baby!DoDel(o) \/ Baby!DoFuture(o)
  PROVE  BabyInv'
  <1>1. PICK cmd \in {"wait", "del", "future"} :
           /\ Baby!Takes(cmd, o) /\ bOp' = bOp
           /\ cmd = "wait" => Baby!DoWait(o)
           /\ cmd = "del" => Baby!DoDel(o)
           /\ cmd = "future" => Baby!DoFuture(o)
    BY DEF Baby!DoWait, Baby!DoDel, Baby!DoFuture
  <1>2. /\ worker = "ready" /\ o \in work /\ (cmd = "future" => backend = "stream" \/ bOp[o] = "done")
        /\ UNCHANGED <<backend, bGen, nextOp, works, bOpGen, waiting, timedOps, waited, answerOf, lateWait,
                       registered, future, futureOf>>
    BY <1>1, BabyFirst
  <1>3. /\ Baby!Reads(o) /\ answers' = answers /\ watched' = watched
        /\ worker' = IF cmd = "wait" THEN "waiting" ELSE worker
        /\ work' = IF cmd = "del" THEN work \ {o} ELSE work
        /\ futPipe' = IF cmd = "future" THEN Append(futPipe, <<o, "value", o>>) ELSE futPipe
    BY <1>1, <1>2 DEF Baby!DoWait, Baby!DoDel, Baby!DoFuture, Baby!Result
  <1>4. \A c, p : InPipe(c, p) <=> (c = cmd /\ p = o) \/ InPipe(c, p)'
    BY <1>1, <1>3, BabyTakes
  <1>5. WorksFit /\ OpsFit /\ FuturesFit /\ Baby!FutureMeansDone
    BY BabyFacts
  <1>6. RequestsFit'
    BY <1>1, <1>2, <1>3, BabyBehind
  <1>7. WaitsFit' /\ AnswersFit' /\ Baby!WaitMeansDone'
    BY <1>1, <1>2, <1>3, BabyWaitsKept
  <1>8. WorksFit'
    BY <1>1, <1>2, <1>3, <1>4, <1>5 DEF WorksFit
  <1>9. OpsFit' /\ Baby!FutureMeansDone'
    BY <1>1, <1>2, <1>3, <1>5 DEF OpsFit, Baby!FutureMeansDone
  <1>10. FuturesFit'
    <2>1. CASE cmd # "future"
      BY <1>1, <1>2, <1>3, <1>5, <2>1 DEF FuturesFit
    <2>2. CASE cmd = "future"
      <3>1. futPipe \in Seq(Baby!Ops \X {"value", "error"} \X Baby!Ops)
        BY BabyFacts DEF Baby!TypeOK
      <3>2. /\ Len(futPipe) \in Nat /\ Len(futPipe') = Len(futPipe) + 1
            /\ \A i \in 1 .. Len(futPipe) : futPipe'[i] = futPipe[i]
            /\ futPipe'[Len(futPipe) + 1] = <<o, "value", o>>
        BY <1>3, <2>2, <3>1
      <3>3. \A i \in 1 .. Len(futPipe') : i \in 1 .. Len(futPipe) \/ i = Len(futPipe) + 1
        BY <3>2
      <3> QED
        BY <1>1, <1>2, <1>3, <1>5, <2>2, <3>2, <3>3 DEF FuturesFit
    <2> QED
      BY <2>1, <2>2
  <1> QED
    BY <1>6, <1>7, <1>8, <1>9, <1>10 DEF BabyInv

\* The parent's wait gets an answer, or is given up.
LEMMA BabyWaitEnds ==
  ASSUME BabyInv, Baby!TypeOK', Baby!WaitReturns \/ Baby!WaitTimesOut PROVE BabyInv'
  <1>1. /\ waiting # Baby!None /\ waiting' = Baby!None
        /\ UNCHANGED <<reqs, futPipe, worker, opId, work, watched, bOp, backend, bGen, nextOp, works,
                       bOpGen, timedOps, future, futureOf>>
    BY DEF Baby!WaitReturns, Baby!WaitTimesOut, Baby!pipeVars, Baby!workerVars, Baby!parentVars, Baby!futureVars
  <1>2. /\ RequestsFit /\ WorksFit /\ OpsFit /\ WaitsFit /\ AnswersFit /\ FuturesFit
        /\ Baby!WaitMeansDone /\ Baby!FutureMeansDone /\ Baby!None \notin Baby!Ops
        /\ waiting \in Baby!Ops /\ waiting \in Nat /\ nextOp \in Nat
        /\ waited \in [Baby!Ops -> {"no", "TRUE", "raised"}]
        /\ answerOf \in [Baby!Ops -> Baby!Ops \cup {Baby!None}]
        /\ answers \in Seq({"answer", "exception"} \X (Baby!Ops \cup {Baby!None}))
    BY <1>1, BabyFacts DEF Baby!TypeOK
  <1>3. RequestsFit' /\ WorksFit' /\ FuturesFit' /\ Baby!FutureMeansDone'
    BY <1>1, <1>2 DEF RequestsFit, RequestFits, WorksFit, FuturesFit, WaitTaken, InPipe, Baby!FutureMeansDone
  <1>4. OpsFit'
    <2>1. ~(waiting >= nextOp) /\ \A o \in Baby!Ops : o # waiting => waited'[o] = waited[o]
      BY <1>1, <1>2 DEF WaitsFit, Baby!WaitReturns, Baby!WaitTimesOut
    <2> QED
      BY <1>1, <1>2, <2>1 DEF OpsFit
  <1>5. WaitsFit'
    <2>1. \A o \in Baby!Ops : waited'[o] = "TRUE" => waiting = o \/ waited[o] = "TRUE"
      BY <1>2 DEF Baby!WaitReturns, Baby!WaitTimesOut
    <2> QED
      BY <1>1, <1>2, <2>1 DEF WaitsFit, WaitTaken, InPipe
  <1>6. CASE Baby!WaitTimesOut
    <2>1. lateWait' = TRUE /\ answers' = answers
      BY <1>6 DEF Baby!WaitTimesOut, Baby!pipeVars
    <2>2. AnswersFit' /\ Baby!WaitMeansDone'
      BY <1>1, <1>2, <2>1 DEF AnswersFit, Baby!WaitMeansDone, Baby!OnlyStreamWaits
    <2> QED
      BY <1>3, <1>4, <1>5, <2>2 DEF BabyInv
  <1>7. CASE Baby!WaitReturns
    <2>1. /\ lateWait' = lateWait /\ answers' = Tail(answers) /\ answers # <<>>
          /\ waited' = [waited EXCEPT ![waiting] = IF Head(answers)[1] = "answer" THEN "TRUE" ELSE "raised"]
          /\ answerOf' = [answerOf EXCEPT ![waiting] = Head(answers)[2]]
      BY <1>7 DEF Baby!WaitReturns
    <2>2. /\ Len(answers) = Len(answers') + 1 /\ Len(answers') \in Nat /\ Head(answers) = answers[1]
          /\ \A i \in 1 .. Len(answers') : answers'[i] = answers[i + 1]
      BY <1>2, <2>1
    <2>3. /\ 1 \in 1 .. Len(answers)
          /\ \A i \in 1 .. Len(answers') : /\ i + 1 \in 1 .. Len(answers) /\ i + 1 # 1
                                          /\ (i + 1 = Len(answers) => i = Len(answers'))
      BY <2>2
    <2>4. /\ worker # "dead" => \A i \in 1 .. Len(answers') : answers'[i][1] = "answer"
          /\ \A i \in 1 .. Len(answers') : answers'[i][1] = "exception" => i = Len(answers')
          /\ ~lateWait => \A i \in 1 .. Len(answers') : answers'[i][1] # "answer"
      BY <1>2, <2>2, <2>3 DEF AnswersFit, Baby!OnlyStreamWaits
    <2>5. ~lateWait /\ worker # "dead" => /\ worker # "waiting"
                                          /\ \A i \in 1 .. Len(reqs) : reqs[i][1] # "wait"
      BY <1>2, <2>1 DEF AnswersFit, Baby!OnlyStreamWaits
    <2>6. AnswersFit'
      BY <1>1, <1>2, <2>1, <2>4, <2>5 DEF AnswersFit, Baby!OnlyStreamWaits
    <2>7. ~lateWait /\ Head(answers)[1] = "answer" =>
             Head(answers)[2] = waiting /\ (Baby!OnlyStreamWaits(waiting) \/ bOp[waiting] = "done")
      BY <1>2, <2>2, <2>3 DEF AnswersFit, Baby!OnlyStreamWaits
    <2>8. Baby!WaitMeansDone'
      BY <1>1, <1>2, <2>1, <2>7 DEF Baby!WaitMeansDone, Baby!OnlyStreamWaits
    <2> QED
      BY <1>3, <1>4, <1>5, <2>6, <2>8 DEF BabyInv
  <1> QED
    BY <1>6, <1>7

\* The subprocess starts, answers a wait, or ends.
LEMMA BabyWorker ==
  ASSUME BabyInv, Baby!TypeOK',
         Baby!WorkerStarts \/ Baby!WorkerFailsToStart \/ Baby!WaitedOpEnds \/ Baby!WorkerCrashes
  PROVE  BabyInv'
  <1>1. /\ UNCHANGED <<futPipe, bOp, backend, bGen, nextOp, works, bOpGen, waiting, timedOps, waited,
                       answerOf, lateWait, future, futureOf>>
        /\ \/ UNCHANGED <<reqs, opId, work, watched>>
           \/ worker' = "dead" /\ reqs' = <<>> /\ work' = {} /\ watched' = {}
        /\ worker \in {"starting", "ready", "waiting"}
    BY DEF Baby!WorkerStarts, Baby!WorkerFailsToStart, Baby!WaitedOpEnds, Baby!WorkerCrashes, Baby!pipeVars,
           Baby!parentVars, Baby!waitVars, Baby!futureVars, Baby!Die
  <1>2. CASE worker' = "dead"
    <2>1. answers' = answers \/ answers' = Append(answers, <<"exception", Baby!None>>)
      BY <1>2 DEF Baby!WorkerStarts, Baby!WorkerFailsToStart, Baby!WaitedOpEnds, Baby!WorkerCrashes,
           Baby!Die, Baby!pipeVars
    <2> QED
      BY <1>1, <1>2, <2>1, BabyDies
  <1>3. /\ RequestsFit /\ WorksFit /\ OpsFit /\ WaitsFit /\ AnswersFit /\ FuturesFit
        /\ Baby!WaitMeansDone /\ Baby!FutureMeansDone
        /\ answers \in Seq({"answer", "exception"} \X (Baby!Ops \cup {Baby!None}))
    BY BabyFacts DEF Baby!TypeOK
  <1>4. CASE worker = "starting" /\ worker' = "ready" /\ answers' = answers
    <2>1. RequestsFit' /\ WorksFit' /\ OpsFit' /\ WaitsFit' /\ FuturesFit' /\ AnswersFit'
      BY <1>1, <1>3, <1>4 DEF RequestsFit, RequestFits, WorksFit, OpsFit, WaitsFit, FuturesFit, AnswersFit, Baby!OnlyStreamWaits,
           WaitTaken, InPipe
    <2>2. Baby!WaitMeansDone' /\ Baby!FutureMeansDone'
      BY <1>1, <1>3 DEF Baby!WaitMeansDone, Baby!OnlyStreamWaits, Baby!FutureMeansDone
    <2> QED
      BY <2>1, <2>2 DEF BabyInv
  <1>5. CASE /\ worker = "waiting" /\ worker' = "ready"
             /\ Baby!OnlyStreamWaits(opId) \/ bOp[opId] = "done"
             /\ answers' = Append(answers, <<"answer", opId>>)
    <2>1. RequestsFit' /\ WorksFit' /\ OpsFit' /\ WaitsFit' /\ FuturesFit'
      BY <1>1, <1>3, <1>5 DEF RequestsFit, RequestFits, WorksFit, OpsFit, WaitsFit, FuturesFit, WaitTaken,
           InPipe, Baby!OnlyStreamWaits
    <2>2. Baby!WaitMeansDone' /\ Baby!FutureMeansDone'
      BY <1>1, <1>3 DEF Baby!WaitMeansDone, Baby!OnlyStreamWaits, Baby!FutureMeansDone
    <2>3. /\ Len(answers) \in Nat /\ Len(answers') = Len(answers) + 1
          /\ \A i \in 1 .. Len(answers) : answers'[i] = answers[i]
          /\ answers'[Len(answers) + 1] = <<"answer", opId>>
      BY <1>3, <1>5
    <2>4. \A i \in 1 .. Len(answers') : i \in 1 .. Len(answers) \/ i = Len(answers) + 1
      BY <2>3
    <2>5. \A i \in 1 .. Len(answers) : answers[i][1] = "answer"
      BY <1>3, <1>5 DEF AnswersFit, Baby!OnlyStreamWaits
    <2>6. \A i \in 1 .. Len(answers') : answers'[i][1] = "answer"
      BY <2>3, <2>4, <2>5
    <2>7. ~lateWait => /\ opId = waiting /\ waiting # Baby!None /\ Len(answers) = 0
                       /\ \A i \in 1 .. Len(reqs) : reqs[i][1] # "wait"
      BY <1>3, <1>5 DEF AnswersFit, Baby!OnlyStreamWaits
    <2>8. AnswersFit'
      BY <1>1, <1>5, <2>3, <2>4, <2>6, <2>7 DEF AnswersFit, Baby!OnlyStreamWaits
    <2> QED
      BY <2>1, <2>2, <2>8 DEF BabyInv
  <1> QED
    BY <1>2, <1>4, <1>5 DEF Baby!WorkerStarts, Baby!WorkerFailsToStart, Baby!WaitedOpEnds, Baby!WorkerCrashes,
         Baby!Die, Baby!pipeVars

\* An operation ends; what was sent, or was done, is as it was.
LEMMA BabyOpEnds ==
  ASSUME BabyInv, Baby!TypeOK', NEW o \in Baby!Ops, Baby!OpEnds(o) PROVE BabyInv'
  <1>1. /\ bOp[o] = "running" /\ watched' = {} /\ futPipe' = futPipe
        /\ UNCHANGED <<reqs, answers, worker, opId, work, backend, bGen, nextOp, works, bOpGen, waiting,
                       timedOps, waited, answerOf, lateWait, future, futureOf>>
    BY BabyFacts DEF Baby!OpEnds, FuturesFit, Baby!parentVars, Baby!waitVars, Baby!futureVars
  <1>2. /\ RequestsFit /\ WorksFit /\ OpsFit /\ WaitsFit /\ AnswersFit /\ FuturesFit
        /\ Baby!WaitMeansDone /\ Baby!FutureMeansDone /\ nextOp \in Nat /\ o \in Nat
        /\ work \subseteq Baby!Ops /\ \A i \in 1 .. Len(reqs) : reqs[i][2] \in Baby!Ops
        /\ bOp \in [Baby!Ops -> {"none", "sent", "running", "done", "failed", "killed"}]
        /\ futPipe \in Seq(Baby!Ops \X {"value", "error"} \X Baby!Ops)
        /\ (waiting # Baby!None => waiting \in Baby!Ops)
    BY BabyFacts DEF Baby!TypeOK
  <1>3. /\ \A p \in Baby!Ops : p # o => bOp'[p] = bOp[p]
        /\ bOp'[o] \in {"done", "failed"}
    BY <1>2 DEF Baby!OpEnds
  <1>4. RequestsFit'
    BY <1>1, <1>2, <1>3 DEF RequestsFit, RequestFits, WaitTaken
  <1>5. WorksFit'
    BY <1>1, <1>2 DEF WorksFit, InPipe
  <1>6. OpsFit'
    <2>1. ~(o >= nextOp)
      BY <1>1, <1>2 DEF OpsFit
    <2> QED
      BY <1>1, <1>2, <1>3, <2>1 DEF OpsFit
  <1>7. WaitsFit'
    BY <1>1, <1>2, <1>3 DEF WaitsFit, WaitTaken, InPipe
  <1>8. AnswersFit'
    BY <1>1, <1>2, <1>3 DEF AnswersFit, Baby!OnlyStreamWaits
  <1>9. FuturesFit'
    <2>1. \A i \in 1 .. Len(futPipe) : futPipe[i][1] \in Baby!Ops
      BY <1>2
    <2> QED
      BY <1>1, <1>2, <1>3, <2>1 DEF FuturesFit
  <1>10. Baby!WaitMeansDone' /\ Baby!FutureMeansDone'
    BY <1>1, <1>2, <1>3 DEF Baby!WaitMeansDone, Baby!OnlyStreamWaits, Baby!FutureMeansDone
  <1> QED
    BY <1>4, <1>5, <1>6, <1>7, <1>8, <1>9, <1>10 DEF BabyInv

\* The future thread completes a future with the value of an operation that is done.
LEMMA BabyHandler ==
  ASSUME BabyInv, Baby!TypeOK', Baby!HandlerNext PROVE BabyInv'
  <1>1. /\ UNCHANGED <<reqs, answers, worker, opId, work, watched, bOp, backend, bGen, nextOp, works, bOpGen,
                       waiting, timedOps, waited, answerOf, lateWait>>
    BY DEF Baby!HandlerNext, Baby!HandleFuture, Baby!HandlerSeesEnd, Baby!pipeVars, Baby!workerVars,
           Baby!parentVars, Baby!waitVars
  <1>2. /\ RequestsFit /\ WorksFit /\ OpsFit /\ WaitsFit /\ AnswersFit /\ FuturesFit
        /\ Baby!WaitMeansDone /\ Baby!FutureMeansDone
        /\ futPipe \in Seq(Baby!Ops \X {"value", "error"} \X Baby!Ops)
        /\ future \in [Baby!Ops -> {"none", "pending", "value", "error"}]
        /\ futureOf \in [Baby!Ops -> Baby!Ops \cup {Baby!None}]
    BY BabyFacts DEF Baby!TypeOK
  <1>3. RequestsFit' /\ WorksFit' /\ OpsFit' /\ WaitsFit' /\ AnswersFit' /\ Baby!WaitMeansDone'
    BY <1>1, <1>2 DEF RequestsFit, RequestFits, WorksFit, OpsFit, WaitsFit, AnswersFit, Baby!OnlyStreamWaits, WaitTaken, InPipe,
         Baby!WaitMeansDone, Baby!OnlyStreamWaits
  <1>4. CASE Baby!HandleFuture
    <2>1. /\ futPipe' = Tail(futPipe) /\ futPipe # <<>>
          /\ \/ UNCHANGED <<future, futureOf>>
             \/ /\ future' = [future EXCEPT ![Head(futPipe)[1]] = Head(futPipe)[2]]
                /\ futureOf' = [futureOf EXCEPT ![Head(futPipe)[1]] = Head(futPipe)[3]]
      BY <1>4 DEF Baby!HandleFuture
    <2>2. /\ Len(futPipe) = Len(futPipe') + 1 /\ Len(futPipe') \in Nat /\ Head(futPipe) = futPipe[1]
          /\ \A i \in 1 .. Len(futPipe') : futPipe'[i] = futPipe[i + 1]
      BY <1>2, <2>1
    <2>3. 1 \in 1 .. Len(futPipe) /\ \A i \in 1 .. Len(futPipe') : i + 1 \in 1 .. Len(futPipe)
      BY <2>2
    <2>4. /\ Head(futPipe)[2] = "value" /\ Head(futPipe)[3] = Head(futPipe)[1]
          /\ backend = "gloo" => bOp[Head(futPipe)[1]] = "done"
      BY <1>2, <2>2, <2>3 DEF FuturesFit
    <2>5. FuturesFit'
      BY <1>1, <1>2, <2>2, <2>3 DEF FuturesFit
    <2>6. Baby!FutureMeansDone'
      BY <1>1, <1>2, <2>1, <2>4 DEF Baby!FutureMeansDone
    <2> QED
      BY <1>3, <2>5, <2>6 DEF BabyInv
  <1>5. CASE Baby!HandlerSeesEnd
    <2>1. FuturesFit' /\ Baby!FutureMeansDone'
      BY <1>1, <1>2, <1>5 DEF FuturesFit, Baby!FutureMeansDone, Baby!HandlerSeesEnd, Baby!pipeVars
    <2> QED
      BY <1>3, <2>1 DEF BabyInv
  <1> QED
    BY <1>4, <1>5 DEF Baby!HandlerNext

\* Every step of the parent, the subprocess and the future thread keeps the invariant.
LEMMA BabyStep ==
  ASSUME FreesFirst, ~SynchronizeGloo PROVE BabyInv /\ [Baby!Next]_babyVars => BabyInv'
  <1> SUFFICES ASSUME BabyInv, [Baby!Next]_babyVars PROVE BabyInv'
    OBVIOUS
  <1>1. CASE UNCHANGED babyVars
    BY <1>1 DEF babyVars, BabyInv, Baby!TypeOK, RequestsFit, RequestFits, WorksFit, OpsFit, WaitsFit,
         AnswersFit, FuturesFit, WaitTaken, InPipe, Baby!WaitMeansDone, Baby!OnlyStreamWaits, Baby!FutureMeansDone
  <1>2. CASE Baby!Next
    <2>1. Baby!TypeOK'
      BY <1>2, BabyTypes, BabyFacts DEF FuturesFit, WatchedHasId
    <2> QED
      BY <1>2, <2>1, FreesFirst, ~SynchronizeGloo, BabyConfigure, BabyConfigureEnds, BabyRunFunc, BabyWait, BabyGetFuture, BabyFree, BabyDoFunc,
         BabyDoFuncRaises, BabyDoWaitDelFuture, BabyWaitEnds, BabyWorker, BabyOpEnds, BabyHandler
         DEF Baby!Next, Baby!WorkerNext
  <1> QED
    BY <1>1, <1>2

\* The invariant says what the answers and commands mean.
LEMMA BabyMatches == BabyInv => AnswersMatch
  <1> SUFFICES ASSUME BabyInv PROVE AnswersMatch
    OBVIOUS
  <1>1. Baby!CommandsAreKnown
    <2> SUFFICES ASSUME worker = "ready", reqs # <<>>, Head(reqs)[1] # "func" PROVE Head(reqs)[2] \in work
      BY DEF Baby!CommandsAreKnown
    <2>1. 1 \in 1 .. Len(reqs) /\ Head(reqs) = reqs[1]
      BY BabyFacts
    <2>2. ~Earlier(reqs, "func", reqs[1][2], 1)
      BY DEF Earlier
    <2>3. RequestFits(1)
      BY <2>1, BabyFacts DEF RequestsFit
    <2> QED
      BY <2>1, <2>2, <2>3 DEF RequestFits
  <1> QED
    BY <1>1, BabyFacts DEF AnswersMatch, Baby!AnswersMatch

\* Whatever the timing of subprocess, pipes and threads, and whether a wait blocks or
\* makes the stream wait, a parent gets each operation's own answer and result, and the
\* command loop is never asked for a work it does not have -- as long as works are freed
\* before the group is configured, and a future over Gloo is asked for after its wait.
THEOREM AnswersFitOperations ==
  ASSUME FreesFirst, ~SynchronizeGloo PROVE WSpec => []AnswersMatch
  <1>1. WInit => BabyInv
    BY BabyInitInv DEF WInit
  <1>2. BabyInv /\ [WNext]_worksVars => BabyInv'
    <2>1. BabyInv /\ [Baby!Next]_babyVars => BabyInv'
      BY FreesFirst, ~SynchronizeGloo, BabyStep
    <2>2. [WNext]_worksVars => [Baby!Next]_babyVars
      BY DEF WNext, worksVars, babyVars
    <2> QED
      BY <2>1, <2>2
  <1>3. BabyInv => AnswersMatch
    BY BabyMatches
  <1> QED
    BY <1>1, <1>2, <1>3, PTL DEF WSpec

-----------------------------------------------------------------------------
\* The variables of all the parts that a work goes through have their types, whether
\* or not the parent frees its works in time and waits before it asks for a future.
THEOREM WorksTypes == WSpec => []TypesOK
  <1> DEFINE Inv == TimersInv /\ ManagedInv /\ Baby!TypeOK /\ WatchedHasId /\ NCCLInv /\ SwallowInv
  <1>1. WInit => Inv
    <2>1. Baby!Init => BabyInv
      BY BabyInitInv
    <2>2. Baby!Init => Baby!TypeOK /\ WatchedHasId
      BY <2>1 DEF BabyInv, Baby!Init, WatchedHasId
    <2> QED
      BY <2>2, TimersInit, ManagedInit, NCCLInit, SwallowInit DEF WInit
  <1>2. Inv /\ [WNext]_worksVars => Inv'
    <2>1. ASSUME Baby!TypeOK, WatchedHasId, [Baby!Next]_babyVars PROVE Baby!TypeOK' /\ WatchedHasId'
      <3>1. CASE UNCHANGED babyVars
        BY <2>1, <3>1 DEF babyVars, Baby!TypeOK, WatchedHasId
      <3> QED
        BY <2>1, <3>1, BabyTypes
    <2> SUFFICES ASSUME Inv, [WNext]_worksVars PROVE Inv'
      OBVIOUS
    <2>2. /\ [Next]_vars /\ [Managed!Next]_managedVars /\ [Baby!Next]_babyVars
          /\ [NCCL!Next]_ncclVars /\ [Swallow!Next]_swallowVars
      BY DEF WNext, worksVars
    <2>3. TimersInv'
      BY <2>2, TimersTypes, CancelStep, WatchdogStep DEF TimersInv
    <2>4. ManagedInv'
      BY <2>2, ManagedTypes, ManagedTurns, ManagedTensors, ManagedCommits DEF ManagedInv
    <2>5. NCCLInv'
      BY <2>2, NCCLShapeStep, NCCLOverlapStep DEF NCCLInv
    <2>6. SwallowInv'
      BY <2>2, SwallowStep
    <2> QED
      BY <2>1, <2>2, <2>3, <2>4, <2>5, <2>6
  <1>3. Inv => TypesOK
    BY DEF TimersInv, ManagedInv, NCCLInv, NCCLShape, SwallowInv, TypesOK
  <1> QED
    BY <1>1, <1>2, <1>3, PTL DEF WSpec

=============================================================================
