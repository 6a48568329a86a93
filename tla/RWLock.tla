------------------------------- MODULE RWLock -------------------------------
(***************************************************************************)
(* The readers/writer lock of torchft/checkpointing/_rwlock.py.  It is     *)
(* made of two threading.Locks and a counter: the first reader takes       *)
(* _w_lock for all readers, the last one gives it back, and _num_r_lock    *)
(* protects the counter -- and is held while the first reader waits for    *)
(* _w_lock.  A Lock has no owner: anyone may release it.  Every acquire    *)
(* may time out instead, except the one in r_release.                      *)
(*                                                                         *)
(* The actions are used by the modules whose threads share such a lock;    *)
(* Spec is the use the with-statements r_lock() and w_lock() make of it.   *)
(***************************************************************************)
EXTENDS Naturals, FiniteSets

CONSTANT Threads

ASSUME ThreadsFinite == IsFiniteSet(Threads)

VARIABLES
    wLock,     \* _w_lock is held
    numRLock,  \* the threads that hold _num_r_lock: none or one
    numR,      \* _num_r
    phase      \* where a thread is in the lock's methods

lockVars == <<wLock, numRLock, numR, phase>>

Phases == {"out", "first", "reading", "writing"}

LockInit == /\ wLock = FALSE
            /\ numRLock = {}
            /\ numR = 0
            /\ phase = [t \in Threads |-> "out"]

-----------------------------------------------------------------------------
(* Readers                                                                 *)

\* r_acquire up to the test of _num_r: the first reader keeps _num_r_lock.
REnter(t) ==
    /\ phase[t] = "out"
    /\ numRLock = {}
    /\ numR' = numR + 1
    /\ numRLock' = IF numR = 0 THEN {t} ELSE {}
    /\ phase' = [phase EXCEPT ![t] = IF numR = 0 THEN "first" ELSE "reading"]
    /\ UNCHANGED wLock

\* The first reader takes _w_lock and lets the other readers in.
RFirst(t) ==
    /\ phase[t] = "first"
    /\ ~wLock
    /\ wLock' = TRUE
    /\ numRLock' = {}
    /\ phase' = [phase EXCEPT ![t] = "reading"]
    /\ UNCHANGED numR

\* mutant: a reader that was never counted takes itself off the count
RTimeoutDecrements(t) ==
    /\ phase[t] \in {"out", "first"}
    /\ IF phase[t] = "first" THEN wLock ELSE numRLock # {}
    /\ numR' = numR - 1
    /\ numRLock' = numRLock \ {t}
    /\ phase' = [phase EXCEPT ![t] = "out"]
    /\ UNCHANGED wLock

\* TimeoutError of a reader: at _num_r_lock, or as the first one at _w_lock.
RTimeout(t) ==
    \/ /\ phase[t] = "out"
       /\ numRLock # {}
       /\ UNCHANGED lockVars
    \/ /\ phase[t] = "first"
       /\ wLock
       /\ numR' = numR - 1
       /\ numRLock' = {}
       /\ phase' = [phase EXCEPT ![t] = "out"]
       /\ UNCHANGED wLock

\* mutant: every reader gives _w_lock back
RReleaseEach(t) ==
    /\ phase[t] = "reading"
    /\ numRLock = {}
    /\ numR' = numR - 1
    /\ wLock' = FALSE
    /\ phase' = [phase EXCEPT ![t] = "out"]
    /\ UNCHANGED numRLock

\* r_release.  Releasing a Lock nobody holds raises RuntimeError, and then
\* _num_r_lock is not given back.
RRelease(t) ==
    /\ phase[t] = "reading"
    /\ numRLock = {}
    /\ numR' = numR - 1
    /\ wLock' = (wLock /\ numR # 1)
    /\ numRLock' = IF numR = 1 /\ ~wLock THEN {t} ELSE {}
    /\ phase' = [phase EXCEPT ![t] = "out"]

-----------------------------------------------------------------------------
(* Writers                                                                 *)

WAcquire(t) ==
    /\ phase[t] = "out"
    /\ ~wLock
    /\ wLock' = TRUE
    /\ phase' = [phase EXCEPT ![t] = "writing"]
    /\ UNCHANGED <<numRLock, numR>>

\* TimeoutError of a writer: nothing is taken.
WTimeout(t) == phase[t] = "out" /\ wLock /\ UNCHANGED lockVars

\* w_release by any thread; a Lock nobody holds raises RuntimeError.
WRelease(t) ==
    /\ wLock' = FALSE
    /\ phase' = [phase EXCEPT ![t] = "out"]
    /\ UNCHANGED <<numRLock, numR>>

-----------------------------------------------------------------------------
LockNext == \E t \in Threads :
    \/ REnter(t) \/ RFirst(t) \/ RTimeout(t) \/ RRelease(t)
    \/ WAcquire(t) \/ WTimeout(t)
    \/ phase[t] = "writing" /\ WRelease(t)

LockSpec == LockInit /\ [][LockNext]_lockVars

Reading == {t \in Threads : phase[t] = "reading"}
Writing == {t \in Threads : phase[t] = "writing"}
First   == {t \in Threads : phase[t] = "first"}

LockTypeOK == /\ wLock \in BOOLEAN
              /\ numRLock \in SUBSET Threads
              /\ numR \in Nat
              /\ phase \in [Threads -> Phases]

\* A writer is alone: while a thread is between w_acquire and w_release no
\* thread is between r_acquire and r_release and there is no other writer
\* (RWLock, "read from by multiple threads, but only written to by a single
\* thread at a time").
WriterIsAlone == Writing # {} => Reading = {} /\ Cardinality(Writing) = 1

\* r_release takes _num_r_lock without a timeout.  The lock is never held
\* across a wait while a reader is inside, so a reader that has finished
\* never waits for the writer that waits for it.
ReleaseNeverWaits == Reading # {} => numRLock = {}

\* The two promises of the lock, which a timeout in either of a reader's two
\* acquisitions must not break (_rwlock.py:79).
LockSafe == WriterIsAlone /\ ReleaseNeverWaits
=============================================================================
