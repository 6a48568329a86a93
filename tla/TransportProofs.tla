--------------------------- MODULE TransportProofs ---------------------------
(***************************************************************************)
(* Theorems about RWLock, for every finite set of threads and however      *)
(* their acquisitions time out, and about the two transports: over HTTP,   *)
(* which is one use of that lock, and over a process group.                *)
(***************************************************************************)
EXTENDS MCTransports, FiniteSetTheorems, TLAPS

\* The threads _num_r counts.
Inside == {t \in Threads : phase[t] \in {"first", "reading"}}

\* The counter counts.
CountFits == numR = Cardinality(Inside)

\* _num_r_lock is held across a wait only by the first reader, which is then
\* the only one.
FirstIsAlone ==
  /\ numRLock = First
  /\ First # {} => Reading = {}
  /\ \A s, t \in First : s = t

\* _w_lock is held by the readers together or by one writer.
OneSideInside ==
  /\ wLock <=> Reading # {} \/ Writing # {}
  /\ Writing # {} => Reading = {}
  /\ \A s, t \in Writing : s = t

LockInv == LockTypeOK /\ CountFits /\ FirstIsAlone /\ OneSideInside

-----------------------------------------------------------------------------
(* Where the threads are after a step *)

\* A reader is counted once, on the way in.
LEMMA Enters ==
  ASSUME LockTypeOK, CountFits, NEW t \in Threads, NEW p \in {"first", "reading"},
         phase[t] = "out", phase' = [phase EXCEPT ![t] = p]
  PROVE  Cardinality(Inside') = numR + 1
  <1>1. Inside' = Inside \cup {t} /\ t \notin Inside
    BY DEF Inside, LockTypeOK, Phases
  <1>2. IsFiniteSet(Inside)
    BY ThreadsFinite, FS_Subset DEF Inside
  <1> QED
    BY <1>1, <1>2, FS_AddElement DEF CountFits

\* And taken off once, on the way out.
LEMMA Leaves ==
  ASSUME LockTypeOK, CountFits, NEW t \in Threads, phase[t] \in {"first", "reading"},
         phase' = [phase EXCEPT ![t] = "out"]
  PROVE  Cardinality(Inside') = numR - 1 /\ numR - 1 \in Nat
  <1>1. Inside' = Inside \ {t} /\ t \in Inside
    BY DEF Inside, LockTypeOK, Phases
  <1>2. IsFiniteSet(Inside)
    BY ThreadsFinite, FS_Subset DEF Inside
  <1>3. Cardinality(Inside') = numR - 1
    BY <1>1, <1>2, FS_RemoveElement DEF CountFits
  <1>4. IsFiniteSet(Inside') /\ Cardinality(Inside') \in Nat
    BY <1>1, <1>2, FS_RemoveElement, FS_CardinalityType
  <1> QED
    BY <1>3, <1>4

\* The counter is zero exactly when no reader is inside.
LEMMA NobodyInside == ASSUME CountFits PROVE numR = 0 <=> Inside = {}
  <1>1. IsFiniteSet(Inside)
    BY ThreadsFinite, FS_Subset DEF Inside
  <1> QED
    BY <1>1, FS_EmptySet DEF CountFits

\* And one when the last reader is about to leave.
LEMMA LastInside ==
  ASSUME CountFits, NEW t \in Inside PROVE numR = 1 <=> Inside = {t}
  <1>1. IsFiniteSet(Inside)
    BY ThreadsFinite, FS_Subset DEF Inside
  <1> QED
    BY <1>1, FS_Singleton DEF CountFits

-----------------------------------------------------------------------------
(* The invariant *)

LEMMA LockInvInit == LockInit => LockInv
  <1> SUFFICES ASSUME LockInit PROVE LockInv
    OBVIOUS
  <1>1. First = {} /\ Reading = {} /\ Writing = {} /\ Inside = {}
    BY DEF LockInit, First, Reading, Writing, Inside
  <1>2. CountFits
    BY <1>1, FS_EmptySet DEF LockInit, CountFits
  <1> QED
    BY <1>1, <1>2 DEF LockInit, LockInv, LockTypeOK, FirstIsAlone, OneSideInside, Phases

LEMMA LockInvStep == LockInv /\ [LockNext]_lockVars => LockInv'
  <1> SUFFICES ASSUME LockInv, [LockNext]_lockVars PROVE LockInv'
    OBVIOUS
  <1> USE DEF LockInv
  <1>1. ASSUME NEW t \in Threads, REnter(t) PROVE LockInv'
    <2>1. phase[t] = "out" /\ numRLock = {}
      BY <1>1 DEF REnter
    <2>2. PICK p \in {"first", "reading"} :
             phase' = [phase EXCEPT ![t] = p] /\ (p = "first" <=> numR = 0)
      BY <1>1 DEF REnter
    <2>3. CountFits'
      BY <1>1, <2>1, <2>2, Enters DEF REnter, CountFits
    <2>4. LockTypeOK'
      BY <1>1, <2>1, <2>2 DEF REnter, LockTypeOK, Phases
    <2>5. First = {}
      BY <2>1 DEF FirstIsAlone
    <2>6. CASE numR = 0
      <3>1. Inside = {}
        BY <2>6, NobodyInside
      <3>2. Reading = {} /\ Reading' = {} /\ First' = {t} /\ Writing' = Writing
        BY <2>1, <2>2, <2>5, <2>6, <3>1 DEF Reading, First, Writing, Inside, LockTypeOK
      <3> QED
        BY <1>1, <2>3, <2>4, <2>6, <3>2 DEF REnter, FirstIsAlone, OneSideInside
    <2>7. CASE numR # 0
      <3>1. Inside # {}
        BY <2>7, NobodyInside
      <3>2. Reading # {} /\ Reading' # {} /\ First' = {} /\ Writing' = Writing
        BY <2>1, <2>2, <2>5, <2>7, <3>1 DEF Reading, First, Writing, Inside, LockTypeOK
      <3> QED
        BY <1>1, <2>3, <2>4, <2>7, <3>2 DEF REnter, FirstIsAlone, OneSideInside
    <2> QED
      BY <2>6, <2>7
  <1>2. ASSUME NEW t \in Threads, RFirst(t) PROVE LockInv'
    <2>1. phase[t] = "first" /\ ~wLock /\ phase' = [phase EXCEPT ![t] = "reading"]
      BY <1>2 DEF RFirst
    <2>2. First = {t} /\ Writing = {}
      BY <2>1 DEF First, FirstIsAlone, OneSideInside
    <2>3. First' = {} /\ Reading' # {} /\ Writing' = {} /\ Inside' = Inside
      BY <2>1, <2>2 DEF First, Reading, Writing, Inside, LockTypeOK
    <2> QED
      BY <1>2, <2>3
         DEF RFirst, LockTypeOK, Phases, CountFits, FirstIsAlone, OneSideInside
  <1>3. ASSUME NEW t \in Threads, RTimeout(t) PROVE LockInv'
    <2>1. CASE UNCHANGED lockVars
      BY <2>1 DEF lockVars, LockTypeOK, CountFits, FirstIsAlone, OneSideInside,
                  First, Reading, Writing, Inside
    <2>2. CASE phase[t] = "first" /\ numR' = numR - 1 /\ numRLock' = {}
               /\ phase' = [phase EXCEPT ![t] = "out"] /\ UNCHANGED wLock
      <3>1. CountFits' /\ numR' \in Nat
        BY <2>2, Leaves DEF CountFits
      <3>2. First = {t}
        BY <2>2 DEF First, FirstIsAlone
      <3>3. First' = {} /\ Reading' = Reading /\ Writing' = Writing
        BY <2>2, <3>2 DEF First, Reading, Writing, LockTypeOK
      <3> QED
        BY <2>2, <3>1, <3>3 DEF LockTypeOK, Phases, FirstIsAlone, OneSideInside
    <2> QED
      BY <1>3, <2>1, <2>2 DEF RTimeout
  <1>4. ASSUME NEW t \in Threads, RRelease(t) PROVE LockInv'
    <2>1. phase[t] = "reading" /\ numRLock = {} /\ phase' = [phase EXCEPT ![t] = "out"]
          /\ numR' = numR - 1 /\ t \in Reading /\ t \in Inside
      BY <1>4 DEF RRelease, Reading, Inside
    <2>2. CountFits' /\ numR' \in Nat
      BY <2>1, Leaves DEF CountFits
    <2>3. wLock /\ Writing = {} /\ First = {}
      BY <2>1 DEF OneSideInside, FirstIsAlone
    <2>4. numRLock' = {} /\ (wLock' <=> numR # 1) /\ wLock' \in BOOLEAN
      BY <1>4, <2>3 DEF RRelease
    <2>5. First' = {} /\ Writing' = {} /\ Reading' = Reading \ {t} /\ Inside = Reading
      BY <2>1, <2>3 DEF First, Writing, Reading, Inside, LockTypeOK
    <2>6. numR = 1 <=> Reading' = {}
      BY <2>1, <2>5, LastInside
    <2> QED
      BY <2>1, <2>2, <2>4, <2>5, <2>6 DEF LockTypeOK, Phases, FirstIsAlone, OneSideInside
  <1>5. ASSUME NEW t \in Threads, WAcquire(t) PROVE LockInv'
    <2>1. Writing = {} /\ Reading = {}
      BY <1>5 DEF WAcquire, OneSideInside
    <2>2. Writing' = {t} /\ Reading' = {} /\ First' = First /\ Inside' = Inside
      BY <1>5, <2>1 DEF WAcquire, Writing, Reading, First, Inside, LockTypeOK
    <2> QED
      BY <1>5, <2>1, <2>2
         DEF WAcquire, LockTypeOK, Phases, CountFits, FirstIsAlone, OneSideInside
  <1>6. ASSUME NEW t \in Threads, phase[t] = "writing", WRelease(t) PROVE LockInv'
    <2>1. Writing = {t} /\ Reading = {}
      BY <1>6 DEF Writing, OneSideInside
    <2>2. Writing' = {} /\ Reading' = {} /\ First' = First /\ Inside' = Inside
      BY <1>6, <2>1 DEF WRelease, Writing, Reading, First, Inside, LockTypeOK
    <2> QED
      BY <1>6, <2>1, <2>2
         DEF WRelease, LockTypeOK, Phases, CountFits, FirstIsAlone, OneSideInside
  <1>7. CASE UNCHANGED lockVars
    BY <1>7 DEF lockVars, LockTypeOK, CountFits, FirstIsAlone, OneSideInside,
                First, Reading, Writing, Inside
  <1> QED
    BY <1>1, <1>2, <1>3, <1>4, <1>5, <1>6, <1>7 DEF LockNext, WTimeout

LEMMA LockInvAlways == LockSpec => []LockInv
  BY LockInvInit, LockInvStep, PTL DEF LockSpec

-----------------------------------------------------------------------------
(* The promises *)

LEMMA LockInvSuffices == LockInv => LockSafe
  <1> SUFFICES ASSUME LockInv PROVE WriterIsAlone /\ ReleaseNeverWaits
    BY DEF LockSafe
  <1>1. ReleaseNeverWaits
    BY DEF LockInv, FirstIsAlone, ReleaseNeverWaits
  <1>2. ASSUME Writing # {} PROVE Reading = {} /\ Cardinality(Writing) = 1
    <2>1. PICK t \in Writing : Writing = {t}
      BY <1>2 DEF LockInv, OneSideInside
    <2> QED
      BY <1>2, <2>1, FS_Singleton DEF LockInv, OneSideInside
  <1> QED
    BY <1>1, <1>2 DEF WriterIsAlone

\* Readers exclude writers and writers each other, and a reader that is done
\* never waits to leave: for any number of threads and any timeouts, in r_acquire
\* at either of its locks and in w_acquire.
THEOREM LockIsSafe == LockSpec => []LockSafe
  BY LockInvSuffices, LockInvAlways, PTL
-----------------------------------------------------------------------------
(* Over HTTP: the lock                                                     *)

\* The writer's lock stays taken from the end of one step to the middle of the
\* next; between allow and disallow nobody writes.
TrainerInTurn ==
  /\ trainer \in {"quorum", "allow", "decided", "optim"} =>
        disallowed /\ phase[Trainer] = "writing"
  /\ trainer \in {"lock", "raised"} => disallowed /\ phase[Trainer] = "out"
  /\ trainer = "train" => phase[Trainer] = IF disallowed THEN "writing" ELSE "out"

\* Handlers read, from their check on under the reader's lock.
HandlersInTurn ==
  \A k \in Keys :
    /\ phase[k] # "writing"
    /\ handler[k].state = "none" => phase[k] = "out"
    /\ handler[k].state \in {"sending", "done"} => phase[k] = "reading"

\* What TypeOK leaves out.
Shapes ==
  /\ config \in Configs
  /\ handler = [k \in Keys |-> handler[k]]
  /\ \A k \in Keys :
       handler[k] = [state |-> handler[k].state, step |-> handler[k].step,
                     sent |-> handler[k].sent]
  /\ recv = [step |-> recv.step, load |-> recv.load]
  /\ recv.load = [k \in DOMAIN recv.load |-> recv.load[k]]

HTTPLock == TypeOK /\ Shapes /\ LockInv /\ TrainerInTurn /\ HandlersInTurn

LEMMA TrainerIsNoKey == Trainer \in Threads /\ Trainer \notin Keys /\ Keys \subseteq Threads
  BY ThreadsAreTrainerAndHandlers, TransportAssumption

LEMMA HTTPLockInit == Init => HTTPLock
  <1> SUFFICES ASSUME Init PROVE HTTPLock
    OBVIOUS
  <1>0. NumTensors \in Nat /\ MaxStep \in Nat
    BY TransportAssumption
  <1>1. Writing = {Trainer} /\ Reading = {} /\ First = {} /\ Inside = {}
    BY TrainerIsNoKey DEF Init, Writing, Reading, First, Inside
  <1>2. CountFits
    BY <1>1, FS_EmptySet DEF Init, CountFits
  <1>3. LockTypeOK
    BY DEF Init, LockTypeOK, Phases
  <1>4. TypeOK
    BY <1>0, <1>3 DEF Init, TypeOK, NoRequest
  <1>5. LockInv
    BY <1>1, <1>2, <1>3 DEF Init, LockInv, FirstIsAlone, OneSideInside
  <1>6. TrainerInTurn /\ HandlersInTurn /\ Shapes
    BY TrainerIsNoKey DEF Init, TrainerInTurn, HandlersInTurn, Shapes, NoRequest
  <1> QED
    BY <1>4, <1>5, <1>6 DEF HTTPLock

\* Every step of the transport is one of the lock's, as its two context managers
\* use it, or does not touch it.
LEMMA TransportUsesLock ==
  ASSUME ~MayRetry, HTTPLock, Next PROVE [LockNext]_lockVars
  <1>1. ASSUME TrainerNext PROVE [LockNext]_lockVars
    <2>1. ASSUME AllowCheckpoint PROVE [LockNext]_lockVars
      BY <2>1, TrainerIsNoKey DEF HTTPLock, AllowCheckpoint, TrainerInTurn, LockNext, lockVars
    <2>2. ASSUME DisallowTakesLock PROVE [LockNext]_lockVars
      BY <2>2, TrainerIsNoKey DEF DisallowTakesLock, LockNext
    <2>3. ASSUME DisallowTimesOut PROVE [LockNext]_lockVars
      BY <2>3, TrainerIsNoKey DEF DisallowTimesOut, WTimeout
    <2> QED
      BY <1>1, <2>1, <2>2, <2>3
         DEF TrainerNext, SendCheckpoint, NothingToSend, Disallow, Discard, Commit, OptimStep
  <1>2. ASSUME NEW k \in Keys, HandlerNext(k) PROVE [LockNext]_lockVars
    <2>1. k \in Threads
      BY TrainerIsNoKey
    <2> QED
      BY <1>2, <2>1 DEF HandlerNext, EnterReader, HandlerTimesOut, CheckStep, SendValue,
                        EndAnswer, LeaveReader, LockNext
  <1> QED
    BY <1>1, <1>2 DEF Next, LoadTimesOut, StartRecv

LEMMA TrainerStep ==
  ASSUME ~MayRetry, HTTPLock, TrainerNext
  PROVE  TypeOK' /\ Shapes' /\ TrainerInTurn' /\ HandlersInTurn'
  <1>0. /\ TypeOK /\ Shapes /\ TrainerInTurn /\ HandlersInTurn
        /\ Trainer \in Threads /\ Trainer \notin Keys /\ Keys \subseteq Threads
        /\ NumTensors \in Nat /\ MaxStep \in Nat
    BY TrainerIsNoKey, TransportAssumption DEF HTTPLock
  <1>1. Shapes'
    BY <1>0 DEF TrainerNext, SendCheckpoint, AllowCheckpoint, NothingToSend, Disallow,
                DisallowTakesLock, DisallowTimesOut, Discard, Commit, OptimStep, recvVars, Shapes
  <1>2. ASSUME SendCheckpoint PROVE TypeOK' /\ TrainerInTurn' /\ HandlersInTurn'
    BY <1>0, <1>2 DEF SendCheckpoint, TypeOK, TrainerInTurn, HandlersInTurn, lockVars, LockTypeOK
  <1>3. ASSUME AllowCheckpoint PROVE TypeOK' /\ TrainerInTurn' /\ HandlersInTurn'
    <2>1. WRelease(Trainer) /\ step' = now /\ disallowed' = FALSE /\ trainer' = "train"
      BY <1>0, <1>3 DEF AllowCheckpoint, TrainerInTurn
    <2>2. LockTypeOK' /\ phase'[Trainer] = "out" /\ \A k \in Keys : phase'[k] = phase[k]
      BY <1>0, <2>1 DEF WRelease, TypeOK, LockTypeOK, Phases
    <2>3. UNCHANGED <<staged, now, weights, handler>>
      BY <1>3 DEF AllowCheckpoint
    <2>6. now \in 0 .. MaxStep /\ step' \in 0 .. MaxStep + 1
      BY <1>0, <2>1 DEF TypeOK
    <2>4. TypeOK'
      BY <1>0, <2>1, <2>2, <2>3, <2>6 DEF TypeOK
    <2>5. TrainerInTurn' /\ HandlersInTurn'
      BY <1>0, <2>1, <2>2, <2>3 DEF TrainerInTurn, HandlersInTurn
    <2> QED
      BY <2>4, <2>5
  <1>4. ASSUME NothingToSend \/ Disallow \/ Discard \/ Commit
        PROVE  TypeOK' /\ TrainerInTurn' /\ HandlersInTurn'
    <2>1. UNCHANGED lockVars /\ UNCHANGED <<step, staged, weights, handler>>
      BY <1>4 DEF NothingToSend, Disallow, Discard, Commit, serverVars
    <2>2. LockTypeOK' /\ HandlersInTurn' /\ phase' = phase
      BY <1>0, <2>1 DEF lockVars, HandlersInTurn, TypeOK, LockTypeOK
    <2>3. TrainerInTurn'
      BY <1>0, <1>4, <2>2
         DEF NothingToSend, Disallow, Discard, Commit, serverVars, TrainerInTurn
    <2>4. now' \in 0 .. MaxStep /\ disallowed' \in BOOLEAN
          /\ trainer' \in {"quorum", "train", "lock", "decided", "optim"}
      <3>1. now \in 0 .. MaxStep /\ disallowed \in BOOLEAN
        BY <1>0 DEF TypeOK
      <3>2. CASE NothingToSend \/ Disallow \/ Discard
        BY <3>1, <3>2 DEF NothingToSend, Disallow, Discard, serverVars
      <3>3. CASE Commit
        BY <1>0, <3>1, <3>3 DEF Commit, serverVars
      <3> QED
        BY <1>4, <3>2, <3>3
    <2>5. TypeOK'
      BY <1>0, <2>1, <2>2, <2>4 DEF TypeOK
    <2> QED
      BY <2>2, <2>3, <2>5
  <1>5. ASSUME DisallowTakesLock PROVE TypeOK' /\ TrainerInTurn' /\ HandlersInTurn'
    <2>1. WAcquire(Trainer) /\ trainer = "lock" /\ trainer' = "decided"
      BY <1>5 DEF DisallowTakesLock
    <2>2. LockTypeOK' /\ phase'[Trainer] = "writing" /\ \A k \in Keys : phase'[k] = phase[k]
      BY <1>0, <2>1 DEF WAcquire, TypeOK, LockTypeOK, Phases
    <2> QED
      BY <1>0, <1>5, <2>1, <2>2
         DEF DisallowTakesLock, serverVars, TypeOK, TrainerInTurn, HandlersInTurn
  <1>6. ASSUME DisallowTimesOut PROVE TypeOK' /\ TrainerInTurn' /\ HandlersInTurn'
    BY <1>0, <1>6 DEF DisallowTimesOut, WTimeout, serverVars, lockVars,
                      TypeOK, TrainerInTurn, HandlersInTurn, LockTypeOK
  <1>7. ASSUME NEW i \in Tensors, OptimStep(i)
        PROVE  TypeOK' /\ TrainerInTurn' /\ HandlersInTurn'
    BY <1>0, <1>7 DEF OptimStep, serverVars, lockVars,
                      TypeOK, TrainerInTurn, HandlersInTurn, LockTypeOK
  <1> QED
    BY <1>1, <1>2, <1>3, <1>4, <1>5, <1>6, <1>7 DEF TrainerNext

\* A request is replaced, and an answer may reach the receiver.
LEMMA HandleShapes ==
  ASSUME Shapes, NEW k \in Keys, NEW request, NEW answer, Handle(k, request, answer),
         request = [state |-> request.state, step |-> request.step, sent |-> request.sent]
  PROVE  /\ Shapes'
         /\ handler'[k] = request
         /\ \A x \in Keys \ {k} : handler'[x] = handler[x]
  BY DEF Handle, Shapes

LEMMA HandlerStep ==
  ASSUME HTTPLock, LockTypeOK', NEW k \in Keys, HandlerNext(k)
  PROVE  TypeOK' /\ Shapes' /\ TrainerInTurn' /\ HandlersInTurn'
  <1>0. /\ TypeOK /\ Shapes /\ TrainerInTurn /\ HandlersInTurn /\ LockTypeOK
        /\ Trainer \in Threads /\ Trainer \notin Keys /\ k \in Threads
        /\ NumTensors \in Nat /\ MaxStep \in Nat /\ Keys \subseteq Threads
    BY TrainerIsNoKey, TransportAssumption DEF HTTPLock, TypeOK
  <1>1. ASSUME Shapes', UNCHANGED serverVars, UNCHANGED trainVars,
               \A t \in Threads \ {k} : phase'[t] = phase[t],
               \A x \in Keys \ {k} : handler'[x] = handler[x],
               handler'[k].state \in {"none", "new", "sending", "done"},
               phase'[k] # "writing",
               handler'[k].state = "none" => phase'[k] = "out",
               handler'[k].state \in {"sending", "done"} => phase'[k] = "reading"
        PROVE  TypeOK' /\ Shapes' /\ TrainerInTurn' /\ HandlersInTurn'
    <2>1. TypeOK'
      BY <1>0, <1>1 DEF TypeOK, serverVars, trainVars
    <2>2. TrainerInTurn'
      BY <1>0, <1>1 DEF TrainerInTurn, serverVars, trainVars
    <2>3. HandlersInTurn'
      BY <1>0, <1>1 DEF HandlersInTurn
    <2> QED
      BY <1>1, <2>1, <2>2, <2>3
  <1>2. CASE EnterReader(k)
    <2>1. Shapes' /\ handler' = handler /\ handler[k].state = "new"
          /\ UNCHANGED serverVars /\ UNCHANGED trainVars
      BY <1>0, <1>2 DEF EnterReader, Shapes, recvVars
    <2>2. phase'[k] # "writing" /\ \A t \in Threads \ {k} : phase'[t] = phase[t]
      BY <1>0, <1>2 DEF EnterReader, REnter, RFirst, LockTypeOK, Phases
    <2> QED
      BY <1>0, <1>1, <2>1, <2>2
  <1>3. CASE HandlerTimesOut(k)
    <2>1. NoRequest = [state |-> NoRequest.state, step |-> NoRequest.step,
                       sent |-> NoRequest.sent] /\ NoRequest.state = "none"
      BY DEF NoRequest
    <2>2. Shapes' /\ handler'[k] = NoRequest /\ \A x \in Keys \ {k} : handler'[x] = handler[x]
      BY <1>0, <1>3, <2>1, HandleShapes DEF HandlerTimesOut
    <2>3. phase'[k] = "out" /\ \A t \in Threads \ {k} : phase'[t] = phase[t]
      BY <1>0, <1>3 DEF HandlerTimesOut, RTimeout, LockTypeOK, lockVars
    <2> QED
      BY <1>0, <1>1, <1>3, <2>1, <2>2, <2>3 DEF HandlerTimesOut, Handle
  <1>4. ASSUME NEW request, NEW answer, Handle(k, request, answer), UNCHANGED lockVars,
               request = [state |-> request.state, step |-> request.step,
                          sent |-> request.sent],
               request.state \in {"sending", "done"}, phase[k] = "reading"
        PROVE  TypeOK' /\ Shapes' /\ TrainerInTurn' /\ HandlersInTurn'
    <2>1. Shapes' /\ handler'[k] = request /\ \A x \in Keys \ {k} : handler'[x] = handler[x]
      BY <1>0, <1>4, HandleShapes
    <2>2. phase' = phase
      BY <1>4 DEF lockVars
    <2> QED
      BY <1>0, <1>1, <1>4, <2>1, <2>2 DEF Handle
  <1>5. handler[k] = [state |-> handler[k].state, step |-> handler[k].step,
                      sent |-> handler[k].sent]
    BY <1>0 DEF Shapes
  <1>6. CASE CheckStep(k)
    <2>3. PICK next \in {"sending", "done"} :
             \E answer : Handle(k, [handler[k] EXCEPT !.state = next], answer)
      BY <1>6 DEF CheckStep
    <2>1. PICK answer : Handle(k, [handler[k] EXCEPT !.state = next], answer)
      BY <2>3
    <2> DEFINE request == [handler[k] EXCEPT !.state = next]
    <2>2. request = [state |-> next, step |-> handler[k].step, sent |-> handler[k].sent]
      BY <1>5
    <2> QED
      BY <1>4, <1>6, <2>1, <2>2 DEF CheckStep
  <1>7. CASE SendValue(k)
    <2>1. PICK sent : Handle(k, [handler[k] EXCEPT !.sent = sent], <<>>)
      BY <1>7 DEF SendValue
    <2> DEFINE request == [handler[k] EXCEPT !.sent = sent]
    <2>2. request = [state |-> handler[k].state, step |-> handler[k].step, sent |-> sent]
      BY <1>5
    <2>3. handler[k].state = "sending" /\ phase[k] = "reading" /\ UNCHANGED lockVars
      BY <1>0, <1>7 DEF SendValue, HandlersInTurn
    <2> QED
      BY <1>4, <2>1, <2>2, <2>3
  <1>8. CASE EndAnswer(k)
    <2>1. PICK answer : Handle(k, [handler[k] EXCEPT !.state = "done"], answer)
      BY <1>8 DEF EndAnswer
    <2> DEFINE request == [handler[k] EXCEPT !.state = "done"]
    <2>2. request = [state |-> "done", step |-> handler[k].step, sent |-> handler[k].sent]
      BY <1>5
    <2>3. phase[k] = "reading" /\ UNCHANGED lockVars
      BY <1>0, <1>8 DEF EndAnswer, HandlersInTurn
    <2> QED
      BY <1>4, <2>1, <2>2, <2>3
  <1>9. CASE LeaveReader(k)
    <2>1. NoRequest = [state |-> NoRequest.state, step |-> NoRequest.step,
                       sent |-> NoRequest.sent] /\ NoRequest.state = "none"
      BY DEF NoRequest
    <2>2. Shapes' /\ handler'[k] = NoRequest /\ \A x \in Keys \ {k} : handler'[x] = handler[x]
      BY <1>0, <1>9, <2>1, HandleShapes DEF LeaveReader
    <2>3. phase'[k] = "out" /\ \A t \in Threads \ {k} : phase'[t] = phase[t]
      BY <1>0, <1>9 DEF LeaveReader, RRelease, LockTypeOK
    <2> QED
      BY <1>0, <1>1, <1>9, <2>1, <2>2, <2>3 DEF LeaveReader, Handle
  <1> QED
    BY <1>2, <1>3, <1>6, <1>7, <1>8, <1>9 DEF HandlerNext

LEMMA HTTPLockStep ==
  ASSUME ~MayRetry, HTTPLock, [Next]_vars PROVE HTTPLock'
  <1>1. CASE Next
    <2>1. LockInv'
      BY <1>1, TransportUsesLock, LockInvStep DEF HTTPLock
    <2>2. LockTypeOK'
      BY <2>1 DEF LockInv
    <2>3. ASSUME NEW k \in Keys, LoadTimesOut(k) \/ StartRecv
          PROVE  TypeOK' /\ Shapes' /\ TrainerInTurn' /\ HandlersInTurn'
      <3>1. /\ TypeOK /\ Shapes /\ TrainerInTurn /\ HandlersInTurn
            /\ UNCHANGED lockVars /\ UNCHANGED <<config, serverVars, trainVars>>
        BY <2>3 DEF HTTPLock, LoadTimesOut, StartRecv
      <3>2. Shapes' /\ \A x \in Keys : \/ handler'[x] = handler[x]
                                       \/ handler'[x].state = "new" /\ phase[x] = "out"
        <4>1. CASE LoadTimesOut(k)
          BY <3>1, <4>1 DEF LoadTimesOut, Shapes
        <4>2. CASE StartRecv
          <5>1. \A x \in Keys : handler'[x] = IF x \in Used
                                  THEN [state |-> "new", step |-> now, sent |-> <<>>]
                                  ELSE handler[x]
            BY <4>2 DEF StartRecv
          <5>2. handler' = [x \in Keys |-> handler'[x]]
            BY <4>2 DEF StartRecv
          <5>3. recv' = [step |-> now, load |-> [x \in Used |-> <<>>]]
            BY <4>2 DEF StartRecv
          <5>4. \A x \in Used : phase[x] = "out"
            BY <4>2 DEF StartRecv
          <5> QED
            BY <3>1, <5>1, <5>2, <5>3, <5>4 DEF Shapes
        <4> QED
          BY <2>3, <4>1, <4>2
      <3>3. TypeOK'
        BY <2>2, <3>1, <3>2 DEF TypeOK, serverVars, trainVars
      <3>4. TrainerInTurn' /\ HandlersInTurn'
        BY <3>1, <3>2 DEF TrainerInTurn, HandlersInTurn, serverVars, trainVars, lockVars
      <3> QED
        BY <3>2, <3>3, <3>4
    <2> QED
      BY <1>1, <2>1, <2>2, <2>3, TrainerStep, HandlerStep DEF Next, HTTPLock, Keys
  <1>2. CASE UNCHANGED vars
    <2>1. TypeOK' /\ Shapes' /\ TrainerInTurn' /\ HandlersInTurn'
      BY <1>2 DEF HTTPLock, vars, lockVars, serverVars, trainVars, recvVars, TypeOK,
                  LockTypeOK, Shapes, TrainerInTurn, HandlersInTurn
    <2>2. LockInv'
      BY <1>2, LockInvStep DEF HTTPLock, vars
    <2> QED
      BY <2>1, <2>2 DEF HTTPLock
  <1> QED
    BY <1>1, <1>2

-----------------------------------------------------------------------------
(* Over HTTP: what is served                                               *)

\* While the checkpoint may be read, it and the weights are of the step it is
\* served for.
Served ==
  /\ trainer # "optim" => weights = [i \in Tensors |-> now]
  /\ trainer = "allow" => staged = weights
  /\ phase[Trainer] = "out" => step = now /\ staged = weights

\* A value of the state dict as it is sent.
Values(k) == {<<Content(k)[p], s>> : p \in Nat, s \in 0 .. MaxStep}

\* What a handler has sent so far.
Answering ==
  \A k \in Keys :
    /\ handler[k].state = "new" => handler[k].sent = <<>>
    /\ handler[k].state = "sending" =>
         /\ handler[k].step = step
         /\ handler[k].sent \in Seq(Values(k))
         /\ \A p \in 1 .. Len(handler[k].sent) :
              handler[k].sent[p] = <<Content(k)[p], step>>

\* The answer to a request for key k at step s.
Whole(k, s) == <<1, [p \in 1 .. Len(Content(k)) |-> <<Content(k)[p], s>>]>>

\* The requests at the server are those of the last recv_checkpoint, and what it
\* has loaded is whole.
Loads ==
  /\ recvs \in Nat /\ recv.step \in 0 .. MaxStep
  /\ recvs > 0 => DOMAIN recv.load = Used
  /\ DOMAIN recv.load \subseteq Keys
  /\ \A k \in Keys : handler[k].state # "none" =>
       k \in Used /\ handler[k].step = recv.step
  /\ \A k \in DOMAIN recv.load : recv.load[k] \in {<<>>, Error, Whole(k, recv.step)}

CheckpointInv == HTTPLock /\ Served /\ Answering /\ Loads

\* Whoever sends has the trainer kept out.
LEMMA SendersKeepOut ==
  ASSUME HTTPLock, NEW k \in Keys, phase[k] = "reading"
  PROVE  phase[Trainer] = "out" /\ trainer \in {"train", "lock", "raised"}
  <1>1. k \in Reading /\ Trainer \in Threads
    BY TrainerIsNoKey DEF Reading
  <1>2. phase[Trainer] # "writing"
    BY <1>1 DEF HTTPLock, LockInv, OneSideInside, Writing
  <1> QED
    BY <1>2 DEF HTTPLock, TypeOK, TrainerInTurn

LEMMA UsedAreKeys == ASSUME HTTPLock PROVE Used \subseteq Keys
  <1>1. config \in [chunks : 0 .. Len(Chunk), onCpu : BOOLEAN] /\ Chunk \in Seq(STRING)
    BY TransportAssumption DEF HTTPLock, Shapes
  <1>2. \A i \in 1 .. config.chunks : i \in DOMAIN Chunk
    BY <1>1
  <1> QED
    BY <1>2 DEF Used, Keys

\* A key stands for values of the state dict.
LEMMA ContentIsTensors ==
  ASSUME HTTPLock, NEW k \in Used PROVE Content(k) \in Seq(Tensors)
  <1>0. NumTensors \in Nat
    BY TransportAssumption
  <1>1. config \in Configs /\ config \in [chunks : 0 .. Len(Chunk), onCpu : BOOLEAN]
        /\ Chunk \in Seq(STRING)
    BY TransportAssumption DEF HTTPLock, Shapes
  <1>2. CASE k = FullKey
    BY <1>0, <1>2 DEF Content, Tensors
  <1>3. CASE k = SpecKey
    BY <1>3 DEF Content, FullKey, SpecKey
  <1>4. CASE k \notin {FullKey, SpecKey}
    <2>1. config.chunks # 0 /\ config.chunks \in Nat
      BY <1>1, <1>4 DEF Used
    <2>2. PICK i \in 1 .. config.chunks : k = Chunk[i]
      BY <1>4, <2>1 DEF Used
    <2>3. i \in DOMAIN Chunk
      BY <1>1, <2>1, <2>2
    <2>4. (CHOOSE j \in DOMAIN Chunk : Chunk[j] = k) = i
      BY <2>2, <2>3, TransportAssumption DEF IsInjective
    <2>5. Content(k) = SplitChunk(i, config.chunks)
      BY <1>4, <2>4 DEF Content
    <2> QED
      BY <1>1, <2>1, <2>2, <2>5, ChunksMerge DEF MergeUndoesSplit
  <1> QED
    BY <1>2, <1>3, <1>4

LEMMA CheckpointInit == Init => CheckpointInv
  <1> SUFFICES ASSUME Init PROVE CheckpointInv
    OBVIOUS
  <1>0. NumTensors \in Nat /\ MaxStep \in Nat
    BY TransportAssumption
  <1>1. HTTPLock
    BY HTTPLockInit
  <1>2. Served
    BY <1>0, TrainerIsNoKey DEF Init, Served
  <1>3. Answering /\ Loads
    BY <1>0 DEF Init, Answering, Loads, NoRequest
  <1> QED
    BY <1>1, <1>2, <1>3 DEF CheckpointInv

\* The keys and what they stand for do not change.
LEMMA KeysFixed ==
  ASSUME config' = config PROVE Used' = Used /\ \A k : Content(k)' = Content(k)
  <1>1. Used' = Used
    BY DEF Used
  <1>2. ASSUME NEW k PROVE Content(k)' = Content(k)
    BY DEF Content
  <1> QED
    BY <1>1, <1>2

LEMMA TrainerServes ==
  ASSUME ~MayRetry, CheckpointInv, TrainerNext
  PROVE  Served' /\ Answering' /\ Loads'
  <1>0. /\ HTTPLock /\ Served /\ Answering /\ Loads
        /\ TypeOK /\ TrainerInTurn /\ HandlersInTurn /\ LockTypeOK
        /\ Trainer \in Threads /\ NumTensors \in Nat /\ MaxStep \in Nat
        /\ weights \in [Tensors -> 0 .. MaxStep]
    BY TrainerIsNoKey, TransportAssumption DEF CheckpointInv, HTTPLock, TypeOK
  <1>1. UNCHANGED <<config, handler, recv, recvs>>
    BY <1>0 DEF TrainerNext, SendCheckpoint, AllowCheckpoint, NothingToSend, Disallow,
                DisallowTakesLock, DisallowTimesOut, Discard, Commit, OptimStep, recvVars
  <1>2. Loads'
    BY <1>0, <1>1, KeysFixed DEF Loads, Whole
  <1>3. step' = step \/ phase[Trainer] = "writing"
    BY <1>0 DEF TrainerNext, SendCheckpoint, AllowCheckpoint, NothingToSend, Disallow,
                DisallowTakesLock, DisallowTimesOut, Discard, Commit, OptimStep,
                serverVars, TrainerInTurn
  <1>4. \A k \in Keys : handler[k].state = "sending" => step' = step
    <2> SUFFICES ASSUME NEW k \in Keys, handler[k].state = "sending" PROVE step' = step
      OBVIOUS
    <2>1. phase[k] = "reading"
      BY <1>0 DEF HandlersInTurn
    <2> QED
      BY <1>0, <1>3, <2>1, SendersKeepOut
  <1>5. Answering'
    <2> SUFFICES ASSUME NEW k \in Keys
                 PROVE  /\ handler[k].state = "new" => handler[k].sent = <<>>
                        /\ handler[k].state = "sending" =>
                             /\ handler[k].step = step'
                             /\ handler[k].sent \in Seq(Values(k)')
                             /\ \A p \in 1 .. Len(handler[k].sent) :
                                  handler[k].sent[p] = <<Content(k)'[p], step'>>
      BY <1>1 DEF Answering
    <2>1. Content(k)' = Content(k)
      BY <1>1, KeysFixed
    <2>2. Values(k)' = Values(k)
      BY <2>1 DEF Values
    <2> QED
      BY <1>0, <1>4, <2>1, <2>2 DEF Answering
  <1>6. ASSUME SendCheckpoint PROVE Served'
    BY <1>0, <1>6 DEF SendCheckpoint, Served, TrainerInTurn, lockVars
  <1>7. ASSUME AllowCheckpoint PROVE Served'
    BY <1>0, <1>7 DEF AllowCheckpoint, Served
  <1>8. ASSUME NothingToSend \/ Disallow \/ Discard PROVE Served'
    BY <1>0, <1>8 DEF NothingToSend, Disallow, Discard, Served, serverVars, lockVars
  <1>9. ASSUME Commit PROVE Served'
    BY <1>0, <1>9 DEF Commit, Served, TrainerInTurn, serverVars, lockVars
  <1>10. ASSUME DisallowTakesLock PROVE Served'
    BY <1>0, <1>10 DEF DisallowTakesLock, WAcquire, Served, serverVars, LockTypeOK
  <1>11. ASSUME DisallowTimesOut PROVE Served'
    BY <1>0, <1>11 DEF DisallowTimesOut, WTimeout, Served, serverVars, lockVars
  <1>12. ASSUME NEW i \in Tensors, OptimStep(i) PROVE Served'
    <2>1. phase' = phase /\ phase[Trainer] = "writing" /\ trainer' \in {"quorum", "optim"}
      BY <1>0, <1>12 DEF OptimStep, TrainerInTurn, lockVars
    <2>2. weights' = [weights EXCEPT ![i] = now] /\ now' = now
      BY <1>12 DEF OptimStep
    <2>3. trainer' # "optim" => \A j \in Tensors \ {i} : weights[j] = now
      BY <1>12 DEF OptimStep
    <2>4. trainer' # "optim" => weights' = [j \in Tensors |-> now]
      BY <1>0, <2>2, <2>3
    <2> QED
      BY <2>1, <2>2, <2>4 DEF Served
  <1>13. Served'
    BY <1>6, <1>7, <1>8, <1>9, <1>10, <1>11, <1>12 DEF TrainerNext
  <1> QED
    BY <1>2, <1>5, <1>13

LEMMA AnswerReaches ==
  ASSUME Shapes, Loads, NEW k \in Keys, NEW request, NEW answer,
         Handle(k, request, answer),
         handler'[k] = request, \A x \in Keys \ {k} : handler'[x] = handler[x],
         request.state # "none" =>
            handler[k].state # "none" /\ request.step = handler[k].step,
         answer \in {<<>>, Error, Whole(k, recv.step)}
  PROVE  Loads'
  <1>1. UNCHANGED <<config, recvs>>
    BY DEF Handle
  <1>2. recv'.step = recv.step /\ DOMAIN recv'.load = DOMAIN recv.load
        /\ \A x \in DOMAIN recv.load : \/ recv'.load[x] = recv.load[x]
                                       \/ x = k /\ recv'.load[x] = answer
    BY DEF Handle, Shapes
  <1>3. Used' = Used /\ \A x : Content(x)' = Content(x)
    BY <1>1, KeysFixed
  <1>4. \A x \in Keys : handler'[x].state # "none" =>
           handler[x].state # "none" /\ handler'[x].step = handler[x].step
    OBVIOUS
  <1>5. \A x \in DOMAIN recv'.load : recv'.load[x] \in {<<>>, Error, Whole(x, recv'.step)}
    BY <1>2 DEF Loads
  <1> QED
    BY <1>1, <1>2, <1>3, <1>4, <1>5 DEF Loads, Whole

\* What is sent is a value of the step that was asked for.
LEMMA NextValue ==
  ASSUME CheckpointInv, NEW k \in Keys, handler[k].state = "sending",
         Len(handler[k].sent) < Len(Content(k))
  PROVE  LET i == Content(k)[Len(handler[k].sent) + 1]
         IN  (IF config.onCpu THEN weights[i] ELSE staged[i]) = step
  <1>1. phase[k] = "reading" /\ k \in Used /\ HTTPLock /\ Served
        /\ handler[k].sent \in Seq(Values(k))
    BY DEF CheckpointInv, HTTPLock, HandlersInTurn, Loads, Answering
  <1>2. step = now /\ staged = weights /\ weights = [j \in Tensors |-> now]
    BY <1>1, SendersKeepOut DEF Served
  <1>3. Content(k)[Len(handler[k].sent) + 1] \in Tensors
    BY <1>1, ContentIsTensors
  <1> QED
    BY <1>2, <1>3

LEMMA HandlerServes ==
  ASSUME CheckpointInv, NEW k \in Keys, HandlerNext(k)
  PROVE  Served' /\ Answering' /\ Loads'
  <1>0. /\ HTTPLock /\ Served /\ Answering /\ Loads /\ Shapes /\ LockTypeOK
        /\ Trainer \in Threads /\ Trainer \notin Keys
        /\ NumTensors \in Nat /\ MaxStep \in Nat /\ step \in 0 .. MaxStep + 1
        /\ now \in 0 .. MaxStep
    BY TrainerIsNoKey, TransportAssumption DEF CheckpointInv, HTTPLock, TypeOK
  <1>1. UNCHANGED <<config, serverVars, trainVars, recvs>>
    BY DEF HandlerNext, EnterReader, HandlerTimesOut, CheckStep, SendValue, EndAnswer,
           LeaveReader, Handle, recvVars
  <1>2. phase'[Trainer] = phase[Trainer]
    BY <1>0 DEF HandlerNext, EnterReader, HandlerTimesOut, CheckStep, SendValue, EndAnswer,
                LeaveReader, REnter, RFirst, RTimeout, RRelease, lockVars, LockTypeOK
  <1>3. Served'
    BY <1>0, <1>1, <1>2 DEF Served, serverVars, trainVars
  <1>4. Content(k)' = Content(k) /\ \A x \in Keys : Content(x)' = Content(x)
    BY <1>1, KeysFixed
  <1>5. handler[k] = [state |-> handler[k].state, step |-> handler[k].step,
                      sent |-> handler[k].sent]
    BY <1>0 DEF Shapes
  <1>6. ASSUME NEW request, NEW answer, Handle(k, request, answer),
               request = [state |-> request.state, step |-> request.step,
                          sent |-> request.sent],
               request.state # "new",
               request.state # "none" =>
                  handler[k].state # "none" /\ request.step = handler[k].step,
               request.state = "sending" =>
                  /\ request.step = step
                  /\ request.sent \in Seq(Values(k))
                  /\ \A p \in 1 .. Len(request.sent) :
                       request.sent[p] = <<Content(k)[p], step>>,
               answer \in {<<>>, Error, Whole(k, recv.step)}
        PROVE  Answering' /\ Loads'
    <2>1. handler'[k] = request /\ \A x \in Keys \ {k} : handler'[x] = handler[x]
      BY <1>0, <1>6, HandleShapes
    <2>2. Loads'
      BY <1>0, <1>6, <2>1, AnswerReaches
    <2>3. ASSUME NEW x \in Keys
          PROVE  /\ handler'[x].state = "new" => handler'[x].sent = <<>>
                 /\ handler'[x].state = "sending" =>
                      /\ handler'[x].step = step
                      /\ handler'[x].sent \in Seq(Values(x)')
                      /\ \A p \in 1 .. Len(handler'[x].sent) :
                           handler'[x].sent[p] = <<Content(x)'[p], step>>
      <3>1. Content(x)' = Content(x)
        BY <1>4
      <3>2. Values(x)' = Values(x)
        BY <3>1 DEF Values
      <3>3. CASE x = k
        BY <1>6, <2>1, <3>1, <3>2, <3>3
      <3>4. CASE x # k
        BY <1>0, <2>1, <3>1, <3>2, <3>4 DEF Answering
      <3> QED
        BY <3>3, <3>4
    <2> QED
      BY <1>1, <2>2, <2>3 DEF Answering, serverVars
  <1>7. NoRequest = [state |-> "none", step |-> 0, sent |-> <<>>]
    BY DEF NoRequest
  <1>8. CASE EnterReader(k)
    <2>1. UNCHANGED <<handler, recv>>
      BY <1>8 DEF EnterReader, recvVars
    <2>2. Loads'
      BY <1>0, <1>1, <2>1, KeysFixed DEF Loads, Whole
    <2>3. \A x \in Keys : Values(x)' = Values(x)
      BY <1>4 DEF Values
    <2>4. Answering'
      BY <1>0, <1>1, <1>4, <2>1, <2>3 DEF Answering, serverVars
    <2> QED
      BY <1>3, <2>2, <2>4
  <1>9. CASE HandlerTimesOut(k)
    BY <1>3, <1>6, <1>7, <1>9 DEF HandlerTimesOut
  <1>10. CASE LeaveReader(k)
    BY <1>3, <1>6, <1>7, <1>10 DEF LeaveReader
  <1>11. CASE CheckStep(k)
    <2> DEFINE request(s) == [handler[k] EXCEPT !.state = s]
    <2>1. \A s : request(s) = [state |-> s, step |-> handler[k].step, sent |-> handler[k].sent]
      BY <1>5
    <2>2. handler[k].state = "new" /\ handler[k].sent = <<>>
      BY <1>0, <1>11 DEF CheckStep, Answering
    <2>3. CASE handler[k].step = step
      <3>1. Handle(k, request("sending"), <<>>)
        BY <1>11, <2>3 DEF CheckStep
      <3> HIDE DEF request
      <3>2. <<>> \in Seq(Values(k)) /\ \A p \in 1 .. Len(<<>>) : FALSE
        OBVIOUS
      <3> QED
        BY <1>3, <1>6, <2>1, <2>2, <2>3, <3>1, <3>2
    <2>4. CASE handler[k].step # step
      <3>1. Handle(k, request("done"), Error)
        BY <1>11, <2>4 DEF CheckStep
      <3> HIDE DEF request
      <3> QED
        BY <1>3, <1>6, <2>1, <2>2, <3>1
    <2> QED
      BY <2>3, <2>4
  <1>12. CASE SendValue(k)
    <2> DEFINE sent == handler[k].sent
               value == <<Content(k)[Len(sent) + 1], step>>
    <2>1. handler[k].state = "sending" /\ Len(sent) < Len(Content(k))
          /\ handler[k].step = step /\ sent \in Seq(Values(k))
          /\ \A p \in 1 .. Len(sent) : sent[p] = <<Content(k)[p], step>>
      BY <1>0, <1>12 DEF SendValue, Answering
    <2>2. Handle(k, [handler[k] EXCEPT !.sent = Append(sent, value)], <<>>)
      BY <1>12, <2>1, NextValue DEF SendValue
    <2>7. \A next : [handler[k] EXCEPT !.sent = next]
                      = [state |-> handler[k].state, step |-> handler[k].step, sent |-> next]
      BY <1>5
    <2>3. [handler[k] EXCEPT !.sent = Append(sent, value)]
             = [state |-> "sending", step |-> step, sent |-> Append(sent, value)]
      BY <2>1, <2>7
    <2>4. step = now
      <3>1. phase[k] = "reading"
        BY <1>0, <2>1 DEF HTTPLock, HandlersInTurn
      <3> QED
        BY <1>0, <3>1, SendersKeepOut DEF Served
    <2>5. value \in Values(k)
      BY <1>0, <2>1, <2>4 DEF Values
    <2>6. Append(sent, value) \in Seq(Values(k))
          /\ \A p \in 1 .. Len(Append(sent, value)) :
               Append(sent, value)[p] = <<Content(k)[p], step>>
      BY <2>1, <2>5
    <2> QED
      BY <1>3, <1>6, <2>1, <2>2, <2>3, <2>6
  <1>13. CASE EndAnswer(k)
    <2> DEFINE sent == handler[k].sent
    <2>1. handler[k].state = "sending" /\ Len(sent) = Len(Content(k))
          /\ handler[k].step = step /\ sent \in Seq(Values(k))
          /\ \A p \in 1 .. Len(sent) : sent[p] = <<Content(k)[p], step>>
      BY <1>0, <1>13 DEF EndAnswer, Answering
    <2>2. Handle(k, [handler[k] EXCEPT !.state = "done"], <<1, sent>>)
      BY <1>13 DEF EndAnswer
    <2>3. [handler[k] EXCEPT !.state = "done"]
             = [state |-> "done", step |-> step, sent |-> sent]
      BY <1>5, <2>1
    <2>4. step = recv.step
      BY <1>0, <2>1 DEF Loads
    <2>7. \A S : \A q \in Seq(S) : q = [p \in 1 .. Len(q) |-> q[p]]
      OBVIOUS
    <2>8. sent = [p \in 1 .. Len(sent) |-> sent[p]]
      BY <2>1, <2>7
    <2>5. sent = [p \in 1 .. Len(Content(k)) |-> <<Content(k)[p], step>>]
      <3> HIDE DEF sent
      <3> QED
        BY <2>1, <2>8
    <2>6. <<1, sent>> = Whole(k, recv.step)
      BY <2>4, <2>5 DEF Whole
    <2> QED
      BY <1>3, <1>6, <2>1, <2>2, <2>3, <2>6
  <1> QED
    BY <1>8, <1>9, <1>10, <1>11, <1>12, <1>13 DEF HandlerNext

LEMMA ReceiverServes ==
  ASSUME CheckpointInv, NEW k \in Keys, LoadTimesOut(k) \/ StartRecv
  PROVE  Served' /\ Answering' /\ Loads'
  <1>0. /\ HTTPLock /\ Served /\ Answering /\ Loads /\ Shapes
        /\ UNCHANGED <<lockVars, config, serverVars, trainVars>>
        /\ Used \subseteq Keys
        /\ now \in 0 .. MaxStep
    BY UsedAreKeys DEF CheckpointInv, HTTPLock, TypeOK, LoadTimesOut, StartRecv
  <1>1. Served'
    BY <1>0 DEF Served, lockVars, serverVars, trainVars
  <1>2. \A x \in Keys : Content(x)' = Content(x)
    BY <1>0, KeysFixed
  <1>3. \A x \in Keys : Values(x)' = Values(x)
    BY <1>2 DEF Values
  <1>4. CASE LoadTimesOut(k)
    <2>1. handler' = handler /\ recvs' = recvs
      BY <1>4 DEF LoadTimesOut
    <2>2. recv'.step = recv.step /\ DOMAIN recv'.load = DOMAIN recv.load
          /\ \A x \in DOMAIN recv.load : recv'.load[x] \in {recv.load[x], Error}
      BY <1>0, <1>4 DEF LoadTimesOut, Shapes
    <2>3. Answering'
      BY <1>0, <1>2, <1>3, <2>1 DEF Answering, serverVars
    <2>4. Loads'
      BY <1>0, <2>1, <2>2, KeysFixed DEF Loads, Whole
    <2> QED
      BY <1>1, <2>3, <2>4
  <1>5. CASE StartRecv
    <2>1. \A x \in Keys : handler'[x] = IF x \in Used
                            THEN [state |-> "new", step |-> now, sent |-> <<>>]
                            ELSE handler[x]
      BY <1>5 DEF StartRecv
    <2>2. recv'.step = now /\ recv'.load = [x \in Used |-> <<>>] /\ recvs' = recvs + 1
      BY <1>5 DEF StartRecv
    <2>3. Answering'
      BY <1>0, <1>2, <1>3, <2>1 DEF Answering, serverVars
    <2>4. Loads'
      BY <1>0, <2>1, <2>2, KeysFixed DEF Loads
    <2> QED
      BY <1>1, <2>3, <2>4
  <1> QED
    BY <1>4, <1>5

LEMMA CheckpointStep ==
  ASSUME ~MayRetry, CheckpointInv, [Next]_vars PROVE CheckpointInv'
  <1>1. HTTPLock'
    BY HTTPLockStep DEF CheckpointInv
  <1>2. CASE Next
    <2>1. FullKey \in Keys
      BY DEF Keys
    <2> QED
      BY <1>1, <1>2, <2>1, TrainerServes, HandlerServes, ReceiverServes
         DEF Next, CheckpointInv
  <1>3. CASE UNCHANGED vars
    <2>1. \A k \in Keys : Content(k)' = Content(k)
      BY <1>3, KeysFixed DEF vars
    <2>2. \A k \in Keys : Values(k)' = Values(k)
      BY <2>1 DEF Values
    <2>3. Served' /\ Answering'
      BY <1>3, <2>1, <2>2 DEF CheckpointInv, Served, Answering, vars, lockVars, serverVars,
                              trainVars
    <2>4. Loads'
      BY <1>3, KeysFixed DEF CheckpointInv, Loads, Whole, vars, recvVars
    <2> QED
      BY <1>1, <2>3, <2>4 DEF CheckpointInv
  <1> QED
    BY <1>2, <1>3

LEMMA CheckpointInvHolds == ASSUME ~MayRetry PROVE TSpec => []CheckpointInv
  <1>1. TInit => CheckpointInv
    BY CheckpointInit DEF TInit
  <1>2. CheckpointInv /\ [TNext]_allVars => CheckpointInv'
    <2>1. [TNext]_allVars => [Next]_vars
      BY DEF TNext, allVars
    <2> QED
      BY <2>1, CheckpointStep
  <1> QED
    BY <1>1, <1>2, PTL DEF TSpec

\* The lock keeps its two promises (_rwlock.py:79) in the use the transport makes of
\* it, where another call gives the writer's lock back than the one that took it.
THEOREM LockHolds == ASSUME ~MayRetry PROVE TSpec => []LockSafe
  <1>1. CheckpointInv => LockSafe
    BY LockInvSuffices DEF CheckpointInv, HTTPLock
  <1> QED
    BY <1>1, CheckpointInvHolds, PTL

\* "Once this returns, the state_dict may be mutated so no further data should be
\* sent" (transport.py:45): whatever the number of chunks and handlers, and
\* however their locks time out, nothing is sent between disallow_checkpoint's
\* return and the end of the optimizer's step.
THEOREM DisallowedIsSilent == ASSUME ~MayRetry PROVE TSpec => []DisallowedSendsNothing
  <1>1. CheckpointInv => DisallowedSendsNothing
    <2> SUFFICES ASSUME CheckpointInv, trainer \in {"decided", "optim"}, NEW k \in Keys,
                        handler[k].state = "sending"
                 PROVE  FALSE
      BY DEF DisallowedSendsNothing
    <2>1. phase[k] = "reading" /\ HTTPLock
      BY DEF CheckpointInv, HTTPLock, HandlersInTurn
    <2> QED
      BY <2>1, SendersKeepOut
  <1> QED
    BY <1>1, CheckpointInvHolds, PTL

\* What recv_checkpoint returns (http_transport.py:218) is the state dict of the
\* step that was asked for, for any number of tensors, chunks, commits and
\* receives: each answer is whole and of that step, and merging the chunks puts
\* every value in its place (ChunksMerge).
THEOREM CheckpointReceived == ASSUME ~MayRetry PROVE TSpec => []ReceivedIsCheckpoint
  <1>1. CheckpointInv => ReceivedIsCheckpoint
    <2> SUFFICES ASSUME CheckpointInv, Succeeded
                 PROVE  Received = [i \in Tensors |-> <<i, recv.step>>]
      BY DEF ReceivedIsCheckpoint
    <2>0. NumTensors \in Nat /\ MaxStep \in Nat /\ config \in Configs
          /\ config \in [chunks : 0 .. Len(Chunk), onCpu : BOOLEAN] /\ Chunk \in Seq(STRING)
      BY TransportAssumption DEF CheckpointInv, HTTPLock, Shapes
    <2>1. \A k \in Used : recv.load[k] = Whole(k, recv.step)
      BY DEF Succeeded, Ended, CheckpointInv, Loads
    <2>2. \A k \in Used : recv.load[k][2]
                            = [p \in 1 .. Len(Content(k)) |-> <<Content(k)[p], recv.step>>]
      BY <2>1 DEF Whole
    <2>3. CASE config.chunks = 0
      <3>1. Used = {FullKey} /\ Content(FullKey) = [j \in Tensors |-> j]
        BY <2>3 DEF Used, Content
      <3>2. Len([j \in Tensors |-> j]) = NumTensors /\ Tensors = 1 .. NumTensors
        BY <2>0 DEF Tensors
      <3>3. Received = recv.load[FullKey][2]
        BY <2>3 DEF Received
      <3>4. Received = [p \in 1 .. Len(Content(FullKey)) |->
                           <<Content(FullKey)[p], recv.step>>]
        BY <2>2, <3>1, <3>3
      <3>5. Len(Content(FullKey)) = NumTensors /\ \A p \in Tensors : Content(FullKey)[p] = p
        BY <3>1, <3>2
      <3> QED
        BY <3>2, <3>4, <3>5
    <2>4. CASE config.chunks # 0
      <3>1. config.chunks \in Nat /\ 1 .. config.chunks \subseteq DOMAIN Chunk
        BY <2>0
      <3>2. \A i \in 1 .. config.chunks :
              Chunk[i] \in Used /\ Content(Chunk[i]) = SplitChunk(i, config.chunks)
        <4> SUFFICES ASSUME NEW i \in 1 .. config.chunks
                     PROVE  Chunk[i] \in Used /\ Content(Chunk[i]) = SplitChunk(i, config.chunks)
          OBVIOUS
        <4>1. (CHOOSE j \in DOMAIN Chunk : Chunk[j] = Chunk[i]) = i
          BY <3>1, TransportAssumption DEF IsInjective
        <4>2. Chunk[i] \notin {FullKey, SpecKey}
          BY <3>1, TransportAssumption
        <4> QED
          BY <2>4, <4>1, <4>2 DEF Used, Content
      <3>3. [i \in 1 .. config.chunks |-> recv.load[Chunk[i]][2]]
              = [i \in 1 .. config.chunks |->
                   [p \in 1 .. Len(SplitChunk(i, config.chunks)) |->
                      <<SplitChunk(i, config.chunks)[p], recv.step>>]]
        BY <2>2, <3>2
      <3>4. recv.step \in 0 .. MaxStep
        BY DEF CheckpointInv, Loads
      <3>5. Received = MergeChunks([i \in 1 .. config.chunks |-> recv.load[Chunk[i]][2]])
        BY <2>4 DEF Received
      <3> QED
        <4>1. \A s \in 0 .. MaxStep :
                MergeChunks([i \in 1 .. config.chunks |->
                               [p \in 1 .. Len(SplitChunk(i, config.chunks)) |->
                                  <<SplitChunk(i, config.chunks)[p], s>>]])
                  = [i \in Tensors |-> <<i, s>>]
          BY <2>0, <2>4, ChunksMerge, Zenon DEF MergeUndoesSplit
        <4>2. MergeChunks([i \in 1 .. config.chunks |-> recv.load[Chunk[i]][2]])
                = [i \in Tensors |-> <<i, recv.step>>]
          BY <3>3, <3>4, <4>1, Zenon
        <4> QED
          BY <3>5, <4>2, Zenon
    <2> QED
      BY <2>3, <2>4
  <1> QED
    BY <1>1, CheckpointInvHolds, PTL

-----------------------------------------------------------------------------
(* Over a process group                                                    *)

\* The sender's tensors are of one step but while the optimizer runs.
LiveIsAt == sender # "optim" => \A i \in PG!Leaves : live[i] = at

\* send_checkpoint returns only when everything was delivered.
AllDelivered == sender \in {"idle", "returned", "optim"} => posted \subseteq delivered

\* The tensors a receiver has of this transfer.
Got(d) == {i \in PG!Leaves : <<i + 2, d>> \in delivered}

\* They are those of the sender's step, until the sender goes on, and of one step
\* for ever.
GotOneStep ==
  /\ \A d \in Dsts : \A i, j \in Got(d) : buffer[d][i] = buffer[d][j]
  /\ \A d \in Dsts : \A i \in Got(d) : buffer[d][i] \in 0 .. LastStep
  /\ sender \in {"sending", "raised", "returned"} =>
       \A d \in Dsts : \A i \in Got(d) : buffer[d][i] = at

\* recv_checkpoint returns only when everything has come.
ReturnedHasAll ==
  \A d \in Dsts : receiver[d] = "returned" => \A tag \in PG!Tags : <<tag, d>> \in delivered

PGInv == PG!PGTypeOK /\ LiveIsAt /\ AllDelivered /\ GotOneStep /\ ReturnedHasAll

LEMMA PGInvInit == PG!PGInit => PGInv
  <1> SUFFICES ASSUME PG!PGInit PROVE PGInv
    OBVIOUS
  <1>1. PG!PGTypeOK
    BY TransportsAssumption DEF PG!PGInit, PG!PGTypeOK, PG!None
  <1>2. LiveIsAt /\ AllDelivered /\ GotOneStep /\ ReturnedHasAll
    BY DEF PG!PGInit, LiveIsAt, AllDelivered, GotOneStep, ReturnedHasAll, Got
  <1> QED
    BY <1>1, <1>2 DEF PGInv

LEMMA PGInvStep == ASSUME PGInv, [PG!PGNext]_pgAll PROVE PGInv'
  <1>0. /\ PG!PGTypeOK /\ LiveIsAt /\ AllDelivered /\ GotOneStep /\ ReturnedHasAll
        /\ LastStep \in Nat /\ NumLeaves \in Nat
    BY TransportsAssumption DEF PGInv
  <1>1. CASE PG!StartTransfer
    <2>1. PG!PGTypeOK'
      BY <1>0, <1>1 DEF PG!StartTransfer, PG!PGTypeOK
    <2>2. LiveIsAt' /\ AllDelivered' /\ GotOneStep' /\ ReturnedHasAll'
      BY <1>0, <1>1 DEF PG!StartTransfer, LiveIsAt, AllDelivered, GotOneStep,
                        ReturnedHasAll, Got
    <2> QED
      BY <2>1, <2>2 DEF PGInv
  <1>2. ASSUME NEW tag \in PG!Tags, PG!PostSends(tag) PROVE PGInv'
    <2>1. PG!PGTypeOK'
      BY <1>0, <1>2 DEF PG!PostSends, PG!senderVars, PG!PGTypeOK
    <2>2. LiveIsAt' /\ AllDelivered' /\ GotOneStep' /\ ReturnedHasAll'
      BY <1>0, <1>2 DEF PG!PostSends, PG!senderVars, LiveIsAt, AllDelivered, GotOneStep,
                        ReturnedHasAll, Got
    <2> QED
      BY <2>1, <2>2 DEF PGInv
  <1>3. CASE PG!SendReturns \/ PG!SendRaises
    <2>1. PG!PGTypeOK'
      BY <1>0, <1>3 DEF PG!SendReturns, PG!SendRaises, PG!channelVars, PG!PGTypeOK
    <2>2. LiveIsAt' /\ AllDelivered' /\ GotOneStep' /\ ReturnedHasAll'
      BY <1>0, <1>3 DEF PG!SendReturns, PG!SendRaises, PG!channelVars, LiveIsAt,
                        AllDelivered, GotOneStep, ReturnedHasAll, Got
    <2> QED
      BY <2>1, <2>2 DEF PGInv
  <1>4. CASE PG!Commit
    <2>1. PG!PGTypeOK'
      BY <1>0, <1>4 DEF PG!Commit, PG!channelVars, PG!PGTypeOK
    <2>2. LiveIsAt' /\ AllDelivered' /\ GotOneStep' /\ ReturnedHasAll'
      BY <1>0, <1>4 DEF PG!Commit, PG!channelVars, LiveIsAt, AllDelivered, GotOneStep,
                        ReturnedHasAll, Got
    <2> QED
      BY <2>1, <2>2 DEF PGInv
  <1>5. ASSUME NEW i \in PG!Leaves, PG!OptimStep(i) PROVE PGInv'
    <2>1. PG!PGTypeOK'
      BY <1>0, <1>5 DEF PG!OptimStep, PG!channelVars, PG!PGTypeOK
    <2>2. LiveIsAt'
      BY <1>0, <1>5 DEF PG!OptimStep, LiveIsAt, PG!PGTypeOK
    <2>3. AllDelivered' /\ GotOneStep' /\ ReturnedHasAll'
      BY <1>0, <1>5 DEF PG!OptimStep, PG!channelVars, AllDelivered, GotOneStep,
                        ReturnedHasAll, Got
    <2> QED
      BY <2>1, <2>2, <2>3 DEF PGInv
  <1>6. ASSUME NEW d \in Dsts, NEW tag \in PG!Tags, PG!PostRecv(d, tag) PROVE PGInv'
    <2>1. PG!PGTypeOK'
      BY <1>0, <1>6 DEF PG!PostRecv, PG!senderVars, PG!PGTypeOK
    <2>2. LiveIsAt' /\ AllDelivered' /\ GotOneStep' /\ ReturnedHasAll'
      BY <1>0, <1>6 DEF PG!PostRecv, PG!senderVars, LiveIsAt, AllDelivered, GotOneStep,
                        ReturnedHasAll, Got
    <2> QED
      BY <2>1, <2>2 DEF PGInv
  <1>7. ASSUME NEW d \in Dsts, PG!RecvReturns(d) \/ PG!RecvRaises(d) PROVE PGInv'
    <2>1. PG!PGTypeOK'
      BY <1>0, <1>7 DEF PG!RecvReturns, PG!RecvRaises, PG!senderVars, PG!channelVars,
                        PG!PGTypeOK
    <2>2. LiveIsAt' /\ AllDelivered' /\ GotOneStep'
      BY <1>0, <1>7 DEF PG!RecvReturns, PG!RecvRaises, PG!senderVars, PG!channelVars,
                        LiveIsAt, AllDelivered, GotOneStep, Got
    <2>3. ReturnedHasAll'
      BY <1>0, <1>7 DEF PG!RecvReturns, PG!RecvRaises, PG!channelVars, ReturnedHasAll,
                        PG!PGTypeOK
    <2> QED
      BY <2>1, <2>2, <2>3 DEF PGInv
  <1>8. ASSUME NEW d \in Dsts, NEW tag \in PG!Tags, PG!Deliver(tag, d) PROVE PGInv'
    <2>1. /\ <<tag, d>> \in posted \cap asked /\ <<tag, d>> \notin delivered
          /\ delivered' = delivered \cup {<<tag, d>>}
          /\ UNCHANGED <<mode, at, live, sender, posted, asked, receiver, attempts>>
      BY <1>8 DEF PG!Deliver, PG!senderVars
    <2>2. sender \in {"sending", "raised"}
      BY <1>0, <2>1 DEF AllDelivered, PG!PGTypeOK
    <2>3. /\ LiveIsAt /\ \A i \in PG!Leaves : live[i] = at
          /\ at \in 0 .. LastStep /\ buffer \in [Dsts -> [PG!Leaves -> 0 .. LastStep + 1]]
      BY <1>0, <2>2 DEF LiveIsAt, PG!PGTypeOK, PG!None
    <2>4. CASE tag <= 2
      <3>1. buffer' = buffer
        BY <1>8, <2>4 DEF PG!Deliver
      <3>2. \A e \in Dsts : Got(e)' = Got(e)
        BY <1>0, <2>1, <2>4 DEF Got, PG!Leaves
      <3>3. GotOneStep'
        BY <1>0, <2>1, <3>1, <3>2 DEF GotOneStep
      <3>4. PG!PGTypeOK'
        BY <1>0, <2>1, <3>1 DEF PG!PGTypeOK
      <3> QED
        BY <1>0, <2>1, <3>3, <3>4 DEF PGInv, LiveIsAt, AllDelivered, ReturnedHasAll
    <2>5. CASE ~(tag <= 2)
      <3>1. tag - 2 \in PG!Leaves /\ tag \in Nat
        BY <1>0, <2>5 DEF PG!Tags, PG!Leaves
      <3>2. buffer' = [buffer EXCEPT ![d][tag - 2] = at]
        BY <1>8, <2>3, <2>5, <3>1 DEF PG!Deliver, PG!LeafOf
      <3>3. Got(d)' = Got(d) \cup {tag - 2} /\ \A e \in Dsts \ {d} : Got(e)' = Got(e)
        BY <1>0, <2>1, <3>1 DEF Got, PG!Leaves
      <3>4. \A e \in Dsts : Got(e) \subseteq PG!Leaves
        BY DEF Got
      <3>5. \A e \in Dsts : \A i \in Got(e)' : buffer'[e][i] = at
        BY <1>0, <2>2, <2>3, <3>1, <3>2, <3>3, <3>4 DEF GotOneStep
      <3>6. GotOneStep'
        BY <2>1, <2>3, <3>5 DEF GotOneStep
      <3>7. PG!PGTypeOK'
        <4>1. buffer' \in [Dsts -> [PG!Leaves -> 0 .. LastStep + 1]]
          BY <1>0, <2>3, <3>1, <3>2
        <4>2. delivered' \subseteq posted' \cap asked'
          BY <1>0, <2>1 DEF PG!PGTypeOK
        <4> QED
          BY <1>0, <2>1, <4>1, <4>2 DEF PG!PGTypeOK, PG!None
      <3> QED
        BY <1>0, <2>1, <3>6, <3>7 DEF PGInv, LiveIsAt, AllDelivered, ReturnedHasAll
    <2> QED
      BY <2>4, <2>5
  <1>9. CASE UNCHANGED pgAll
    BY <1>0, <1>9 DEF pgAll, PGInv, PG!PGTypeOK, LiveIsAt, AllDelivered, GotOneStep,
                      ReturnedHasAll, Got
  <1> QED
    BY <1>1, <1>2, <1>3, <1>4, <1>5, <1>6, <1>7, <1>8, <1>9
       DEF PG!PGNext, PG!SenderNext, PG!ReceiverNext

LEMMA PGInvHolds == TSpec => []PGInv
  <1>1. TInit => PGInv
    BY PGInvInit DEF TInit
  <1>2. PGInv /\ [TNext]_allVars => PGInv'
    <2>1. [TNext]_allVars => [PG!PGNext]_pgAll
      BY DEF TNext, allVars
    <2> QED
      BY <2>1, PGInvStep
  <1> QED
    BY <1>1, <1>2, PTL DEF TSpec

\* send_checkpoint sends the live tensors (pg_transport.py:179) and
\* disallow_checkpoint does nothing: that it waits for its sends before it returns
\* is enough for every receiver that returns to have one version of all tensors,
\* for any number of receivers, tensors, commits and transfers.
THEOREM WholeReceived == TSpec => []ReceivedIsWhole
  <1>1. ASSUME PGInv, NEW d \in Dsts, receiver[d] = "returned"
        PROVE  /\ \A i \in PG!Leaves : buffer[d][i] # PG!None
               /\ \A i, j \in PG!Leaves : buffer[d][i] = buffer[d][j]
    <2>1. Got(d) = PG!Leaves
      BY <1>1, TransportsAssumption DEF PGInv, ReturnedHasAll, Got, PG!Tags, PG!Leaves
    <2> QED
      BY <1>1, <2>1, TransportsAssumption DEF PGInv, GotOneStep, PG!None
  <1>2. PGInv => ReceivedIsWhole
    BY <1>1 DEF ReceivedIsWhole, PG!PGReceivedIsWhole
  <1> QED
    BY <1>2, PGInvHolds, PTL

-----------------------------------------------------------------------------
(* The types, also of a trainer that calls should_commit again *)

\* It may then release a lock it does not hold, but is never counted as a reader.
HTTPTypes == TypeOK /\ Shapes /\ CountFits /\ phase[Trainer] \in {"out", "writing"}

LEMMA ReaderTypes ==
  ASSUME LockTypeOK, CountFits, NEW k \in Keys,
         REnter(k) \/ RFirst(k) \/ RTimeout(k) \/ RRelease(k)
  PROVE  LockTypeOK' /\ CountFits' /\ phase'[Trainer] = phase[Trainer]
  <1>0. k \in Threads /\ Trainer \in Threads /\ k # Trainer
    BY TrainerIsNoKey
  <1>1. CASE REnter(k)
    <2>1. PICK p \in {"first", "reading"} : phase' = [phase EXCEPT ![k] = p]
      BY <1>1 DEF REnter
    <2>2. CountFits'
      BY <1>0, <1>1, <2>1, Enters DEF REnter, CountFits
    <2> QED
      BY <1>0, <1>1, <2>1, <2>2 DEF REnter, LockTypeOK, Phases
  <1>2. CASE RFirst(k)
    <2>1. Inside' = Inside
      BY <1>0, <1>2 DEF RFirst, Inside, LockTypeOK
    <2> QED
      BY <1>0, <1>2, <2>1 DEF RFirst, CountFits, LockTypeOK, Phases
  <1>3. CASE UNCHANGED lockVars
    BY <1>3 DEF lockVars, LockTypeOK, CountFits, Inside
  <1>4. ASSUME phase[k] \in {"first", "reading"}, numR' = numR - 1,
               phase' = [phase EXCEPT ![k] = "out"],
               wLock' \in BOOLEAN, numRLock' \in SUBSET Threads
        PROVE  LockTypeOK' /\ CountFits' /\ phase'[Trainer] = phase[Trainer]
    <2>1. CountFits' /\ numR' \in Nat
      BY <1>0, <1>4, Leaves DEF CountFits
    <2> QED
      BY <1>0, <1>4, <2>1 DEF LockTypeOK, Phases
  <1>5. CASE RTimeout(k)
    BY <1>3, <1>4, <1>5 DEF RTimeout, LockTypeOK
  <1>6. CASE RRelease(k)
    <2>1. wLock' \in BOOLEAN /\ numRLock' \in SUBSET Threads
      BY <1>0, <1>6 DEF RRelease, LockTypeOK
    <2> QED
      BY <1>4, <1>6, <2>1 DEF RRelease
  <1> QED
    BY <1>1, <1>2, <1>5, <1>6

LEMMA WriterTypes ==
  ASSUME LockTypeOK, CountFits, phase[Trainer] \in {"out", "writing"},
         WAcquire(Trainer) \/ WTimeout(Trainer) \/ WRelease(Trainer) \/ UNCHANGED lockVars
  PROVE  LockTypeOK' /\ CountFits' /\ phase'[Trainer] \in {"out", "writing"}
  <1>0. Trainer \in Threads
    BY TrainerIsNoKey
  <1>1. LockTypeOK' /\ phase'[Trainer] \in {"out", "writing"}
    BY <1>0 DEF WAcquire, WTimeout, WRelease, lockVars, LockTypeOK, Phases
  <1>2. numR' = numR /\ \A t \in Threads : t = Trainer \/ phase'[t] = phase[t]
    BY <1>0 DEF WAcquire, WTimeout, WRelease, lockVars, LockTypeOK
  <1>3. Inside' = Inside
    BY <1>1, <1>2 DEF Inside
  <1> QED
    BY <1>1, <1>2, <1>3 DEF CountFits

LEMMA TrainerTypes ==
  ASSUME HTTPTypes, TrainerNext
  PROVE  HTTPTypes'
  <1>0. /\ TypeOK /\ Shapes /\ LockTypeOK /\ NumTensors \in Nat /\ MaxStep \in Nat
        /\ now \in 0 .. MaxStep /\ disallowed \in BOOLEAN
    BY TransportAssumption DEF HTTPTypes, TypeOK
  <1>1. WAcquire(Trainer) \/ WTimeout(Trainer) \/ WRelease(Trainer) \/ UNCHANGED lockVars
    BY DEF TrainerNext, SendCheckpoint, AllowCheckpoint, NothingToSend, Disallow,
           DisallowTakesLock, DisallowTimesOut, Discard, Commit, OptimStep, lockVars
  <1>2. LockTypeOK' /\ CountFits' /\ phase'[Trainer] \in {"out", "writing"}
    BY <1>0, <1>1, WriterTypes DEF HTTPTypes
  <1>3. handler' = handler /\ Shapes'
    BY <1>0 DEF TrainerNext, SendCheckpoint, AllowCheckpoint, NothingToSend, Disallow,
                DisallowTakesLock, DisallowTimesOut, Discard, Commit, OptimStep, recvVars, Shapes
  <1>4. /\ trainer' \in {"quorum", "allow", "train", "lock", "decided", "optim", "raised"}
        /\ disallowed' \in BOOLEAN
    BY <1>0 DEF TrainerNext, SendCheckpoint, AllowCheckpoint, NothingToSend, Disallow,
                DisallowTakesLock, DisallowTimesOut, Discard, Commit, OptimStep, serverVars
  <1>5. /\ step' \in 0 .. MaxStep + 1 /\ now' \in 0 .. MaxStep
        /\ weights' \in [Tensors -> 0 .. MaxStep] /\ staged' \in [Tensors -> 0 .. MaxStep]
    <2>1. CASE AllowCheckpoint
      BY <1>0, <2>1 DEF AllowCheckpoint, TypeOK
    <2>2. CASE Commit
      BY <1>0, <2>2 DEF Commit, TypeOK, serverVars
    <2>3. CASE \E i \in Tensors : OptimStep(i)
      BY <1>0, <2>3 DEF OptimStep, TypeOK, serverVars
    <2>4. CASE SendCheckpoint
      BY <1>0, <2>4 DEF SendCheckpoint, TypeOK
    <2>5. CASE NothingToSend \/ Disallow \/ DisallowTakesLock \/ DisallowTimesOut \/ Discard
      BY <1>0, <2>5 DEF NothingToSend, Disallow, DisallowTakesLock, DisallowTimesOut, Discard,
                        TypeOK, serverVars
    <2> QED
      BY <2>1, <2>2, <2>3, <2>4, <2>5 DEF TrainerNext
  <1>6. TypeOK'
    BY <1>0, <1>2, <1>3, <1>4, <1>5 DEF TypeOK
  <1> QED
    BY <1>2, <1>3, <1>6 DEF HTTPTypes

LEMMA HandlerTypes ==
  ASSUME HTTPTypes, NEW k \in Keys, HandlerNext(k)
  PROVE  HTTPTypes'
  <1>0. TypeOK /\ Shapes /\ LockTypeOK
    BY DEF HTTPTypes, TypeOK
  <1>1. LockTypeOK' /\ CountFits' /\ phase'[Trainer] \in {"out", "writing"}
    <2>1. CASE REnter(k) \/ RFirst(k) \/ RTimeout(k) \/ RRelease(k)
      BY <1>0, <2>1, ReaderTypes DEF HTTPTypes
    <2>2. CASE UNCHANGED lockVars
      BY <1>0, <2>2, WriterTypes DEF HTTPTypes
    <2> QED
      BY <2>1, <2>2 DEF HandlerNext, EnterReader, HandlerTimesOut, CheckStep, SendValue,
                        EndAnswer, LeaveReader
  <1>2. ASSUME Shapes', \A x \in Keys \ {k} : handler'[x] = handler[x],
               handler'[k].state \in {"none", "new", "sending", "done"},
               UNCHANGED serverVars, UNCHANGED trainVars
        PROVE  HTTPTypes'
    <2>1. \A x \in Keys : handler'[x].state \in {"none", "new", "sending", "done"}
      BY <1>0, <1>2 DEF TypeOK
    <2>2. TypeOK'
      BY <1>0, <1>1, <1>2, <2>1 DEF TypeOK, serverVars, trainVars
    <2> QED
      BY <1>1, <1>2, <2>2 DEF HTTPTypes
  <1>3. CASE EnterReader(k)
    <2>1. Shapes' /\ handler' = handler /\ UNCHANGED serverVars /\ UNCHANGED trainVars
      BY <1>0, <1>3 DEF EnterReader, Shapes, recvVars
    <2> QED
      BY <1>0, <1>2, <2>1 DEF TypeOK
  <1>4. ASSUME NEW request, NEW answer, Handle(k, request, answer),
               request = [state |-> request.state, step |-> request.step,
                          sent |-> request.sent],
               request.state \in {"none", "new", "sending", "done"}
        PROVE  HTTPTypes'
    <2>1. Shapes' /\ handler'[k] = request /\ \A x \in Keys \ {k} : handler'[x] = handler[x]
      BY <1>0, <1>4, HandleShapes
    <2> QED
      BY <1>2, <1>4, <2>1 DEF Handle
  <1>5. handler[k] = [state |-> handler[k].state, step |-> handler[k].step,
                      sent |-> handler[k].sent]
    BY <1>0 DEF Shapes
  <1>6. CASE HandlerTimesOut(k) \/ LeaveReader(k)
    <2>1. NoRequest = [state |-> NoRequest.state, step |-> NoRequest.step,
                       sent |-> NoRequest.sent] /\ NoRequest.state = "none"
      BY DEF NoRequest
    <2>2. PICK answer : Handle(k, NoRequest, answer)
      BY <1>6 DEF HandlerTimesOut, LeaveReader
    <2> QED
      BY <1>4, <2>1, <2>2
  <1>7. CASE CheckStep(k) \/ EndAnswer(k)
    <2>1. PICK next \in {"sending", "done"} :
             \E answer : Handle(k, [handler[k] EXCEPT !.state = next], answer)
      BY <1>7 DEF CheckStep, EndAnswer
    <2>2. PICK answer : Handle(k, [handler[k] EXCEPT !.state = next], answer)
      BY <2>1
    <2> DEFINE request == [handler[k] EXCEPT !.state = next]
    <2>3. request = [state |-> next, step |-> handler[k].step, sent |-> handler[k].sent]
      BY <1>5
    <2> QED
      BY <1>4, <2>2, <2>3
  <1>8. CASE SendValue(k)
    <2>1. PICK sent : Handle(k, [handler[k] EXCEPT !.sent = sent], <<>>)
      BY <1>8 DEF SendValue
    <2> DEFINE request == [handler[k] EXCEPT !.sent = sent]
    <2>2. request = [state |-> handler[k].state, step |-> handler[k].step, sent |-> sent]
      BY <1>5
    <2>3. handler[k].state = "sending"
      BY <1>8 DEF SendValue
    <2> QED
      BY <1>4, <2>1, <2>2, <2>3
  <1> QED
    BY <1>3, <1>6, <1>7, <1>8 DEF HandlerNext

LEMMA ReceiverTypes ==
  ASSUME HTTPTypes, NEW k \in Keys, LoadTimesOut(k) \/ StartRecv
  PROVE  HTTPTypes'
  <1>0. /\ TypeOK /\ Shapes /\ LockTypeOK
        /\ UNCHANGED lockVars /\ UNCHANGED <<config, serverVars, trainVars>>
    BY DEF HTTPTypes, TypeOK, LoadTimesOut, StartRecv
  <1>1. LockTypeOK' /\ CountFits' /\ phase'[Trainer] \in {"out", "writing"}
    BY <1>0, WriterTypes DEF HTTPTypes
  <1>2. Shapes' /\ \A x \in Keys : handler'[x] = handler[x] \/ handler'[x].state = "new"
    <2>1. CASE LoadTimesOut(k)
      BY <1>0, <2>1 DEF LoadTimesOut, Shapes
    <2>2. CASE StartRecv
      <3>1. \A x \in Keys : handler'[x] = IF x \in Used
                              THEN [state |-> "new", step |-> now, sent |-> <<>>]
                              ELSE handler[x]
        BY <2>2 DEF StartRecv
      <3>2. handler' = [x \in Keys |-> handler'[x]]
        BY <2>2 DEF StartRecv
      <3>3. recv' = [step |-> now, load |-> [x \in Used |-> <<>>]]
        BY <2>2 DEF StartRecv
      <3> QED
        BY <1>0, <3>1, <3>2, <3>3 DEF Shapes
    <2> QED
      BY <2>1, <2>2
  <1>3. TypeOK'
    BY <1>0, <1>1, <1>2 DEF TypeOK, serverVars, trainVars
  <1> QED
    BY <1>1, <1>2, <1>3 DEF HTTPTypes

LEMMA HTTPTypesStep == ASSUME HTTPTypes, [Next]_vars PROVE HTTPTypes'
  <1>1. CASE Next
    <2>1. FullKey \in Keys
      BY DEF Keys
    <2> QED
      BY <1>1, <2>1, TrainerTypes, HandlerTypes, ReceiverTypes DEF Next
  <1>2. CASE UNCHANGED vars
    BY <1>2 DEF HTTPTypes, vars, lockVars, serverVars, trainVars, recvVars, TypeOK,
                LockTypeOK, Shapes, CountFits, Inside
  <1> QED
    BY <1>1, <1>2

\* The lock and both transports keep their types.
THEOREM TypesHold == TSpec => []TypesOK
  <1>1. TInit => HTTPTypes
    BY HTTPLockInit, TrainerIsNoKey DEF TInit, HTTPTypes, HTTPLock, LockInv, Init
  <1>2. HTTPTypes /\ [TNext]_allVars => HTTPTypes'
    <2>1. [TNext]_allVars => [Next]_vars
      BY DEF TNext, allVars
    <2> QED
      BY <2>1, HTTPTypesStep
  <1>3. HTTPTypes /\ PGInv => TypesOK
    BY DEF HTTPTypes, PGInv, TypesOK
  <1> QED
    BY <1>1, <1>2, <1>3, PGInvHolds, PTL DEF TSpec

=============================================================================
