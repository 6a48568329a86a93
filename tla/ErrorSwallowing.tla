--------------------------- MODULE ErrorSwallowing ---------------------------
(***************************************************************************)
(* ErrorSwallowingProcessGroupWrapper of torchft/process_group.py: after   *)
(* an error every allreduce is answered as if it had succeeded, until the  *)
(* group is configured again.  Its works outlive a configuration: one that *)
(* is waited for late reports its error to whatever configuration there is *)
(* by then.                                                                *)
(***************************************************************************)
EXTENDS Naturals

CONSTANTS
    MaxCalls,  \* bound: calls of allreduce
    MaxConfs   \* bound: calls of configure

Calls == 1 .. MaxCalls

VARIABLES
    error,     \* _error is set
    confs,     \* calls of configure so far
    call,      \* the wrapped operation of each call
    callConf,  \* the configuration it was made in
    answered   \* calls whose wait or future gave the caller a result

swallowVars == <<error, confs, call, callConf, answered>>

Init ==
    /\ error = FALSE
    /\ confs = 1
    /\ call = [c \in Calls |-> "none"]
    /\ callConf = [c \in Calls |-> 0]
    /\ answered = {}

\* The error is cleared before the wrapped group is configured, which ends
\* what still runs on it.
Configure ==
    /\ confs < MaxConfs
    /\ error' = FALSE
    /\ confs' = confs + 1
    /\ call' = [c \in Calls |-> IF call[c] = "pending" THEN "failed" ELSE call[c]]
    /\ UNCHANGED <<callConf, answered>>

\* A _DummyWork after an error, or if the wrapped group raises.
Allreduce(c) ==
    /\ call[c] = "none"
    /\ \A d \in 1 .. c - 1 : call[d] # "none"
    /\ callConf' = [callConf EXCEPT ![c] = confs]
    /\ \/ error /\ call' = [call EXCEPT ![c] = "dummy"] /\ UNCHANGED error
       \/ ~error /\ call' = [call EXCEPT ![c] = "pending"] /\ UNCHANGED error
       \/ ~error /\ call' = [call EXCEPT ![c] = "dummy"] /\ error' = TRUE
    /\ UNCHANGED <<confs, answered>>

OperationEnds(c) ==
    /\ call[c] = "pending"
    /\ \E r \in {"done", "failed"} : call' = [call EXCEPT ![c] = r]
    /\ UNCHANGED <<error, confs, callConf, answered>>

\* mutant: the failure is swallowed and not reported
AnswerQuietly(c) ==
    /\ call[c] \in {"dummy", "done", "failed"}
    /\ c \notin answered
    /\ answered' = answered \cup {c}
    /\ UNCHANGED <<error, confs, call, callConf>>

\* wait() and the callback of get_future() do the same: a failure is
\* reported, and the caller gets its default.
Answer(c) ==
    /\ call[c] \in {"dummy", "done", "failed"}
    /\ c \notin answered
    /\ answered' = answered \cup {c}
    /\ error' = (error \/ call[c] = "failed")
    /\ UNCHANGED <<confs, call, callConf>>

Next == \/ Configure
        \/ \E c \in Calls : Allreduce(c) \/ OperationEnds(c) \/ Answer(c)

Spec == Init /\ [][Next]_swallowVars

-----------------------------------------------------------------------------
TypeOK ==
    /\ error \in BOOLEAN
    /\ confs \in 1 .. MaxConfs
    /\ call \in [Calls -> {"none", "pending", "dummy", "done", "failed"}]
    /\ callConf \in [Calls -> 0 .. MaxConfs]
    /\ answered \subseteq Calls

\* This step issues an operation on the wrapped group.
Issues(c) == call[c] = "none" /\ call'[c] = "pending"

\* "After an error occurs all future operations will be skipped until the
\* process group is reconfigured" (process_group.py:1184): once a failure was
\* answered as a success, nothing more runs on that configuration, although
\* answers, calls and configurations come in any order.
NothingAfterFailure ==
    \A c \in Calls : Issues(c) =>
        \A d \in answered : call[d] = "failed" => callConf[d] # confs
=============================================================================
