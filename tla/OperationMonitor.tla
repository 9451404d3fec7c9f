-------------------------- MODULE OperationMonitor --------------------------
(***************************************************************************)
(* One monitor (internal/pkg/monitor): a goroutine that polls the progress *)
(* of an operation until it gets an answer of Final, or MaxConnFailures    *)
(* polls have failed, and then notifies: it removes the record of the      *)
(* operation from the remote component and runs the registered callback.   *)
(*                                                                         *)
(* The four monitors share the loop; they differ in the answers they       *)
(* recognise (Final) and in what notify does without an answer.            *)
(***************************************************************************)
EXTENDS InfraDefs

CONSTANT MaxConnFailures

ASSUME MaxConnFailuresAssumption == MaxConnFailures \in Nat \ {0}

VARIABLES
    op,                 \* the operation watched
    remote,             \* its progress at the remote component
    record,             \* the remote component still keeps its record
    pc,                 \* control state of the monitor's goroutine
    remainingFailures,  \* connection failures still allowed
    response,           \* last response, "nil" when the last poll failed
    delivered,          \* response given to the callback, "none" before
    failures            \* history: polls that failed

vars == <<op, remote, record, pc, remainingFailures, response, delivered, failures>>

Responses == {"nil"} \cup Progress \cup AllVerdicts

TypeOK ==
    /\ op \in OpKinds
    /\ remote \in Progress \cup AllVerdicts
    /\ record \in BOOLEAN
    /\ pc \in {"poll", "notify", "callback", "done", "panic"}
    /\ remainingFailures \in 0 .. MaxConnFailures
    /\ response \in Responses
    /\ delivered \in {"none"} \cup Responses
    /\ failures \in Nat

Init ==
    /\ op \in OpKinds
    /\ remote = "running"
    /\ record = TRUE
    /\ pc = "poll"
    /\ remainingFailures = MaxConnFailures
    /\ response = "nil"
    /\ delivered = "none"
    /\ failures = 0

-----------------------------------------------------------------------------
\* The remote component reports an error, or the end of one, and goes on.
RemoteGoesOn ==
    /\ remote \in Progress
    /\ remote' \in Progress \ {remote}
    /\ UNCHANGED <<op, record, pc, remainingFailures, response, delivered, failures>>

\* The remote component ends the operation.
RemoteFinishes ==
    /\ remote \in Progress
    /\ remote' \in VerdictsOf(op)
    /\ UNCHANGED <<op, record, pc, remainingFailures, response, delivered, failures>>

PollFailsOffByOne ==
    /\ pc = "poll"
    /\ response' = "nil"
    /\ failures' = failures + 1
    /\ remainingFailures' = remainingFailures - 1
    /\ pc' = IF remainingFailures' < 0 THEN "notify" ELSE "poll"
    /\ UNCHANGED <<op, remote, record, delivered>>

\* CheckProgress returns an error, and with it a nil response. The budget of
\* failures is never given back by a later success.
PollFails ==
    /\ pc = "poll"
    /\ response' = "nil"
    /\ failures' = failures + 1
    /\ remainingFailures' = remainingFailures - 1
    /\ pc' = IF remainingFailures' = 0 THEN "notify" ELSE "poll"
    /\ UNCHANGED <<op, remote, record, delivered>>

PollAnswersAndStops ==
    /\ pc = "poll"
    /\ response' = remote
    /\ pc' = "notify"
    /\ UNCHANGED <<op, remote, record, remainingFailures, delivered, failures>>

\* CheckProgress returns the current progress.
PollAnswers ==
    /\ pc = "poll"
    /\ response' = remote
    /\ pc' = IF remote \in Final(op) THEN "notify" ELSE "poll"
    /\ UNCHANGED <<op, remote, record, remainingFailures, delivered, failures>>

\* InstallerMonitor.notify reads the request identifier of a nil response:
\* the goroutine panics, and an unrecovered panic ends the process.
NotifyPanics ==
    /\ pc = "notify"
    /\ op \in InstallerOps
    /\ response = "nil"
    /\ pc' = "panic"
    /\ UNCHANGED <<op, remote, record, remainingFailures, response, delivered, failures>>

RemoveRecordOfNothing ==
    /\ pc = "notify"
    /\ pc' = "callback"
    /\ record' \in {record, FALSE}
    /\ UNCHANGED <<op, remote, remainingFailures, response, delivered, failures>>

\* notify asks the remote component to forget the operation and ignores an
\* error. The decommission monitor takes the identifier from the response:
\* without one it names no record.
RemoveRecord ==
    /\ pc = "notify"
    /\ ~(op \in InstallerOps /\ response = "nil")
    /\ pc' = "callback"
    /\ record' \in (IF op = "decommission" /\ response = "nil" THEN {record}
                                                               ELSE {record, FALSE})
    /\ UNCHANGED <<op, remote, remainingFailures, response, delivered, failures>>

\* The registered callback is given the last response.
Callback ==
    /\ pc = "callback"
    /\ delivered' = response
    /\ pc' = "done"
    /\ UNCHANGED <<op, remote, record, remainingFailures, response, failures>>

Stopped == pc \in {"done", "panic"} /\ UNCHANGED vars

Next ==
    \/ RemoteGoesOn
    \/ RemoteFinishes
    \/ PollFails
    \/ PollAnswers
    \/ NotifyPanics
    \/ RemoveRecord
    \/ Callback
    \/ Stopped

Spec == Init /\ [][Next]_vars

\* Every remote call is assumed to return: a poll fails, which the budget allows
\* MaxConnFailures times, or it answers. Fairness is asked of the answer alone, so
\* that it never forces a failure. The remote component is assumed to end what it
\* accepted.
FairSpec ==
    /\ Spec
    /\ WF_vars(PollAnswers)
    /\ WF_vars(NotifyPanics \/ RemoveRecord)
    /\ WF_vars(Callback)
    /\ WF_vars(RemoteFinishes)
-----------------------------------------------------------------------------
\* The monitor gives up after exactly MaxConnFailures failed polls, counted over
\* its whole life and not in a row, and polls on as long as there were fewer.
FailureBudget ==
    /\ failures + remainingFailures = MaxConnFailures
    /\ pc = "poll" => failures < MaxConnFailures
    /\ pc # "poll" /\ response = "nil" => failures = MaxConnFailures

\* A response handed to a callback is one on which the loop exits, and unless it is
\* the report of an error by an operation that still goes on, it is how the
\* operation has ended: no poll after it would answer otherwise.
NoFalseVerdict ==
    delivered \notin {"none", "nil"} =>
        /\ delivered \in Final(op)
        /\ delivered # "troubled" => delivered = remote

\* The loop, notify and the callback together do what OperationWatch promises. An
\* answer is settled when the loop exits on it, and the callback gets the same one;
\* a lost contact when the callback is told, or the process ends.
Account == IF pc = "done" THEN delivered ELSE response

Report ==
    IF pc = "poll" THEN "none"
    ELSE IF pc = "panic" THEN "crashed"
    ELSE IF Account # "nil" THEN Account
    ELSE IF pc = "done" THEN "lost" ELSE "none"

Watch == INSTANCE OperationWatch WITH report <- Report

ImplementsWatch == Watch!Spec

\* Every monitor ends, one way or the other, unless the installer cancels the
\* operation: RegisterCallback's "when the installation of a cluster finishes".
EndsUnlessCanceled ==
    <>(\/ pc \in {"done", "panic"}
       \/ op \in InstallerOps /\ remote = "canceled")

\* What installer.go:72 says of the loop, "waiting for it to complete": the wait
\* ends whenever the remote component has ended the operation.
WaitEnds == <>(pc \in {"done", "panic"})

\* What monitor.go:23 says of the limit, "the number of communication failures
\* allowed until the monitor exists": a monitor that reaches it exits, and does
\* not end the process.
LostContactEndsMonitorOnly == pc # "panic"
=============================================================================
