----------------------- MODULE OperationMonitorProofs -----------------------
(***************************************************************************)
(* What holds of every monitor, whatever MaxConnFailures is. The inductive *)
(* invariant adds to the stated ones how a monitor leaves its loop.        *)
(***************************************************************************)
EXTENDS OperationMonitor, TLAPS

\* Out of the loop the response is the lost contact or an answer on which the loop
\* exits. If it is how the operation ended it still is; what the callback was given
\* is that response.
LeftWithAnswer ==
    /\ pc # "poll" /\ response # "nil" =>
          response \in Final(op) /\ (response # "troubled" => response = remote)
    /\ delivered # "none" => pc = "done" /\ delivered = response
    /\ pc = "done" => delivered = response
    /\ pc = "panic" => op \in InstallerOps
    /\ pc \in {"callback", "done"} /\ op \in InstallerOps => response # "nil"

IInv == TypeOK /\ FailureBudget /\ LeftWithAnswer

\* Of an operation that goes on only an error text gives a monitor a reason to stop.
LEMMA OnlyTroubleStops == \A p \in OpKinds : Progress \cap Final(p) = {"troubled"}
BY DEF Final, Progress

LEMMA InitIInv == Init => IInv
BY MaxConnFailuresAssumption
DEF Init, IInv, TypeOK, FailureBudget, LeftWithAnswer, OpKinds, Responses, Progress

LEMMA NextIInv == IInv /\ [Next]_vars => IInv'
<1> SUFFICES ASSUME IInv, [Next]_vars PROVE IInv'
  OBVIOUS
<1> USE MaxConnFailuresAssumption
<1>1. CASE RemoteGoesOn \/ RemoteFinishes
  <2>1. /\ remote \in Progress
        /\ remote' \in Progress \cup AllVerdicts
        /\ UNCHANGED <<op, record, pc, remainingFailures, response, delivered, failures>>
    BY <1>1 DEF RemoteGoesOn, RemoteFinishes, VerdictsOf
  <2>2. TypeOK'
    BY <2>1 DEF IInv, TypeOK
  <2>3. FailureBudget'
    BY <2>1 DEF IInv, FailureBudget
  <2>4. LeftWithAnswer'
    BY <2>1, OnlyTroubleStops DEF IInv, TypeOK, LeftWithAnswer
  <2> QED  BY <2>2, <2>3, <2>4 DEF IInv
<1>2. CASE PollFails
  <2>1. remainingFailures > 0 /\ remainingFailures \in Nat /\ failures \in Nat
    BY <1>2 DEF IInv, TypeOK, FailureBudget, PollFails
  <2>2. TypeOK'
    BY <1>2, <2>1 DEF IInv, TypeOK, PollFails, Responses
  <2>3. FailureBudget'
    BY <1>2, <2>1 DEF IInv, FailureBudget, PollFails
  <2>4. LeftWithAnswer'
    BY <1>2 DEF IInv, LeftWithAnswer, PollFails
  <2> QED  BY <2>2, <2>3, <2>4 DEF IInv
<1>3. CASE PollAnswers
  <2>1. TypeOK'
    BY <1>3 DEF IInv, TypeOK, PollAnswers, Responses
  <2>2. FailureBudget'
    BY <1>3 DEF IInv, TypeOK, FailureBudget, PollAnswers, AllVerdicts, Progress
  <2>3. LeftWithAnswer'
    BY <1>3 DEF IInv, LeftWithAnswer, PollAnswers
  <2> QED  BY <2>1, <2>2, <2>3 DEF IInv
<1>4. CASE NotifyPanics
  BY <1>4 DEF IInv, TypeOK, FailureBudget, LeftWithAnswer, NotifyPanics
<1>5. CASE RemoveRecord
  BY <1>5 DEF IInv, TypeOK, FailureBudget, LeftWithAnswer, RemoveRecord
<1>6. CASE Callback
  BY <1>6 DEF IInv, TypeOK, FailureBudget, LeftWithAnswer, Callback
<1>7. CASE Stopped \/ UNCHANGED vars
  BY <1>7 DEF IInv, TypeOK, FailureBudget, LeftWithAnswer, Stopped, vars
<1> QED
  BY <1>1, <1>2, <1>3, <1>4, <1>5, <1>6, <1>7 DEF Next

LEMMA Inductive == Spec => []IInv
<1> QED  BY InitIInv, NextIInv, PTL DEF Spec

\* The types of the monitor's variables are kept by every step.
THEOREM TypeCorrect == Spec => []TypeOK
<1>1. IInv => TypeOK
  BY DEF IInv
<1> QED  BY Inductive, <1>1, PTL

\* A monitor gives up after MaxConnFailures failed polls, no sooner and no later.
THEOREM BudgetKept == Spec => []FailureBudget
<1>1. IInv => FailureBudget
  BY DEF IInv
<1> QED  BY Inductive, <1>1, PTL

\* Callbacks are told how the operation ended, or of an error while it goes on.
THEOREM NoFalseVerdictDelivered == Spec => []NoFalseVerdict
<1>1. IInv => NoFalseVerdict
  BY DEF IInv, LeftWithAnswer, NoFalseVerdict
<1> QED  BY Inductive, <1>1, PTL

-----------------------------------------------------------------------------
\* OperationWatch speaks of the same operations and verdicts.
LEMMA SameVocabulary ==
    /\ Watch!OpKinds = OpKinds
    /\ Watch!InstallerOps = InstallerOps
    /\ Watch!Progress = Progress
    /\ \A p : Watch!Final(p) = Final(p) /\ Watch!VerdictsOf(p) = VerdictsOf(p)
BY DEF Watch!OpKinds, OpKinds, Watch!InstallerOps, InstallerOps, Watch!Final, Final,
       Watch!VerdictsOf, VerdictsOf, Watch!AllVerdicts, AllVerdicts, Watch!Progress,
       Progress

LEMMA InitWatch == Init => Watch!Init
BY SameVocabulary DEF Init, Watch!Init, Report

LEMMA NextWatch == IInv /\ [Next]_vars => [Watch!Next]_(Watch!vars)
<1> SUFFICES ASSUME IInv, [Next]_vars PROVE [Watch!Next]_(Watch!vars)
  OBVIOUS
<1>1. CASE RemoteGoesOn \/ RemoteFinishes
  BY <1>1, SameVocabulary
  DEF RemoteGoesOn, RemoteFinishes, Watch!Next, Watch!Advance, Report, Account
<1>2. CASE PollFails
  BY <1>2 DEF PollFails, Watch!vars, Report, Account
<1>3. CASE PollAnswers
  <2>1. CASE remote \in Final(op)
    <3>1. remote # "nil"
      BY DEF IInv, TypeOK, Progress, AllVerdicts
    <3> QED
      BY <1>3, <2>1, <3>1, SameVocabulary
      DEF PollAnswers, Watch!Next, Watch!Report, Report, Account
  <2>2. CASE remote \notin Final(op)
    BY <1>3, <2>2 DEF PollAnswers, Watch!vars, Report, Account
  <2> QED  BY <2>1, <2>2
<1>4. CASE NotifyPanics
  BY <1>4, SameVocabulary DEF NotifyPanics, Watch!Next, Watch!GiveUp, Report, Account
<1>5. CASE RemoveRecord
  BY <1>5 DEF RemoveRecord, Watch!vars, Report, Account
<1>6. CASE Callback
  <2>1. pc = "callback" /\ pc' = "done" /\ delivered' = response
        /\ UNCHANGED <<op, remote, response>>
    BY <1>6 DEF Callback
  <2>2. CASE response = "nil"
    BY <2>1, <2>2, SameVocabulary
    DEF IInv, LeftWithAnswer, Watch!Next, Watch!GiveUp, Report, Account
  <2>3. CASE response # "nil"
    BY <2>1, <2>3 DEF Watch!vars, Report, Account
  <2> QED  BY <2>2, <2>3
<1>7. CASE Stopped \/ UNCHANGED vars
  BY <1>7 DEF Stopped, vars, Watch!vars, Report, Account
<1> QED
  BY <1>1, <1>2, <1>3, <1>4, <1>5, <1>6, <1>7 DEF Next

\* The loop, notify and the callback implement what OperationWatch promises.
THEOREM MonitorImplementsWatch == Spec => ImplementsWatch
<1> QED
  BY InitWatch, NextWatch, Inductive, PTL DEF Spec, ImplementsWatch, Watch!Spec
=============================================================================
