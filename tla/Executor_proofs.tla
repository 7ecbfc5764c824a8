--------------------------- MODULE Executor_proofs ---------------------------
(***************************************************************************)
(* What the executor guarantees for every set of jobs, attempts and         *)
(* cancelling goroutines: it uses the journal only as the journal allows,   *)
(* and the work of an attempt begins at most once.                          *)
(***************************************************************************)
EXTENDS Executor, AttemptJournal_proofs

\* One call of an operation of the journal.
JournalCall ==
  \E a \in Attempts, ok \in BOOLEAN :
    \/ Admit(a, ok)
    \/ Running(a, ok)
    \/ AssignDockerDaemon(a, ok)
    \/ RememberCancellation(a, ok)
    \/ Accept(a, ok)
    \/ RecoverUnstarted(a, ok)
    \/ \E stopped \in BOOLEAN, result \in Results \cup {"none"} :
         Complete(a, result, stopped, ok)
    \/ \E result \in Results : RememberResult(a, result, ok)
    \/ \E blocked \in BOOLEAN : BlockReplay(a, blocked, ok)

\* TypeOK without the journal's part of it.
ProcessTypeOK ==
  /\ mode \in {"down", "restoring", "up"}
  /\ todo \in SUBSET Attempts
  /\ exec \in [Jobs -> Attempts \cup {NoAttempt}]
  /\ st \in [Attempts -> Flags]
  /\ runner \in [Attempts -> Steps]
  /\ outcome \in [Attempts -> Results \cup {"none"}]
  /\ workspaces \in SUBSET Jobs
  /\ canc \in [Cancellers -> Cancellation]
  /\ live \in [Attempts -> BOOLEAN]
  /\ runs \in [Attempts -> 0 .. MaxRuns]
  /\ promised \in SUBSET Attempts
  /\ sent \in SUBSET Attempts

\* A cancellation under way has an attempt to stop.
CancelsHaveTargets ==
  \A c \in Cancellers : canc[c].pc # "idle" => canc[c].target \in Attempts

LEMMA NoFlagsType == NoFlags \in Flags
  BY DEF NoFlags, Flags

LEMMA NotCancellingType == NotCancelling \in Cancellation
  BY DEF NotCancelling, Cancellation, CancelSteps

LEMMA AttemptJob == ASSUME NEW a \in Attempts PROVE JobOf[a] \in Jobs
  BY ExecutorAssumption

\* Setting flags of one execution.
LEMMA SetFlagsTyped ==
  ASSUME st \in [Attempts -> Flags], NEW a \in Attempts
  PROVE  /\ [st EXCEPT ![a].cancelRequested = TRUE] \in [Attempts -> Flags]
         /\ [st EXCEPT ![a].stopUnverified = TRUE] \in [Attempts -> Flags]
         /\ [st EXCEPT ![a] = [@ EXCEPT !.stopConfirmed = TRUE, !.held = FALSE]]
              \in [Attempts -> Flags]
         /\ [st EXCEPT ![a] = [@ EXCEPT !.stopConfirmed = TRUE,
                                        !.stopUnverified = FALSE,
                                        !.held = FALSE]] \in [Attempts -> Flags]
  BY DEF Flags

\* Moving one cancellation on.
LEMMA CancellationMoves ==
  ASSUME NEW k \in Cancellation, NEW pc \in CancelSteps, NEW b \in BOOLEAN
  PROVE  /\ [k EXCEPT !.pc = pc] \in Cancellation
         /\ [k EXCEPT !.pc = pc].target = k.target
         /\ [k EXCEPT !.pc = pc, !.failed = b] \in Cancellation
         /\ [k EXCEPT !.pc = pc, !.failed = b].target = k.target
  BY DEF Cancellation

LEMMA CancellationReplaced ==
  ASSUME canc \in [Cancellers -> Cancellation], CancelsHaveTargets,
         NEW c \in Cancellers, NEW k \in Cancellation,
         k.pc # "idle" => k.target \in Attempts,
         canc' = [canc EXCEPT ![c] = k]
  PROVE  canc' \in [Cancellers -> Cancellation] /\ CancelsHaveTargets'
  BY DEF CancelsHaveTargets

\* A removal touches live alone, and keeps it well formed.
LEMMA RemoveTyped ==
  ASSUME live \in [Attempts -> BOOLEAN], NEW j, NEW failed, Remove(j, failed)
  PROVE  live' \in [Attempts -> BOOLEAN]
  BY DEF Remove

LEMMA ForgetTyped ==
  ASSUME exec \in [Jobs -> Attempts \cup {NoAttempt}], NEW j, ForgetExecution(j)
  PROVE  exec' \in [Jobs -> Attempts \cup {NoAttempt}]
  BY DEF ForgetExecution

LEMMA ProcessEndsTyped ==
  ASSUME ProcessTypeOK, ProcessEnds, UNCHANGED <<runs, promised, sent>>,
         live' \in [Attempts -> BOOLEAN]
  PROVE  ProcessTypeOK'
  BY NoFlagsType, NotCancellingType
     DEF ProcessTypeOK, ProcessEnds, NoExecution, NoFlag, AllIdle, NoOutcome,
         NoCancel, Steps

-----------------------------------------------------------------------------
(* Every action calls the journal at most once, with well-formed arguments.  *)

LEMMA StepsCallJournal ==
  ASSUME TypeOK, CancelsHaveTargets, Next
  PROVE  JournalCall \/ Reopen \/ UNCHANGED jvars
<1>1. ASSUME NEW a \in Attempts, Start(a) \/ Defer(a)
      PROVE  JournalCall
  BY <1>1 DEF Start, Defer, JournalCall
<1>2. ASSUME NEW a \in Attempts, RunnerStep(a)
      PROVE  JournalCall \/ UNCHANGED jvars
  <2>1. CASE RunnerEnters(a)
    BY <2>1 DEF RunnerEnters, JournalCall
  <2>2. CASE RunnerAssigns(a)
    BY <2>2 DEF RunnerAssigns, JournalCall
  <2>3. CASE RunReturns(a) \/ RunnerSettles(a)
    BY <2>3 DEF RunReturns, RunnerSettles
  <2>4. CASE RunnerFinishes(a)
    <3>1. outcome[a] \in Results \cup {"none"}
      BY DEF TypeOK
    <3>2. StoppedByRunner(a) \in BOOLEAN
      BY DEF StoppedByRunner
    <3>3. PICK ok \in BOOLEAN : Complete(a, outcome[a], StoppedByRunner(a), ok)
      BY <2>4 DEF RunnerFinishes
    <3> QED BY <3>1, <3>2, <3>3 DEF JournalCall
  <2> QED BY <1>2, <2>1, <2>2, <2>3, <2>4 DEF RunnerStep
<1>3. ASSUME NEW a \in Attempts,
             \/ RunnerPrepareFails(a)
             \/ BackendStarts(a)
             \/ BackendEnds(a)
             \/ SendResult(a)
      PROVE  UNCHANGED jvars
  BY <1>3 DEF RunnerPrepareFails, BackendStarts, BackendEnds, SendResult
<1>4. ASSUME NEW a \in Attempts,
             RememberCancel(a) \/ RejectAttempt(a) \/ AcknowledgeResult(a)
      PROVE  JournalCall
  BY <1>4 DEF RememberCancel, RejectAttempt, AcknowledgeResult, JournalCall, Results
<1>5. ASSUME NEW a \in Attempts, RestoreStep(a)
      PROVE  JournalCall \/ UNCHANGED jvars
  <2>1. CASE RestoreSettled(a)
    BY <2>1 DEF RestoreSettled
  <2>2. CASE RestoreUnstarted(a) \/ RestoreNative(a) \/ RestoreReattaches(a)
             \/ RestoreCannotVerify(a)
    BY <2>2 DEF RestoreUnstarted, RestoreNative, RestoreReattaches,
                RestoreCannotVerify, JournalCall
  <2>3. CASE RestoreStops(a)
    <3> DEFINE result == IF ReplacedAtRestart(a) THEN "failure" ELSE rec[a].result
    <3>1. result \in Results \cup {"none"}
      BY DEF TypeOK, JournalTypeOK, Record, Results
    <3>2. PICK ok \in BOOLEAN : Complete(a, result, TRUE, ok)
      BY <2>3 DEF RestoreStops
    <3> QED BY <3>1, <3>2 DEF JournalCall
  <2> QED BY <1>5, <2>1, <2>2, <2>3 DEF RestoreStep
<1>6. ASSUME NEW c \in Cancellers, CancelStep(c)
      PROVE  JournalCall \/ UNCHANGED jvars
  <2>1. CASE CancelRemoves(c) \/ CancelJoins(c) \/ CancelTimesOut(c)
             \/ CancelRechecks(c) \/ CancelReturns(c)
    BY <2>1 DEF CancelRemoves, CancelJoins, CancelTimesOut, CancelRechecks,
                CancelReturns
  <2>2. CASE CancelCommits(c)
    BY <2>2 DEF CancelCommits, CancelsHaveTargets, JournalCall
  <2> QED BY <1>6, <2>1, <2>2 DEF CancelStep
<1>7. ASSUME NEW c \in Cancellers, NEW a \in Attempts, CancelBegins(c, a)
      PROVE  JournalCall
  BY <1>7 DEF CancelBegins, JournalCall
<1>8. CASE Crash \/ Restart \/ RestoreEnds
  BY <1>8 DEF Crash, Restart, RestoreEnds
<1> QED BY <1>1, <1>2, <1>3, <1>4, <1>5, <1>6, <1>7, <1>8 DEF Next

-----------------------------------------------------------------------------
(* Type correctness, action by action.                                       *)

LEMMA RunnerTyped ==
  ASSUME TypeOK, NEW a \in Attempts, RunnerStep(a) \/ RunnerPrepareFails(a)
  PROVE  ProcessTypeOK' /\ (CancelsHaveTargets => CancelsHaveTargets')
<1> USE DEF GoTo, FinishWith, outside
<1>0. UNCHANGED canc
  BY DEF RunnerStep, RunnerEnters, RunnerAssigns, RunnerPrepareFails, RunReturns,
         RunnerSettles, RunnerFinishes
<1> SUFFICES ProcessTypeOK'
  BY <1>0 DEF CancelsHaveTargets
<1>1. CASE RunnerEnters(a)
  BY <1>1 DEF RunnerEnters, TypeOK, ProcessTypeOK, Steps, Results
<1>2. CASE RunnerPrepareFails(a)
  BY <1>2 DEF RunnerPrepareFails, TypeOK, ProcessTypeOK, Steps, Results
<1>3. CASE RunnerAssigns(a)
  BY <1>3 DEF RunnerAssigns, TypeOK, ProcessTypeOK, Steps, Results
<1>4. CASE RunReturns(a)
  <2>1. live' \in [Attempts -> BOOLEAN]
    BY <1>4, JournalAssumption DEF RunReturns, TypeOK, Runtimes
  <2> QED BY <1>4, <2>1 DEF RunReturns, TypeOK, ProcessTypeOK, Steps
<1>5. CASE RunnerSettles(a)
  <2>1. live' \in [Attempts -> BOOLEAN]
    BY <1>5, RemoveTyped DEF RunnerSettles, TypeOK
  <2>2. st' \in [Attempts -> Flags]
    <3>1. st' = st \/ st' = [st EXCEPT ![a].stopUnverified = TRUE]
      BY <1>5 DEF RunnerSettles
    <3> QED BY <3>1, SetFlagsTyped DEF TypeOK
  <2>3. outcome' \in [Attempts -> Results \cup {"none"}]
    BY <1>5 DEF RunnerSettles, TypeOK, Results
  <2>4. workspaces' \in SUBSET Jobs
    BY <1>5, AttemptJob DEF RunnerSettles, TypeOK
  <2> QED BY <1>5, <2>1, <2>2, <2>3, <2>4
          DEF RunnerSettles, TypeOK, ProcessTypeOK, Steps
<1>6. CASE RunnerFinishes(a)
  <2>1. st' \in [Attempts -> Flags]
    <3>1. \/ st' = st
          \/ st' = [st EXCEPT ![a].stopUnverified = TRUE]
          \/ st' = [st EXCEPT ![a] = [@ EXCEPT !.stopConfirmed = TRUE,
                                             !.held = FALSE]]
      BY <1>6 DEF RunnerFinishes
    <3>2. st \in [Attempts -> Flags]
      BY DEF TypeOK
    <3> QED BY <3>1, <3>2, SetFlagsTyped, Zenon
  <2> QED BY <1>6, <2>1 DEF RunnerFinishes, TypeOK, ProcessTypeOK, Steps
<1> QED BY <1>1, <1>2, <1>3, <1>4, <1>5, <1>6 DEF RunnerStep

LEMMA CancelTyped ==
  ASSUME TypeOK, CancelsHaveTargets, NEW c \in Cancellers, CancelStep(c)
  PROVE  ProcessTypeOK' /\ CancelsHaveTargets'
<1> DEFINE a == canc[c].target
<1>a. /\ canc \in [Cancellers -> Cancellation] /\ canc[c] \in Cancellation
      /\ canc[c].pc # "idle" => a \in Attempts
      /\ st \in [Attempts -> Flags]
  BY DEF TypeOK, CancelsHaveTargets
<1>b. NotCancelling \in Cancellation /\ NotCancelling.pc = "idle"
  BY NotCancellingType DEF NotCancelling
<1>c. \A k \in Cancellation :
        (k.pc # "idle" => k.target \in Attempts) /\ canc' = [canc EXCEPT ![c] = k]
        => canc' \in [Cancellers -> Cancellation] /\ CancelsHaveTargets'
  BY <1>a, CancellationReplaced
<1>d. ASSUME NEW pc \in CancelSteps, canc[c].pc # "idle",
             canc' = [canc EXCEPT ![c] = [canc[c] EXCEPT !.pc = pc]]
      PROVE  canc' \in [Cancellers -> Cancellation] /\ CancelsHaveTargets'
  BY <1>a, <1>c, <1>d, CancellationMoves
<1>e. ASSUME canc' = [canc EXCEPT ![c] = NotCancelling]
      PROVE  canc' \in [Cancellers -> Cancellation] /\ CancelsHaveTargets'
  BY <1>b, <1>c, <1>e
<1> HIDE DEF a
<1>1. CASE CancelRemoves(c)
  <2>1. live' \in [Attempts -> BOOLEAN]
    BY <1>1, RemoveTyped DEF CancelRemoves, TypeOK
  <2>2. canc' \in [Cancellers -> Cancellation] /\ CancelsHaveTargets'
    <3>1. PICK failed \in BOOLEAN :
            canc' = [canc EXCEPT ![c] = [canc[c] EXCEPT !.pc = "wait",
                                                        !.failed = failed]]
      BY <1>1 DEF CancelRemoves
    <3>2. canc[c].pc # "idle" /\ "wait" \in CancelSteps
      BY <1>1 DEF CancelRemoves, CancelSteps
    <3> QED BY <1>a, <1>c, <3>1, <3>2, CancellationMoves DEF a
  <2> QED BY <1>1, <2>1, <2>2 DEF CancelRemoves, TypeOK, ProcessTypeOK
<1>2. CASE CancelJoins(c)
  <2>1. canc' \in [Cancellers -> Cancellation] /\ CancelsHaveTargets'
    <3>1. /\ canc[c].pc # "idle"
          /\ \/ canc' = [canc EXCEPT ![c] = NotCancelling]
             \/ canc' = [canc EXCEPT ![c] = [canc[c] EXCEPT !.pc = "commit"]]
             \/ canc' = [canc EXCEPT ![c] = [canc[c] EXCEPT !.pc = "recheck"]]
      BY <1>2 DEF CancelJoins
    <3>2. {"commit", "recheck"} \subseteq CancelSteps
      BY DEF CancelSteps
    <3> QED BY <1>d, <1>e, <3>1, <3>2
  <2> QED BY <1>2, <2>1 DEF CancelJoins, outside, TypeOK, ProcessTypeOK
<1>3. CASE CancelTimesOut(c)
  BY <1>3, <1>e DEF CancelTimesOut, outside, TypeOK, ProcessTypeOK
<1>4. CASE CancelRechecks(c)
  <2>1. live' \in [Attempts -> BOOLEAN]
    BY <1>4, RemoveTyped DEF CancelRechecks, TypeOK
  <2>2. canc' \in [Cancellers -> Cancellation] /\ CancelsHaveTargets'
    <3>1. /\ canc[c].pc # "idle"
          /\ \/ canc' = [canc EXCEPT ![c] = NotCancelling]
             \/ canc' = [canc EXCEPT ![c] = [canc[c] EXCEPT !.pc = "commit"]]
      BY <1>4 DEF CancelRechecks
    <3>2. "commit" \in CancelSteps
      BY DEF CancelSteps
    <3> QED BY <1>d, <1>e, <3>1, <3>2
  <2> QED BY <1>4, <2>1, <2>2 DEF CancelRechecks, TypeOK, ProcessTypeOK
<1>5. CASE CancelCommits(c)
  <2>1. canc[c].pc # "idle" /\ a \in Attempts
    BY <1>5, <1>a DEF CancelCommits
  <2>2. canc' \in [Cancellers -> Cancellation] /\ CancelsHaveTargets'
    <3>1. \/ canc' = [canc EXCEPT ![c] = NotCancelling]
          \/ canc' = [canc EXCEPT ![c] = [canc[c] EXCEPT !.pc = "return"]]
      BY <1>5 DEF CancelCommits
    <3>2. "return" \in CancelSteps
      BY DEF CancelSteps
    <3> QED BY <1>d, <1>e, <2>1, <3>1, <3>2
  <2>3. st' \in [Attempts -> Flags]
    <3>1. \/ st' = [st EXCEPT ![a].stopUnverified = TRUE]
          \/ st' = [st EXCEPT ![a] = [@ EXCEPT !.stopConfirmed = TRUE,
                                             !.stopUnverified = FALSE,
                                             !.held = FALSE]]
      BY <1>5 DEF CancelCommits, a
    <3> QED BY <1>a, <2>1, <3>1, SetFlagsTyped, Zenon
  <2>4. workspaces' \in SUBSET Jobs /\ promised' \in SUBSET Attempts
    BY <1>5, <2>1 DEF CancelCommits, TypeOK, a
  <2> QED BY <1>5, <2>2, <2>3, <2>4 DEF CancelCommits, TypeOK, ProcessTypeOK
<1>6. CASE CancelReturns(c)
  <2>1. exec' \in [Jobs -> Attempts \cup {NoAttempt}]
    BY <1>6, ForgetTyped DEF CancelReturns, TypeOK
  <2> QED BY <1>6, <1>e, <2>1 DEF CancelReturns, outside, TypeOK, ProcessTypeOK
<1> QED BY <1>1, <1>2, <1>3, <1>4, <1>5, <1>6 DEF CancelStep

LEMMA CancelBeginsTyped ==
  ASSUME TypeOK, CancelsHaveTargets, NEW c \in Cancellers, NEW a \in Attempts,
         CancelBegins(c, a)
  PROVE  ProcessTypeOK' /\ CancelsHaveTargets'
<1>1. st' \in [Attempts -> Flags]
  <2>1. st' = st \/ st' = [st EXCEPT ![a].cancelRequested = TRUE]
    BY DEF CancelBegins
  <2>2. st \in [Attempts -> Flags]
    BY DEF TypeOK
  <2> QED BY <2>1, <2>2, SetFlagsTyped, Zenon
<1>2. promised' \in SUBSET Attempts
  BY DEF CancelBegins, TypeOK
<1>3. canc' \in [Cancellers -> Cancellation] /\ CancelsHaveTargets'
  <2> DEFINE unstarted == Cancelled(a).knownUnstarted
             returning == [NotCancelling EXCEPT !.pc = "return", !.target = a]
             stopping(pc) == [pc |-> pc, target |-> a, knownUnstarted |-> unstarted,
                              failed |-> FALSE]
  <2>1. unstarted \in BOOLEAN
    <3>1. unstarted =
            (rec[a].knownUnstarted \/ /\ Docker(rec[a].runtime) /\ ~rec[a].daemon
                                      /\ rec[a].phase = "running")
      BY DEF Cancelled, TypeOK, JournalTypeOK, Record
    <3> QED BY <3>1
  <2>2. \/ canc' = canc
        \/ canc' = [canc EXCEPT ![c] = returning]
        \/ canc' = [canc EXCEPT ![c] = stopping("remove")]
        \/ canc' = [canc EXCEPT ![c] = stopping("wait")]
    BY DEF CancelBegins
  <2> HIDE DEF unstarted
  <2>3. returning \in Cancellation /\ returning.target = a
    BY DEF NotCancelling, Cancellation, CancelSteps
  <2>4. \A pc \in {"remove", "wait"} :
          stopping(pc) \in Cancellation /\ stopping(pc).target = a
    BY <2>1 DEF Cancellation, CancelSteps
  <2>5. canc \in [Cancellers -> Cancellation]
    BY DEF TypeOK
  <2> HIDE DEF returning, stopping
  <2>6. CASE canc' = canc
    BY <2>5, <2>6 DEF CancelsHaveTargets
  <2> QED BY <2>2, <2>3, <2>4, <2>5, <2>6, CancellationReplaced
<1> QED BY <1>1, <1>2, <1>3 DEF CancelBegins, TypeOK, ProcessTypeOK

LEMMA RestoreTyped ==
  ASSUME TypeOK, NEW a \in Attempts, RestoreStep(a)
  PROVE  ProcessTypeOK' /\ (CancelsHaveTargets => CancelsHaveTargets')
<1>1. live' \in [Attempts -> BOOLEAN] /\ UNCHANGED <<runs, promised, sent>>
  BY DEF TypeOK, RestoreStep, RestoreSettled, RestoreUnstarted, RestoreNative,
         RestoreReattaches, RestoreStops, RestoreCannotVerify, outside
<1>2. PICK ok \in BOOLEAN : TrackRestored(a, ok) \/ Restored(a, ok)
  BY DEF RestoreStep, RestoreSettled, RestoreUnstarted, RestoreNative,
         RestoreReattaches, RestoreStops, RestoreCannotVerify
<1>3. CASE ProcessEnds
  BY <1>1, <1>3, ProcessEndsTyped
     DEF TypeOK, ProcessTypeOK, ProcessEnds, NoCancel, NotCancelling, CancelsHaveTargets
<1>4. CASE TrackRestored(a, ok) /\ ~ProcessEnds
  <2>1. [cancelRequested |-> rec[a].cancelRequested, stopConfirmed |-> FALSE,
         stopUnverified |-> TRUE, held |-> TRUE] \in Flags
    BY DEF TypeOK, JournalTypeOK, Record, Flags
  <2>2. exec' \in [Jobs -> Attempts \cup {NoAttempt}]
    BY <1>4 DEF TrackRestored, TypeOK
  <2>3. st' \in [Attempts -> Flags]
    BY <1>4, <2>1 DEF TrackRestored, TypeOK
  <2>4. runner' \in [Attempts -> Steps]
    BY <1>4 DEF TrackRestored, TypeOK, Steps
  <2>5. workspaces' \in SUBSET Jobs /\ todo' \in SUBSET Attempts
    BY <1>4, AttemptJob DEF TrackRestored, TypeOK
  <2>6. UNCHANGED <<mode, outcome, canc>>
    BY <1>4 DEF TrackRestored
  <2> QED BY <1>1, <2>2, <2>3, <2>4, <2>5, <2>6
          DEF TypeOK, ProcessTypeOK, CancelsHaveTargets
<1>5. CASE Restored(a, ok) /\ ~ProcessEnds
  BY <1>1, <1>5 DEF Restored, TypeOK, ProcessTypeOK, CancelsHaveTargets
<1> QED BY <1>2, <1>3, <1>4, <1>5

LEMMA StepsTyped ==
  ASSUME TypeOK, CancelsHaveTargets, Next
  PROVE  ProcessTypeOK' /\ CancelsHaveTargets'
<1>1. ASSUME NEW a \in Attempts, Start(a)
      PROVE  ProcessTypeOK' /\ CancelsHaveTargets'
  <2>1. [NoFlags EXCEPT !.held = TRUE] \in Flags
    BY DEF NoFlags, Flags
  <2>2. exec' \in [Jobs -> Attempts \cup {NoAttempt}]
    BY <1>1 DEF Start, TypeOK
  <2>3. st' \in [Attempts -> Flags]
    BY <1>1, <2>1 DEF Start, TypeOK
  <2>4. runner' \in [Attempts -> Steps]
    BY <1>1 DEF Start, TypeOK, Steps
  <2> QED BY <1>1, <2>2, <2>3, <2>4
          DEF Start, outside, TypeOK, ProcessTypeOK, CancelsHaveTargets
<1>2. ASSUME NEW a \in Attempts,
             Defer(a) \/ RememberCancel(a) \/ RejectAttempt(a) \/ SendResult(a)
      PROVE  ProcessTypeOK' /\ CancelsHaveTargets'
  BY <1>2 DEF Defer, RememberCancel, RejectAttempt, SendResult, process, outside,
              TypeOK, ProcessTypeOK, CancelsHaveTargets
<1>3. ASSUME NEW a \in Attempts, BackendStarts(a) \/ BackendEnds(a)
      PROVE  ProcessTypeOK' /\ CancelsHaveTargets'
  <2>1. runs' \in [Attempts -> 0 .. MaxRuns]
    BY <1>3 DEF BackendStarts, BackendEnds, MaxRuns, TypeOK
  <2>2. runner' \in [Attempts -> Steps]
    BY <1>3 DEF BackendStarts, BackendEnds, GoTo, process, Steps, TypeOK
  <2>3. live' \in [Attempts -> BOOLEAN]
    BY <1>3 DEF BackendStarts, BackendEnds, TypeOK
  <2> QED BY <1>3, <2>1, <2>2, <2>3
          DEF BackendStarts, BackendEnds, process, TypeOK, ProcessTypeOK,
              CancelsHaveTargets
<1>4. ASSUME NEW a \in Attempts, AcknowledgeResult(a)
      PROVE  ProcessTypeOK' /\ CancelsHaveTargets'
  <2>1. exec' \in [Jobs -> Attempts \cup {NoAttempt}]
    BY <1>4, ForgetTyped DEF AcknowledgeResult, TypeOK
  <2> QED BY <1>4, <2>1 DEF AcknowledgeResult, outside, TypeOK, ProcessTypeOK,
                            CancelsHaveTargets
<1>5. ASSUME NEW a \in Attempts,
             RunnerStep(a) \/ RunnerPrepareFails(a) \/ RestoreStep(a)
      PROVE  ProcessTypeOK' /\ CancelsHaveTargets'
  BY <1>5, RunnerTyped, RestoreTyped
<1>6. ASSUME NEW c \in Cancellers,
             CancelStep(c) \/ \E a \in Attempts : CancelBegins(c, a)
      PROVE  ProcessTypeOK' /\ CancelsHaveTargets'
  BY <1>6, CancelTyped, CancelBeginsTyped
<1>7. CASE Crash
  BY <1>7, ProcessEndsTyped
     DEF Crash, outside, TypeOK, ProcessTypeOK, ProcessEnds, NoCancel, NotCancelling,
         CancelsHaveTargets
<1>8. CASE Restart \/ RestoreEnds
  BY <1>8 DEF Restart, RestoreEnds, Recorded, process, outside, TypeOK, ProcessTypeOK,
              CancelsHaveTargets
<1> QED BY <1>1, <1>2, <1>3, <1>4, <1>5, <1>6, <1>7, <1>8 DEF Next

-----------------------------------------------------------------------------
(* The executor runs the journal, so what the journal promises holds here.   *)

LEMMA JournalCallKeepsInv ==
  ASSUME JournalInv, JournalCall \/ Reopen \/ UNCHANGED jvars
  PROVE  JournalInv'
<1>1. JournalCall => JournalNext
  BY DEF JournalCall, JournalNext
<1>2. Reopen => JournalNext
  BY DEF JournalNext
<1> QED BY <1>1, <1>2, NextKeepsInv

\* Well-formed, with an intact journal and cancellations that have a target.
ExecutorInv == TypeOK /\ JournalInv /\ CancelsHaveTargets

LEMMA ExecutorInitInv == Init => ExecutorInv
<1> SUFFICES ASSUME Init PROVE ExecutorInv
  OBVIOUS
<1>1. JournalInv
  BY InitInv DEF Init
<1>2. ProcessTypeOK /\ CancelsHaveTargets
  BY NoFlagsType, NotCancellingType
     DEF Init, ProcessTypeOK, CancelsHaveTargets, NoExecution, NoFlag, AllIdle,
         NoOutcome, NoCancel, NotCancelling, Steps, MaxRuns
<1> QED BY <1>1, <1>2 DEF ExecutorInv, JournalInv, TypeOK, ProcessTypeOK

LEMMA ExecutorStepInv == ExecutorInv /\ [Next]_vars => ExecutorInv'
<1> SUFFICES ASSUME ExecutorInv, [Next]_vars PROVE ExecutorInv'
  OBVIOUS
<1>1. CASE Next
  <2>1. JournalInv'
    BY <1>1, StepsCallJournal, JournalCallKeepsInv DEF ExecutorInv
  <2>2. ProcessTypeOK' /\ CancelsHaveTargets'
    BY <1>1, StepsTyped DEF ExecutorInv
  <2> QED BY <2>1, <2>2 DEF ExecutorInv, JournalInv, TypeOK, ProcessTypeOK
<1>2. CASE UNCHANGED vars
  <2>1. JournalInv'
    BY <1>2, UnchangedKeepsInv DEF ExecutorInv, vars
  <2>2. ProcessTypeOK' /\ CancelsHaveTargets'
    BY <1>2 DEF ExecutorInv, vars, process, outside, TypeOK, ProcessTypeOK,
                CancelsHaveTargets
  <2> QED BY <2>1, <2>2 DEF ExecutorInv, JournalInv, TypeOK, ProcessTypeOK
<1> QED BY <1>1, <1>2

THEOREM ExecutorInvariant == Spec => []ExecutorInv
<1> QED BY ExecutorInitInv, ExecutorStepInv, PTL DEF Spec

\* Every variable of the executor keeps its type, whatever crashes or fails.
THEOREM ExecutorTypeCorrect == Spec => []TypeOK
<1>1. ExecutorInv => TypeOK
  BY DEF ExecutorInv
<1> QED BY <1>1, ExecutorInvariant, PTL

\* The executor implements the journal's specification: it only ever performs
\* the journal's operations, and reopens it only when a process starts.
THEOREM ExecutorUsesJournal == Spec => JournalSpec
<1>1. Init => JournalInit
  BY DEF Init
<1>2. ExecutorInv /\ [Next]_vars => [JournalNext]_jvars
  <2> SUFFICES ASSUME ExecutorInv, [Next]_vars PROVE [JournalNext]_jvars
    OBVIOUS
  <2>1. CASE UNCHANGED vars
    BY <2>1 DEF vars
  <2>2. CASE Next
    BY <2>2, StepsCallJournal DEF ExecutorInv, JournalCall, JournalNext
  <2> QED BY <2>1, <2>2
<1> QED BY <1>1, <1>2, ExecutorInvariant, PTL DEF Spec, JournalSpec

\* So no execution, cancellation, crash or failed write leaves files that the
\* next agent refuses to open.
THEOREM ExecutorKeepsJournalOpenable == Spec => []AlwaysOpenable
<1> QED BY ExecutorUsesJournal, JournalAlwaysOpens, PTL

-----------------------------------------------------------------------------
(* At most one run.  An attempt that has run is spent: its record is on disk *)
(* and in memory, and something in it, or its having been recovered, makes   *)
(* it inadmissible.  No operation of the journal makes it admissible again.  *)

Barred(r) == ~r.knownUnstarted \/ r.cancelRequested \/ r.result # "none"

Spent(a) ==
  /\ Present(rec[a]) /\ Present(disk[a])
  /\ a \in recovered \/ Barred(rec[a])

RunOnceInv ==
  \A a \in Attempts :
    /\ runs[a] <= 1
    /\ runs[a] > 0 => Spent(a)
    /\ runner[a] \in {"admitted", "preparing", "run"} => runs[a] = 0
    /\ runner[a] \in {"preparing", "run"} => Spent(a)

LEMMA StoreKeepsSpent ==
  ASSUME JournalInv, NEW a \in Attempts, Spent(a),
         NEW b \in Attempts, NEW r, NEW ok, Store(b, r, ok),
         a \in recovered \/ Barred(r) \/ a # b
  PROVE  Spent(a)'
<1>1. rec \in [Attempts -> Record] /\ disk \in [Attempts -> Record]
  BY DEF JournalInv, JournalTypeOK
<1>2. CASE Written(b, r)
  BY <1>1, <1>2 DEF Written, Valid, Spent, Present, Barred
<1>3. CASE Fenced(b, r)
  BY <1>1, <1>3 DEF Fenced, Valid, Spent, Present, Barred
<1>4. CASE UNCHANGED jvars
  BY <1>4 DEF jvars, Spent, Present, Barred
<1> QED BY <1>2, <1>3, <1>4 DEF Store

LEMMA CallKeepsSpent ==
  ASSUME JournalInv, JournalCall, NEW a \in Attempts, Spent(a)
  PROVE  Spent(a)'
<1> PICK b \in Attempts, ok \in BOOLEAN :
      \/ Admit(b, ok)
      \/ Running(b, ok)
      \/ AssignDockerDaemon(b, ok)
      \/ RememberCancellation(b, ok)
      \/ Accept(b, ok)
      \/ RecoverUnstarted(b, ok)
      \/ \E stopped \in BOOLEAN, result \in Results \cup {"none"} :
           Complete(b, result, stopped, ok)
      \/ \E result \in Results : RememberResult(b, result, ok)
      \/ \E blocked \in BOOLEAN : BlockReplay(b, blocked, ok)
  BY DEF JournalCall
<1>a. rec[b] \in Record
  BY RecordsTyped
<1>b. ASSUME UNCHANGED jvars PROVE Spent(a)'
  BY <1>b DEF jvars, Spent, Present, Barred
<1>c. ASSUME NEW r, Store(b, r, ok), a = b /\ Barred(rec[a]) => Barred(r)
      PROVE  Spent(a)'
  BY <1>c, StoreKeepsSpent DEF Spent
<1>1. CASE Admit(b, ok)
  <2>1. a = b => ~Admissible(a)
    BY DEF Admissible, Spent, Barred
  <2> QED BY <1>1, <1>b, <1>c, <2>1 DEF Admit, Refused
<1>2. CASE Running(b, ok)
  <2> DEFINE r == [rec[b] EXCEPT !.phase = "running", !.knownUnstarted = FALSE]
  <2>1. Barred(r)
    BY <1>a DEF Barred, Record
  <2> HIDE DEF r
  <2>2. Store(b, r, ok) \/ UNCHANGED jvars
    BY <1>2 DEF Running, Refused, r
  <2> QED BY <1>b, <1>c, <2>1, <2>2
<1>3. CASE AssignDockerDaemon(b, ok)
  <2> DEFINE r == [rec[b] EXCEPT !.daemon = TRUE]
  <2>1. Barred(rec[b]) => Barred(r)
    BY <1>a DEF Barred, Record
  <2> HIDE DEF r
  <2>2. Store(b, r, ok) \/ UNCHANGED jvars
    BY <1>3 DEF AssignDockerDaemon, Refused, r
  <2> QED BY <1>b, <1>c, <2>1, <2>2
<1>4. CASE RememberCancellation(b, ok)
  <2>1. Barred(Cancelled(b))
    BY <1>a DEF Barred, Cancelled, Record
  <2> QED BY <1>4, <1>b, <1>c, <2>1 DEF RememberCancellation, Refused
<1>5. CASE Accept(b, ok)
  <2> DEFINE r == [rec[b] EXCEPT !.accepted = TRUE]
  <2>1. Barred(rec[b]) => Barred(r)
    BY <1>a DEF Barred, Record
  <2> HIDE DEF r
  <2>2. Store(b, r, ok) \/ UNCHANGED jvars
    BY <1>5 DEF Accept, r
  <2> QED BY <1>b, <1>c, <2>1, <2>2
<1>6. CASE RecoverUnstarted(b, ok)
  <2> DEFINE r == [rec[b] EXCEPT
                     !.knownUnstarted = TRUE, !.stopVerified = TRUE,
                     !.replayBlocked = FALSE, !.phase = "finished",
                     !.result = IF @ = "none" THEN "failure" ELSE @]
  <2>1. Barred(r)
    BY <1>a DEF Barred, Record
  <2> HIDE DEF r
  <2>2. Store(b, r, ok) \/ UNCHANGED jvars
    BY <1>6 DEF RecoverUnstarted, Refused, r
  <2> QED BY <1>b, <1>c, <2>1, <2>2
<1>7. ASSUME NEW stopped \in BOOLEAN, NEW result \in Results \cup {"none"},
             Complete(b, result, stopped, ok)
      PROVE  Spent(a)'
  <2>1. Barred(rec[b]) => Barred(Completed(b, result, stopped))
    BY <1>a DEF Barred, Completed, Record, Results
  <2> QED BY <1>7, <1>b, <1>c, <2>1 DEF Complete, Refused
<1>8. ASSUME NEW result \in Results, RememberResult(b, result, ok)
      PROVE  Spent(a)'
  <2>1. Barred(ResultRemembered(b, result))
    BY <1>a DEF Barred, ResultRemembered, Record, Results
  <2> QED BY <1>8, <1>b, <1>c, <2>1 DEF RememberResult, Refused
<1>9. ASSUME NEW blocked \in BOOLEAN, BlockReplay(b, blocked, ok)
      PROVE  Spent(a)'
  <2> DEFINE r == [rec[b] EXCEPT !.replayBlocked = blocked]
  <2>1. Barred(rec[b]) => Barred(r)
    BY <1>a DEF Barred, Record
  <2> HIDE DEF r
  <2>2. Store(b, r, ok) \/ UNCHANGED jvars
    BY <1>9 DEF BlockReplay, Refused, r
  <2> QED BY <1>b, <1>c, <2>1, <2>2
<1> QED BY <1>1, <1>2, <1>3, <1>4, <1>5, <1>6, <1>7, <1>8, <1>9

\* A new process finds a spent attempt among those it read back.
LEMMA ReopenKeepsSpent ==
  ASSUME Reopen, NEW a \in Attempts, Spent(a)
  PROVE  Spent(a)'
  BY DEF Reopen, Spent, Recorded, Present

LEMMA StepsKeepSpent ==
  ASSUME ExecutorInv, Next, NEW a \in Attempts, Spent(a)
  PROVE  Spent(a)'
<1>1. CASE JournalCall
  BY <1>1, CallKeepsSpent DEF ExecutorInv
<1>2. CASE Reopen
  BY <1>2, ReopenKeepsSpent
<1>3. CASE UNCHANGED jvars
  BY <1>3 DEF jvars, Spent, Present, Barred
<1> QED BY <1>1, <1>2, <1>3, StepsCallJournal DEF ExecutorInv

\* Entering the runtime spends the attempt.
LEMMA EnteringSpends ==
  ASSUME ExecutorInv, NEW a \in Attempts, Running(a, TRUE)
  PROVE  Spent(a)'
<1> DEFINE r == [rec[a] EXCEPT !.phase = "running", !.knownUnstarted = FALSE]
<1>1. rec[a] \in Record /\ rec \in [Attempts -> Record] /\ disk \in [Attempts -> Record]
  BY DEF ExecutorInv, JournalInv, JournalTypeOK
<1>2. Barred(r) /\ Present(r)
  BY <1>1 DEF Barred, Present, Record
<1> HIDE DEF r
<1>3. Written(a, r)
  BY DEF Running, Refused, Store, r
<1> QED BY <1>1, <1>2, <1>3 DEF Written, Spent, Present, Barred

\* Steps that start no run and bring no goroutine closer to one.
LEMMA OtherStepsKeepRunOnce ==
  ASSUME ExecutorInv, RunOnceInv, Next, UNCHANGED runs,
         \A a \in Attempts :
           runner'[a] = runner[a] \/ runner'[a] \notin {"admitted", "preparing", "run"}
  PROVE  RunOnceInv'
  BY StepsKeepSpent DEF RunOnceInv

LEMMA RunnerKeepsRunOnce ==
  ASSUME ExecutorInv, RunOnceInv, Next, NEW a \in Attempts,
         RunnerStep(a) \/ RunnerPrepareFails(a)
  PROVE  RunOnceInv'
<1>a. runner \in [Attempts -> Steps]
  BY DEF ExecutorInv, TypeOK
<1>1. CASE RunnerEnters(a)
  <2>1. UNCHANGED runs
    BY <1>1 DEF RunnerEnters, outside
  <2>2. CASE Running(a, TRUE) /\ runner' = [runner EXCEPT ![a] = "preparing"]
    BY <1>1, <1>a, <2>1, <2>2, EnteringSpends, StepsKeepSpent DEF RunnerEnters, RunOnceInv
  <2>3. CASE runner' = [runner EXCEPT ![a] = "finishing"]
    BY <1>a, <2>1, <2>3, OtherStepsKeepRunOnce
  <2> QED BY <1>1, <2>2, <2>3 DEF RunnerEnters, GoTo, FinishWith
<1>2. CASE RunnerAssigns(a)
  <2>1. UNCHANGED runs /\ runner[a] = "preparing"
    BY <1>2 DEF RunnerAssigns, outside
  <2>2. CASE runner' = [runner EXCEPT ![a] = "run"]
    BY <1>a, <2>1, <2>2, StepsKeepSpent DEF RunOnceInv
  <2>3. CASE runner' = [runner EXCEPT ![a] = "finishing"]
    BY <1>a, <2>1, <2>3, OtherStepsKeepRunOnce
  <2> QED BY <1>2, <2>2, <2>3 DEF RunnerAssigns, GoTo, FinishWith
<1>3. CASE RunnerPrepareFails(a) \/ RunReturns(a) \/ RunnerSettles(a) \/ RunnerFinishes(a)
  <2>1. UNCHANGED runs
    BY <1>3 DEF RunnerPrepareFails, RunReturns, RunnerSettles, RunnerFinishes, outside
  <2>2. PICK step \in {"finishing", "returned", "done"} :
          runner' = [runner EXCEPT ![a] = step]
    BY <1>3 DEF RunnerPrepareFails, RunReturns, RunnerSettles, RunnerFinishes,
                GoTo, FinishWith
  <2> QED BY <1>a, <2>1, <2>2, OtherStepsKeepRunOnce
<1> QED BY <1>1, <1>2, <1>3 DEF RunnerStep

\* Only an attempt that is not spent is admitted.
LEMMA StartKeepsRunOnce ==
  ASSUME ExecutorInv, RunOnceInv, Next, NEW a \in Attempts, Start(a)
  PROVE  RunOnceInv'
<1>1. UNCHANGED runs
  BY DEF Start, outside
<1>2. runner \in [Attempts -> Steps] /\ runs[a] \in 0 .. 2
  BY DEF ExecutorInv, TypeOK, MaxRuns
<1>3. ~Spent(a)
  BY DEF Start, Admissible, Spent, Barred
<1>4. runs[a] = 0
  BY <1>2, <1>3 DEF RunOnceInv
<1>5. CASE runner' = [runner EXCEPT ![a] = "admitted"]
  BY <1>1, <1>2, <1>4, <1>5, StepsKeepSpent DEF RunOnceInv
<1>6. CASE UNCHANGED runner
  BY <1>1, <1>6, OtherStepsKeepRunOnce
<1> QED BY <1>5, <1>6 DEF Start

LEMMA BackendStartsKeepsRunOnce ==
  ASSUME ExecutorInv, RunOnceInv, Next, NEW a \in Attempts, BackendStarts(a)
  PROVE  RunOnceInv'
<1>1. /\ runner \in [Attempts -> Steps] /\ runs \in [Attempts -> 0 .. 2]
      /\ runner[a] = "run"
      /\ runner' = [runner EXCEPT ![a] = "running"]
      /\ runs' = [runs EXCEPT ![a] = runs[a] + 1]
  BY DEF ExecutorInv, TypeOK, MaxRuns, BackendStarts, GoTo
<1>2. runs[a] = 0 /\ Spent(a)
  BY <1>1 DEF RunOnceInv
<1>3. runs'[a] = 1 /\ runner'[a] = "running"
  BY <1>1, <1>2
<1>4. \A b \in Attempts : b # a => runs'[b] = runs[b] /\ runner'[b] = runner[b]
  BY <1>1
<1>5. \A b \in Attempts : Spent(b) => Spent(b)'
  BY StepsKeepSpent
<1> QED BY <1>2, <1>3, <1>4, <1>5 DEF RunOnceInv

LEMMA RestoreKeepsRunOnce ==
  ASSUME ExecutorInv, RunOnceInv, Next, NEW a \in Attempts, RestoreStep(a)
  PROVE  RunOnceInv'
<1>1. UNCHANGED runs
  BY DEF RestoreStep, RestoreSettled, RestoreUnstarted, RestoreNative,
         RestoreReattaches, RestoreStops, RestoreCannotVerify, outside
<1>2. PICK ok \in BOOLEAN : TrackRestored(a, ok) \/ Restored(a, ok)
  BY DEF RestoreStep, RestoreSettled, RestoreUnstarted, RestoreNative,
         RestoreReattaches, RestoreStops, RestoreCannotVerify
<1>3. \/ runner' = AllIdle
      \/ runner' = [runner EXCEPT ![a] = "done"]
      \/ runner' = runner
  BY <1>2 DEF TrackRestored, Restored, ProcessEnds
<1>4. runner \in [Attempts -> Steps]
  BY DEF ExecutorInv, TypeOK
<1>5. \A b \in Attempts :
        runner'[b] = runner[b] \/ runner'[b] \notin {"admitted", "preparing", "run"}
  BY <1>3, <1>4 DEF AllIdle
<1> QED BY <1>1, <1>5, OtherStepsKeepRunOnce

LEMMA StepsKeepRunOnce ==
  ASSUME ExecutorInv, RunOnceInv, Next
  PROVE  RunOnceInv'
<1>1. ASSUME NEW a \in Attempts,
             Start(a) \/ BackendStarts(a) \/ RestoreStep(a)
             \/ RunnerStep(a) \/ RunnerPrepareFails(a)
      PROVE  RunOnceInv'
  BY <1>1, StartKeepsRunOnce, BackendStartsKeepsRunOnce, RestoreKeepsRunOnce,
     RunnerKeepsRunOnce
<1>2. ASSUME NEW a \in Attempts,
             \/ Defer(a)
             \/ BackendEnds(a)
             \/ RememberCancel(a)
             \/ RejectAttempt(a)
             \/ SendResult(a)
             \/ AcknowledgeResult(a)
      PROVE  RunOnceInv'
  <2>1. UNCHANGED <<runs, runner>>
    BY <1>2 DEF Defer, BackendEnds, RememberCancel, RejectAttempt, SendResult,
                AcknowledgeResult, process, outside
  <2> QED BY <2>1, OtherStepsKeepRunOnce
<1>3. ASSUME NEW c \in Cancellers,
             CancelStep(c) \/ \E a \in Attempts : CancelBegins(c, a)
      PROVE  RunOnceInv'
  <2>1. UNCHANGED <<runs, runner>>
    BY <1>3 DEF CancelStep, CancelRemoves, CancelJoins, CancelTimesOut,
                CancelRechecks, CancelCommits, CancelReturns, CancelBegins, outside
  <2> QED BY <2>1, OtherStepsKeepRunOnce
<1>4. CASE Crash
  <2>1. UNCHANGED runs /\ runner' = AllIdle
    BY <1>4 DEF Crash, ProcessEnds, outside
  <2> QED BY <2>1, OtherStepsKeepRunOnce DEF AllIdle
<1>5. CASE Restart \/ RestoreEnds
  <2>1. UNCHANGED <<runs, runner>>
    BY <1>5 DEF Restart, RestoreEnds, process, outside
  <2> QED BY <2>1, OtherStepsKeepRunOnce
<1> QED BY <1>1, <1>2, <1>3, <1>4, <1>5 DEF Next

LEMMA RunOnceInvariant == Spec => []RunOnceInv
<1>1. Init => RunOnceInv
  BY DEF Init, RunOnceInv, AllIdle
<1>2. ExecutorInv /\ RunOnceInv /\ [Next]_vars => RunOnceInv'
  <2> SUFFICES ASSUME ExecutorInv, RunOnceInv, [Next]_vars PROVE RunOnceInv'
    OBVIOUS
  <2>1. CASE UNCHANGED vars
    BY <2>1 DEF vars, jvars, process, outside, RunOnceInv, Spent, Present, Barred
  <2> QED BY <2>1, StepsKeepRunOnce
<1> QED BY <1>1, <1>2, ExecutorInvariant, PTL DEF Spec

\* The work of an attempt begins at most once, for every number of jobs,
\* tokens and concurrent cancellations and whatever crashes (journal.Admit,
\* journal.Running).
THEOREM ExecutorRunsAtMostOnce == Spec => []RunAtMostOnce
<1>1. RunOnceInv => RunAtMostOnce
  BY DEF RunOnceInv, RunAtMostOnce
<1> QED BY <1>1, RunOnceInvariant, PTL
=============================================================================
