----------------------------- MODULE PoolClient -----------------------------
(***************************************************************************)
(* The pool client of one GPU: assignments, deferral, cancellation,         *)
(* acknowledgement and restart (internal/pool/client.go), over the result   *)
(* outbox and the execution journal.                                        *)
(*                                                                          *)
(* The coordinator sends any message at any time: an assignment, again or   *)
(* late; a cancellation, also of what it never dispatched; an               *)
(* acknowledgement of anything it has ever received.  The executor appears  *)
(* by what the client sees of it, with every outcome Executor allows.       *)
(*                                                                          *)
(* A handler is one action, except where it writes the journal twice: then  *)
(* it keeps assignmentsMu (the variable "lock") from one action to the      *)
(* next, so that the process can die in between.                            *)
(*                                                                          *)
(* Left out: progress messages, cleanup requests, and settledAttempts,      *)
(* which can only repeat what the journal has already answered.             *)
(***************************************************************************)
EXTENDS ResultOutbox

CONSTANTS
  MaxDeferred,   \* maxDeferredAssignments
  MaxTombstones, \* maxCancellationTombstones
  CancelKeys,    \* the jobs and attempts that are ever cancelled by name; the
                 \* name of a job alone stands for its attempt without a token
  LegacyOutbox   \* attempts whose result an agent without a journal left

ASSUME ClientAssumption ==
  /\ MaxDeferred \in Nat /\ MaxTombstones \in Nat
  /\ CancelKeys \subseteq Keys
  /\ \A j \in Jobs \cap CancelKeys : \E a \in Tokenless : JobOf[a] = j
  /\ LegacyOutbox \subseteq Attempts

VARIABLES
  mode,       \* "down", "restoring", "adopting", "loading" or "up"
  todo,       \* records the current stage of a start has not handled
  lock,       \* what the holder of assignmentsMu still has to do
  tombstones, \* Client.cancellationTombstones
  fenced,     \* Client.cancellationAdmissionFenced
  deferred,   \* Client.deferredAssignments
  active,     \* activeAssignment, activeDispatchToken and the job slot
  cancelling, \* Client.cancelling and the goroutine behind each entry
  run,        \* the executor's view of each attempt
  answers,    \* results of each attempt the coordinator has received
  promised    \* attempts the coordinator was told are stopped

control == <<mode, todo, lock>>
admission == <<tombstones, fenced, deferred, active>>
coordinator == <<answers, promised>>
vars == <<jvars, outboxVars, control, admission, cancelling, run, coordinator>>

Tombstone == [set : BOOLEAN, knownUnstarted : BOOLEAN, stopVerified : BOOLEAN]
NoTombstone == [set |-> FALSE, knownUnstarted |-> FALSE, stopVerified |-> FALSE]
Entombed == {a \in Attempts : tombstones[a].set}

Free == [pc |-> "free", key |-> NoAttempt, attempt |-> NoAttempt]
Drain == [Free EXCEPT !.pc = "drain"]

\* A canceller asks the executor, waits for it, and returns; its target is the
\* attempt the executor was found to track.
Cancellation == [pc : {"idle", "ask", "wait", "stopped", "failed"},
                 target : Attempts \cup {NoAttempt}]
NotCancelling == [pc |-> "idle", target |-> NoAttempt]

\* tracked: Executor.executions; held: it reserves the GPU, or its stop is
\* unverified; stopping: a cancellation was asked of it.
WorkSteps == {"idle", "started", "entered", "running", "returned", "done"}
Run == [pc : WorkSteps, outcome : Results \cup {"none"},
        tracked : BOOLEAN, held : BOOLEAN, stopping : BOOLEAN]
Idle == [pc |-> "idle", outcome |-> "none",
         tracked |-> FALSE, held |-> FALSE, stopping |-> FALSE]

TypeOK ==
  /\ JournalTypeOK
  /\ OutboxTypeOK
  /\ mode \in {"down", "restoring", "adopting", "loading", "up"}
  /\ todo \in SUBSET Attempts
  /\ lock \in [pc : {"free", "drain", "reject"}, key : Keys \cup {NoAttempt},
               attempt : Attempts \cup {NoAttempt}]
  /\ tombstones \in [Attempts -> Tombstone]
  /\ fenced \in BOOLEAN
  /\ deferred \in [Jobs -> Attempts \cup {NoAttempt}]
  /\ active \in Attempts \cup {NoAttempt}
  /\ cancelling \in [Keys -> Cancellation]
  /\ run \in [Attempts -> Run]
  /\ answers \in [Attempts -> SUBSET Results]
  /\ promised \in SUBSET Attempts

Ready == mode = "up" /\ lock = Free
Reject(a) == QueueAttemptRejection(a, "failure")

(***************************************************************************)
(* Assignments.                                                             *)
(***************************************************************************)

IsTracked(j) == \E a \in Attempts : JobOf[a] = j /\ run[a].tracked

\* tracksAttempt
Tracks(a) == active = a \/ run[a].tracked

\* The job is in the slot, or known to the executor.
Busy(j) == (active # NoAttempt /\ JobOf[active] = j) \/ IsTracked(j)

\* assignmentCancelling
AssignmentCancelling(a) ==
  \/ cancelling[JobOf[a]].pc # "idle"
  \/ HasToken(a) /\ cancelling[a].pc # "idle"

\* What startAssignmentLocked and Start require, as far as this GPU decides it.
CanStart(a) ==
  /\ ~fenced /\ ~(HasToken(a) /\ tombstones[a].set)
  /\ ~fault /\ active = NoAttempt /\ Admissible(a)
  /\ ~IsTracked(JobOf[a]) /\ \A b \in Attempts : ~run[b].held

\* startAssignmentLocked: the assignment is started or answered with a failure,
\* which may also be for a reason outside this GPU.
StartAssignment(a) ==
  \/ QueueResult(a, "failure") /\ UNCHANGED <<active, run>>
  \/ /\ CanStart(a)
     /\ \E ok \in BOOLEAN :
          /\ Admit(a, ok)
          /\ \/ ~ok /\ UNCHANGED <<active, run>>
             \/ /\ ok
                /\ active' = a
                /\ run' = [run EXCEPT ![a] =
                     [@ EXCEPT !.pc = "started", !.tracked = TRUE, !.held = TRUE]]
     /\ UNCHANGED outboxVars

\* What every assignment passes first: it has no result yet.
Unanswered(a) ==
  /\ Ready /\ rec[a].result = "none"
  /\ ~(HasToken(a) /\ Filled(a))

Rejected(a) ==
  /\ Reject(a)
  /\ UNCHANGED <<control, admission, cancelling, run, coordinator>>

\* The attempt was cancelled before it arrived.
DispatchCancelled(a) ==
  /\ Unanswered(a) /\ tombstones[a].set
  /\ results[JobOf[a]].attempt # a /\ ~Tracks(a)
  /\ Rejected(a)

\* Too many cancellations to remember: nothing is admitted any more.
DispatchFenced(a) ==
  /\ Unanswered(a) /\ ~tombstones[a].set /\ fenced /\ ~Tracks(a)
  /\ \/ /\ HasToken(a) /\ results[JobOf[a]].attempt # a
        /\ Rejected(a)
     \/ /\ ~HasToken(a) /\ ~Filled(JobOf[a]) /\ ~Busy(JobOf[a])
        /\ QueueResult(a, "failure")
        /\ UNCHANGED <<control, admission, cancelling, run, coordinator>>

Admissions(a) == Unanswered(a) /\ ~tombstones[a].set /\ ~fenced

\* The job has a deferred retry already.
DispatchSecondRetry(a) ==
  /\ Admissions(a) /\ HasToken(a)
  /\ deferred[JobOf[a]] \notin {NoAttempt, a}
  /\ results[JobOf[a]].attempt # a
  /\ Rejected(a)

\* A retry that arrives before the previous result is acknowledged: an invalid
\* one, or one too many, is rejected,
Retries(a) ==
  LET b == results[JobOf[a]].attempt IN
  /\ Admissions(a) /\ deferred[JobOf[a]] = NoAttempt
  /\ b \notin {NoAttempt, a} /\ HasToken(a) /\ HasToken(b)

DispatchUnwantedRetry(a) == Retries(a) /\ Rejected(a)

\* and any other one is admitted to the journal and waits.
DispatchRetry(a) ==
  /\ Retries(a) /\ ~AssignmentCancelling(a) /\ Admissible(a)
  /\ Cardinality({j \in Jobs : deferred[j] # NoAttempt}) < MaxDeferred
  /\ \E ok \in BOOLEAN :
       /\ Admit(a, ok)
       /\ deferred' = IF ok THEN [deferred EXCEPT ![JobOf[a]] = a] ELSE deferred
  /\ UNCHANGED <<outboxVars, control, tombstones, fenced, active, cancelling,
                 run, coordinator>>

\* Anything else is started or refused; a busy job is left alone.
DispatchNew(a) ==
  /\ Admissions(a) /\ deferred[JobOf[a]] = NoAttempt
  /\ ~Filled(JobOf[a]) /\ ~Busy(JobOf[a])
  /\ \/ QueueResult(a, "failure") /\ UNCHANGED <<active, run>>
     \/ ~AssignmentCancelling(a) /\ StartAssignment(a)
  /\ UNCHANGED <<control, tombstones, fenced, deferred, cancelling, coordinator>>

(***************************************************************************)
(* The executor, as the client sees it (module Executor).                   *)
(***************************************************************************)

\* The goroutine's last section: it verifies the stop unless a teardown failed,
\* a workspace runs on, or a canceller will do it.
Finishes(a, result, stopped) ==
  \E ok \in BOOLEAN :
    /\ Complete(a, result, stopped, ok)
    /\ run' = [run EXCEPT ![a] =
         [@ EXCEPT !.pc = "returned", !.outcome = IF ok THEN result ELSE "failure",
                   !.held = ~(ok /\ stopped)]]

ExecutionStarts(a) ==
  /\ run[a].pc = "started"
  /\ \E ok \in BOOLEAN :
       /\ Running(a, ok)
       /\ \/ ok /\ run' = [run EXCEPT ![a].pc = "entered"]
          \/ /\ ~ok /\ fault'
             /\ run' = [run EXCEPT ![a].pc = "returned", ![a].outcome = "failure"]

\* A cancellation came first.
ExecutionRefused(a) ==
  /\ run[a].pc = "started" /\ rec[a].cancelRequested
  /\ Finishes(a, "failure", ~run[a].stopping)

ExecutionWorks(a) ==
  /\ run[a].pc = "entered"
  /\ IF Docker(RuntimeOf[a]) THEN AssignDockerDaemon(a, TRUE) ELSE UNCHANGED jvars
  /\ run' = [run EXCEPT ![a].pc = "running"]

ExecutionFinishes(a) ==
  /\ run[a].pc \in {"entered", "running"}
  /\ \E result \in Results, stopped \in BOOLEAN :
       /\ result = "success" => run[a].pc = "running"
       /\ stopped => ~run[a].stopping
       /\ Finishes(a, result, stopped)

RunExecution(a) ==
  /\ mode = "up"
  /\ \/ ExecutionStarts(a)
     \/ ExecutionRefused(a)
     \/ ExecutionWorks(a)
     \/ ExecutionFinishes(a)
  /\ UNCHANGED <<outboxVars, control, admission, cancelling, coordinator>>

\* Mutant of ForgetExecution: an execution that returned stays in the map.
Mut_ForgetExecution(j) == run

\* ForgetExecution
ForgetExecution(j) ==
  [a \in Attempts |->
     IF /\ JobOf[a] = j /\ run[a].tracked /\ ~run[a].held
        /\ run[a].pc \in {"returned", "done"}
       THEN [run[a] EXCEPT !.tracked = FALSE, !.stopping = FALSE] ELSE run[a]]

\* runJob: the result is queued, the slot is free, deferred work may start.
JobEnds(a) ==
  /\ Ready /\ run[a].pc = "returned"
  /\ QueueResult(a, run[a].outcome)
  /\ run' = [run EXCEPT ![a].pc = "done", ![a].outcome = "none"]
  /\ active' = NoAttempt
  /\ lock' = Drain
  /\ UNCHANGED <<mode, todo, tombstones, fenced, deferred, cancelling, coordinator>>

\* drainDeferredAssignmentsLocked: one deferred assignment after the other, in
\* any order, until one is started.
Drainable(j) ==
  /\ deferred[j] # NoAttempt /\ ~Filled(j)
  /\ ~AssignmentCancelling(deferred[j])

DrainOne(j) ==
  /\ mode = "up" /\ lock = Drain /\ active = NoAttempt /\ Drainable(j)
  /\ deferred' = [deferred EXCEPT ![j] = NoAttempt]
  /\ StartAssignment(deferred[j])
  /\ UNCHANGED <<mode, todo, lock, tombstones, fenced, cancelling, coordinator>>

DrainEnds ==
  /\ mode = "up" /\ lock = Drain
  /\ active # NoAttempt \/ \A j \in Jobs : ~Drainable(j)
  /\ lock' = Free
  /\ UNCHANGED <<jvars, outboxVars, mode, todo, admission, cancelling, run,
                 coordinator>>

(***************************************************************************)
(* Results.                                                                 *)
(***************************************************************************)

SendResult(k) ==
  /\ mode = "up" /\ SendPending(k)
  /\ LET p == results[k] IN
     answers' = [answers EXCEPT ![p.attempt] = @ \cup {p.result}]
  /\ UNCHANGED <<control, admission, cancelling, run, promised>>

\* A new session is registered and reads the directory again.
Reconnect ==
  /\ mode = "up" /\ LoadPendingResults
  /\ UNCHANGED <<control, admission, cancelling, run, coordinator>>

\* Mutant of AcknowledgeResult: deferred work is left for the next job's end.
Mut_AcknowledgeResult(a) ==
  /\ Ready /\ answers[a] # {}
  /\ \E accepted \in BOOLEAN :
       /\ AckResult(a, accepted)
       /\ run' = IF accepted /\ AckKey(a) \in Jobs
                   THEN ForgetExecution(AckKey(a)) ELSE run
  /\ UNCHANGED <<control, admission, cancelling, coordinator>>

AcknowledgeResult(a) ==
  LET k == AckKey(a) IN
  /\ Ready /\ answers[a] # {}
  /\ \E accepted \in BOOLEAN :
       /\ AckResult(a, accepted)
       /\ lock' = IF accepted THEN Drain ELSE lock
       /\ run' = IF accepted /\ k \in Jobs THEN ForgetExecution(k) ELSE run
  /\ UNCHANGED <<mode, todo, admission, cancelling, coordinator>>

(***************************************************************************)
(* Cancellations: of an attempt by its token, or of a job without one.      *)
(***************************************************************************)

JobOfKey(k) == IF k \in Jobs THEN k ELSE JobOf[k]

\* cancellationTombstoneLocked: capacity, the journal, then memory.  An error
\* fences the admission of this process for good.
Entomb(a, ok) ==
  /\ IF ~tombstones[a].set /\ Cardinality(Entombed) >= MaxTombstones
       THEN ~ok /\ UNCHANGED jvars
       ELSE RememberCancellation(a, ok)
  /\ fenced' = (fenced \/ ~ok)

Buried(a) == [set |-> TRUE, knownUnstarted |-> Cancelled(a).knownUnstarted,
              stopVerified |-> Cancelled(a).stopVerified]

\* The end of cancelJob: refuse what nothing is known of, or start a goroutine.
Spawned(k, t, wasDeferred) ==
  LET nothingRuns == wasDeferred /\ ~Busy(JobOfKey(k))
  IN  IF k \in Jobs
        THEN [NotCancelling EXCEPT !.pc = IF nothingRuns THEN "stopped" ELSE "ask"]
      ELSE IF Tracks(k) THEN [pc |-> "ask", target |-> k]
      ELSE IF t.knownUnstarted \/ t.stopVerified
        THEN [NotCancelling EXCEPT !.pc = "stopped"]
      ELSE NotCancelling

Spawn(k, t, wasDeferred) ==
  cancelling' = [cancelling EXCEPT ![k] = Spawned(k, t, wasDeferred)]

\* Mutant of TakeDeferred: the deferred assignment is kept for its turn.
Mut_TakeDeferred(k, d, ok) ==
  /\ UNCHANGED deferred
  /\ tombstones' = [tombstones EXCEPT ![d] = Buried(d)]
  /\ lock' = [pc |-> "reject", key |-> k, attempt |-> d]
  /\ UNCHANGED cancelling

\* A deferred assignment d is taken out of the queue, known never to start;
\* what is left is to reject it and to start the goroutine.
TakeDeferred(k, d, ok) ==
  /\ deferred' = [deferred EXCEPT ![JobOf[d]] = NoAttempt]
  /\ tombstones' = IF ok THEN [tombstones EXCEPT ![d] =
                                 [Buried(d) EXCEPT !.knownUnstarted = TRUE]]
                         ELSE tombstones
  /\ lock' = [pc |-> "reject", key |-> k, attempt |-> d]
  /\ UNCHANGED cancelling

\* cancelJob with a token; a second one while the first is under way does no more
\* than remember it.
CancelAttempt(a) ==
  /\ Ready /\ HasToken(a)
  /\ \E ok \in BOOLEAN :
       /\ Entomb(a, ok)
       /\ IF ok /\ cancelling[a].pc = "idle" /\ deferred[JobOf[a]] = a
            THEN TakeDeferred(a, a, TRUE)
            ELSE /\ tombstones' = IF ok THEN [tombstones EXCEPT ![a] = Buried(a)]
                                        ELSE tombstones
                 /\ IF ok /\ cancelling[a].pc = "idle"
                      THEN Spawn(a, Buried(a), FALSE) ELSE UNCHANGED cancelling
                 /\ UNCHANGED <<deferred, lock>>
  /\ UNCHANGED <<outboxVars, mode, todo, active, run, coordinator>>

\* cancelJob without one
CancelJob(j) ==
  LET d == deferred[j] IN
  /\ Ready /\ cancelling[j].pc = "idle"
  /\ IF d # NoAttempt
       THEN \E ok \in BOOLEAN : Entomb(d, ok) /\ TakeDeferred(j, d, ok)
       ELSE /\ Spawn(j, NoTombstone, FALSE)
            /\ UNCHANGED <<jvars, deferred, tombstones, fenced, lock>>
  /\ UNCHANGED <<outboxVars, mode, todo, active, run, coordinator>>

RejectDeferred ==
  /\ mode = "up" /\ lock.pc = "reject"
  /\ Reject(lock.attempt)
  /\ Spawn(lock.key, tombstones[lock.attempt], TRUE)
  /\ lock' = Free
  /\ UNCHANGED <<mode, todo, admission, run, coordinator>>

CancelTo(k, step) == cancelling' = [cancelling EXCEPT ![k].pc = step]

\* The executor's cancelContext without an execution: the cancellation is
\* recorded for the attempt that was named, or for the job without a token, and
\* only the record can tell that it is stopped.
AskUntracked(k) ==
  LET as == IF k \in Attempts THEN {k} ELSE {a \in Tokenless : JobOf[a] = k} IN
  /\ ~IsTracked(JobOfKey(k))
  /\ \E a \in as, ok \in BOOLEAN :
       /\ RememberCancellation(a, ok)
       /\ cancelling' = [cancelling EXCEPT ![k] =
            [target |-> a,
             pc |-> IF ok /\ (Cancelled(a).stopVerified \/ Cancelled(a).knownUnstarted)
                      THEN "stopped" ELSE "failed"]]
  /\ UNCHANGED run

\* With an execution: up to the wait for its goroutine.
AskTracked(k) ==
  \E a \in Attempts :
    /\ run[a].tracked /\ JobOf[a] = JobOfKey(k)
    /\ \/ /\ k \in Attempts /\ a # k
          /\ CancelTo(k, "failed") /\ UNCHANGED <<jvars, run>>
       \/ /\ k \in Jobs \/ a = k
          /\ \E ok \in BOOLEAN :
               /\ RememberCancellation(a, ok)
               /\ cancelling' = [cancelling EXCEPT ![k] =
                    [target |-> a, pc |-> IF ~ok THEN "failed"
                                          ELSE IF run[a].held THEN "wait"
                                          ELSE "stopped"]]
               /\ run' = [run EXCEPT ![a].stopping = @ \/ (ok /\ run[a].held)]

CancelAsks(k) ==
  /\ mode = "up" /\ cancelling[k].pc = "ask"
  /\ AskUntracked(k) \/ AskTracked(k)
  /\ UNCHANGED <<outboxVars, control, admission, coordinator>>

\* Mutant of CancelStops: the goroutine is not joined.
Mut_CancelStops(k) ==
  /\ mode = "up" /\ cancelling[k].pc = "wait"
  /\ Complete(cancelling[k].target, "none", TRUE, TRUE)
  /\ run' = [run EXCEPT ![cancelling[k].target].held = FALSE]
  /\ CancelTo(k, "stopped")
  /\ UNCHANGED <<outboxVars, control, admission, coordinator>>

\* Its end: the goroutine is joined, the container verified gone, the stop
\* recorded.  The record's knownUnstarted cannot change once it is cancelled.
CancelStops(k) ==
  LET a == cancelling[k].target IN
  /\ mode = "up" /\ cancelling[k].pc = "wait"
  /\ run[a].pc \in {"returned", "done"}
  /\ Docker(rec[a].runtime) \/ rec[a].knownUnstarted
  /\ \E ok \in BOOLEAN :
       /\ Complete(a, "none", TRUE, ok)
       /\ run' = [run EXCEPT ![a].held = ~ok /\ run[a].tracked]
       /\ CancelTo(k, IF ok THEN "stopped" ELSE "failed")
  /\ UNCHANGED <<outboxVars, control, admission, coordinator>>

\* A timeout, or a teardown that cannot be verified.
CancelFails(k) ==
  /\ mode = "up" /\ cancelling[k].pc = "wait"
  /\ CancelTo(k, "failed")
  /\ UNCHANGED <<jvars, outboxVars, control, admission, run, coordinator>>

\* The coordinator learns the outcome.  Deferred work may start now.
CancelReturns(k) ==
  LET a == cancelling[k].target
      ok == cancelling[k].pc = "stopped"
      told == IF k \in Attempts THEN {k} ELSE {a} \ {NoAttempt}
      matching == k \in Attempts /\ a = k
      forgets == ok /\ ~Filled(JobOfKey(k)) /\ (k \in Jobs \/ (matching /\ Tracks(k)))
  IN
  /\ Ready /\ cancelling[k].pc \in {"stopped", "failed"}
  /\ tombstones' = IF matching /\ ok THEN [tombstones EXCEPT ![k].stopVerified = TRUE]
                                     ELSE tombstones
  /\ cancelling' = [cancelling EXCEPT ![k] = NotCancelling]
  /\ run' = IF forgets THEN ForgetExecution(JobOfKey(k)) ELSE run
  /\ lock' = Drain
  /\ promised' = IF ok THEN promised \cup told ELSE promised
  /\ UNCHANGED <<jvars, outboxVars, mode, todo, fenced, deferred, active, answers>>

(***************************************************************************)
(* Crashes and starts.                                                      *)
(***************************************************************************)

\* Whatever the process held in memory is gone.
Crash ==
  /\ mode # "down"
  /\ mode' = "down" /\ todo' = {} /\ lock' = Free
  /\ results' = Nothing
  /\ tombstones' = [a \in Attempts |-> NoTombstone]
  /\ fenced' = FALSE
  /\ deferred' = [j \in Jobs |-> NoAttempt]
  /\ active' = NoAttempt
  /\ cancelling' = [k \in Keys |-> NotCancelling]
  /\ run' = [a \in Attempts |-> Idle]
  /\ UNCHANGED <<jvars, files, coordinator>>

Restart ==
  /\ mode = "down"
  /\ Reopen
  /\ mode' = "restoring" /\ todo' = Recorded(disk)
  /\ UNCHANGED <<outboxVars, lock, admission, cancelling, run, coordinator>>

Track(a) ==
  run' = IF IsTracked(JobOf[a]) THEN run
         ELSE [run EXCEPT ![a] = [@ EXCEPT !.pc = "done", !.tracked = TRUE,
                                           !.held = TRUE]]

\* restoreJournal, for one record: skip it, settle what never started, settle
\* what could be stopped, or track it with the GPU reserved.
RestoreRecord(a) ==
  LET r == rec[a]
      settled == r.phase = "unknown" \/ r.stopVerified
      runsOn == r.runtime = "workspace" /\ r.result = "success" /\ ~r.cancelRequested
      replaced == \/ r.result = "none"
                  \/ r.runtime = "workspace" /\ ~r.accepted /\ r.result = "success"
  IN
  /\ mode = "restoring" /\ a \in todo
  /\ \/ r.legacy /\ Track(a) /\ UNCHANGED jvars
     \/ ~r.legacy /\ settled /\ UNCHANGED <<jvars, run>>
     \/ /\ ~r.legacy /\ ~settled /\ NeverEntered(r)
        /\ RecoverUnstarted(a, TRUE) /\ UNCHANGED run
     \/ /\ ~r.legacy /\ ~settled /\ ~NeverEntered(r) /\ Docker(r.runtime)
        /\ Complete(a, IF replaced THEN "failure" ELSE r.result, TRUE, TRUE)
        /\ UNCHANGED run
     \/ /\ ~r.legacy /\ ~settled /\ ~NeverEntered(r) /\ ~IsTracked(JobOf[a])
        /\ \E blocked \in BOOLEAN :
             (blocked \/ runsOn) /\ BlockReplay(a, blocked, TRUE)
        /\ Track(a)
  /\ todo' = todo \ {a}
  /\ UNCHANGED <<outboxVars, mode, lock, admission, cancelling, coordinator>>

\* The new client reads the outbox directory,
RestoreEnds ==
  /\ mode = "restoring" /\ todo = {}
  /\ mode' = "adopting" /\ LoadPendingResults
  /\ UNCHANGED <<todo, lock, admission, cancelling, run, coordinator>>

\* gives every result without a record a record that proves nothing,
Adopt(k) ==
  LET a == results[k].attempt IN
  /\ mode = "adopting" /\ Filled(k) /\ ~Present(rec[a])
  /\ RememberLegacyResult(a, results[k].result, TRUE)
  /\ Track(a)
  /\ UNCHANGED <<outboxVars, control, admission, cancelling, coordinator>>

AdoptionEnds ==
  /\ mode = "adopting"
  /\ \A k \in Keys : Filled(k) => Present(rec[results[k].attempt])
  /\ mode' = "loading" /\ todo' = Recorded(rec)
  /\ UNCHANGED <<jvars, outboxVars, lock, admission, cancelling, run, coordinator>>

\* and then goes through the records, in no particular order: tombstones for
\* what was cancelled, and the journal's results.
LoadRecord(a) ==
  /\ mode = "loading" /\ a \in todo
  /\ IF rec[a].cancelRequested /\ Cardinality(Entombed) < MaxTombstones
       THEN tombstones' = [tombstones EXCEPT ![a] =
              [set |-> TRUE, knownUnstarted |-> rec[a].knownUnstarted,
               stopVerified |-> rec[a].stopVerified]]
       ELSE UNCHANGED tombstones
  /\ fenced' = (fenced \/ (rec[a].cancelRequested
                           /\ Cardinality(Entombed) >= MaxTombstones))
  /\ Recover(a)
  /\ todo' = todo \ {a}
  /\ UNCHANGED <<jvars, mode, lock, deferred, active, cancelling, run, coordinator>>

LoadingEnds ==
  /\ mode = "loading" /\ todo = {}
  /\ mode' = "up"
  /\ fenced' = (fenced \/ Cardinality(Entombed) >= MaxTombstones)
  /\ UNCHANGED <<jvars, outboxVars, todo, lock, tombstones, deferred, active,
                 cancelling, run, coordinator>>

(***************************************************************************)
(* The specification.                                                       *)
(***************************************************************************)

\* The first start finds an empty journal, and perhaps results of an agent
\* that had none.
Init ==
  /\ JournalInit
  /\ mode = "down" /\ todo = {} /\ lock = Free
  /\ results = Nothing
  /\ \E legacy \in SUBSET LegacyOutbox :
       files = [k \in Keys |->
         IF \E a \in legacy : JobOf[a] = k
           THEN [attempt |-> CHOOSE a \in legacy : JobOf[a] = k, result |-> "success"]
           ELSE Empty]
  /\ tombstones = [a \in Attempts |-> NoTombstone]
  /\ fenced = FALSE
  /\ deferred = [j \in Jobs |-> NoAttempt]
  /\ active = NoAttempt
  /\ cancelling = [k \in Keys |-> NotCancelling]
  /\ run = [a \in Attempts |-> Idle]
  /\ answers = [a \in Attempts |-> {}]
  /\ promised = {}

Dispatch(a) ==
  \/ DispatchCancelled(a)
  \/ DispatchFenced(a)
  \/ DispatchSecondRetry(a)
  \/ DispatchUnwantedRetry(a)
  \/ DispatchRetry(a)
  \/ DispatchNew(a)

CancelStep(k) ==
  \/ CancelAsks(k)
  \/ CancelStops(k)
  \/ CancelFails(k)
  \/ CancelReturns(k)

LockStep ==
  \/ \E j \in Jobs : DrainOne(j)
  \/ DrainEnds
  \/ RejectDeferred

StartStep ==
  \/ \E a \in Attempts : RestoreRecord(a) \/ LoadRecord(a)
  \/ \E k \in Keys : Adopt(k)
  \/ RestoreEnds
  \/ AdoptionEnds
  \/ LoadingEnds

Next ==
  \/ \E a \in Attempts :
       \/ Dispatch(a)
       \/ a \in CancelKeys /\ CancelAttempt(a)
       \/ AcknowledgeResult(a)
       \/ RunExecution(a)
       \/ JobEnds(a)
  \/ \E j \in Jobs \cap CancelKeys : CancelJob(j)
  \/ \E k \in Keys : CancelStep(k) \/ SendResult(k)
  \/ LockStep
  \/ Reconnect
  \/ Crash
  \/ Restart
  \/ StartStep

Spec == Init /\ [][Next]_vars

\* The goroutines of this process, and a coordinator that acknowledges what it
\* receives; no message of another kind is ever owed.  Whoever waits for
\* assignmentsMu gets it, however often others do (a Go mutex does not starve
\* its waiters): strong fairness of the handlers that need it.
Fairness ==
  /\ \A a \in Attempts :
       /\ WF_vars(RunExecution(a))
       /\ SF_vars(JobEnds(a)) /\ SF_vars(AcknowledgeResult(a))
  /\ \A k \in Keys :
       /\ WF_vars(CancelAsks(k)) /\ WF_vars(CancelStops(k) \/ CancelFails(k))
       /\ SF_vars(CancelReturns(k)) /\ WF_vars(SendResult(k))
  /\ WF_vars(LockStep)
  /\ WF_vars(StartStep)

FairSpec == Spec /\ Fairness

(***************************************************************************)
(* Properties.                                                              *)
(***************************************************************************)

Working(a) == run[a].pc \in {"entered", "running"}

\* What the coordinator was told is stopped does not run: no path through
\* deferral, retries, acknowledgements and restarts starts it again.
PromisedNeverRuns == \A a \in promised : ~Working(a)

\* An attempt the coordinator has an answer for does not run, so a rejection is
\* never contradicted by an execution; and no two answers contradict each other,
\* except that a workspace reported as running may later be reported as stopped.
OneAnswer ==
  \A a \in Attempts :
    /\ answers[a] # {} => ~Working(a)
    /\ RuntimeOf[a] # "workspace" => Cardinality(answers[a]) <= 1

\* Every result the journal has and the coordinator has not accepted is queued,
\* or still with the goroutine that will queue it: none is lost in a crash, in a
\* restart or between two places ("outbox recovery lost predecessor or overflow
\* rejection").
ResultIsQueued ==
  mode = "up" /\ ~fault =>
    \A a \in Attempts :
      rec[a].result # "none" /\ ~rec[a].accepted =>
        (\E k \in Keys : results[k].attempt = a) \/ run[a].pc = "returned"

\* A deferred assignment can still be started: whatever makes its start
\* impossible (a cancellation, a result) takes it out of the queue.  When admission
\* is fenced nothing is started any more: the attempt is then answered where it
\* waits if it is offered again.
DeferredIsStartable ==
  \A a \in Attempts :
    deferred[JobOf[a]] = a /\ ~fault /\ ~fenced => Admissible(a)

\* An execution nobody waits for is forgotten: as long as it is tracked, every
\* assignment of its job is ignored without an answer.
NoZombie ==
  Ready /\ ~fault =>
    \A a \in Attempts :
      run[a].tracked /\ ~run[a].held /\ run[a].pc = "done" =>
        \/ Filled(JobOf[a])
        \/ \E k \in Keys : JobOfKey(k) = JobOf[a] /\ cancelling[k].pc # "idle"

\* An accepted result does not come back ("accepted result was resurrected from
\* a stale outbox file").
NoResurrection ==
  [][\A a \in Attempts :
       /\ mode = "up" /\ mode' = "up" /\ rec[a].accepted
       /\ \A k \in Keys : results[k].attempt # a
       => \A k \in Keys : results'[k].attempt # a]_vars

\* A deferred assignment is started or answered, unless the result it waits for
\* must not be sent (its attempt may still be working) or the agent stops.
DeferredIsResolved ==
  \A a \in Attempts :
    deferred[JobOf[a]] = a ~>
      \/ deferred[JobOf[a]] # a
      \/ fault \/ mode # "up"
      \/ \E b \in Attempts : results[JobOf[a]].attempt = b /\ rec[b].replayBlocked

\* Every result is accepted in the end, unless it must not be sent.
ResultsAreDelivered ==
  \A a \in Attempts :
    (\E k \in Keys : results[k].attempt = a) ~>
      rec[a].accepted \/ rec[a].replayBlocked \/ fault \/ mode # "up"
=============================================================================
