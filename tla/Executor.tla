------------------------------ MODULE Executor ------------------------------
(***************************************************************************)
(* The executor of one GPU: internal/job/executor.go and recovery.go, over  *)
(* the execution journal.  An attempt is admitted, run by a goroutine of    *)
(* its own, possibly cancelled by other goroutines, and accounted for again *)
(* by the next process after a crash.                                       *)
(*                                                                          *)
(* Each action is one critical section under Executor.mu, one call of the   *)
(* runtime, or one call of the container engine.  What runs outside the     *)
(* agent (a container, a generation in the Ollama server) is live[a]; it    *)
(* can end by itself at any time and survives the agent's process.          *)
(*                                                                          *)
(* Left out: other GPUs of the machine and their admission gate (a refused  *)
(* admission changes nothing here), legacy results found without a record,  *)
(* progress messages, and timings.  comfyui-batch is treated by the         *)
(* executor exactly as docker-custom.                                       *)
(***************************************************************************)
EXTENDS AttemptJournal

CONSTANTS
  Jobs,       \* job identifiers
  JobOf,      \* the job each attempt belongs to
  Cancellers, \* goroutines inside cancelContext at the same time
  NoAttempt   \* no execution is tracked

ASSUME ExecutorAssumption ==
  /\ JobOf \in [Attempts -> Jobs]
  /\ NoAttempt \notin Attempts

VARIABLES
  mode,       \* the agent's process: "down", "restoring" or "up"
  todo,       \* records restoreJournal still has to look at
  exec,       \* Executor.executions: the attempt tracked for each job
  st,         \* the flags of each execution
  runner,     \* where the goroutine of each execution is
  outcome,    \* the result that goroutine holds
  workspaces, \* Executor.workspaces: jobs whose workspace is running
  canc,       \* what each canceller is doing
  live,       \* whether an attempt's work goes on outside the agent
  runs,       \* how often an attempt's work began
  promised,   \* attempts whose stop was confirmed to the coordinator
  sent        \* attempts whose result the coordinator may have received

process == <<todo, exec, st, runner, outcome, workspaces, canc>>
outside == <<live, runs, promised, sent>>
vars == <<jvars, mode, process, outside>>

\* No attempt's work is ever counted beyond this.
MaxRuns == 2

Flags == [cancelRequested : BOOLEAN, stopConfirmed : BOOLEAN,
          stopUnverified : BOOLEAN, held : BOOLEAN]
\* held stands for release # nil: the GPU is reserved for the execution.
NoFlags == [cancelRequested |-> FALSE, stopConfirmed |-> FALSE,
            stopUnverified |-> FALSE, held |-> FALSE]

Steps == {"idle", "admitted", "preparing", "run", "running", "returned",
          "finishing", "done"}
CancelSteps == {"idle", "remove", "wait", "recheck", "commit", "return"}
Cancellation == [pc : CancelSteps, target : Attempts \cup {NoAttempt},
                 knownUnstarted : BOOLEAN, failed : BOOLEAN]
NotCancelling == [pc |-> "idle", target |-> NoAttempt,
                  knownUnstarted |-> FALSE, failed |-> FALSE]

TypeOK ==
  /\ JournalTypeOK
  /\ mode \in {"down", "restoring", "up"}
  /\ todo \in SUBSET Attempts
  /\ exec \in [Jobs -> Attempts \cup {NoAttempt}]
  /\ st \in [Attempts -> Flags]
  /\ runner \in [Attempts -> Steps]
  /\ outcome \in [Attempts -> Results \cup {"none"}]
  /\ workspaces \in SUBSET Jobs
  /\ canc \in [Cancellers -> Cancellation]
  /\ live \in [Attempts -> BOOLEAN]
  /\ runs \in [Attempts -> 0 .. MaxRuns]
  /\ promised \in SUBSET Attempts
  /\ sent \in SUBSET Attempts

Tracked(a) == exec[JobOf[a]] = a
IsDocker(a) == Docker(RuntimeOf[a])
DoneRunning(a) == runner[a] = "done"

\* A restored native attempt reserves the machine until the agent exits.
MachineRecoveryBlocked ==
  \E a \in recovered : Tracked(a) /\ st[a].held /\ ~IsDocker(a)

\* A result of the job that the coordinator has not acknowledged: the pool
\* client starts no other attempt of the job before.
Pending(j) ==
  \E a \in Attempts : /\ JobOf[a] = j
                      /\ rec[a].phase = "finished"
                      /\ rec[a].result # "none" /\ ~rec[a].accepted

\* removeContainers(jobID): the container of the execution tracked for the job
\* at this moment; without a daemon its ownership cannot be verified.
Remove(j, failed) ==
  LET b == exec[j] IN
  IF b # NoAttempt /\ IsDocker(b)
    THEN \/ /\ ~failed /\ rec[b].daemon
            /\ live' = [live EXCEPT ![b] = FALSE]
         \/ /\ failed
            /\ \/ UNCHANGED live
               \/ rec[b].daemon /\ live' = [live EXCEPT ![b] = FALSE]
    ELSE UNCHANGED live

(***************************************************************************)
(* Admission.                                                               *)
(***************************************************************************)

\* Mutant of GpuFree: only an unverified stop keeps the GPU.
Mut_GpuFree == \A b \in Attempts : Tracked(b) => ~st[b].stopUnverified

\* No execution holds the GPU and none may still be working.
GpuFree ==
  \A b \in Attempts : Tracked(b) => ~st[b].stopUnverified /\ ~st[b].held

\* Start
Start(a) ==
  /\ mode = "up" /\ ~fault /\ ~MachineRecoveryBlocked
  /\ ~Pending(JobOf[a])
  /\ exec[JobOf[a]] = NoAttempt
  /\ GpuFree
  /\ Admissible(a)
  /\ \E ok \in BOOLEAN :
       /\ Admit(a, ok)
       /\ IF ok
            THEN /\ exec' = [exec EXCEPT ![JobOf[a]] = a]
                 /\ st' = [st EXCEPT ![a] = [NoFlags EXCEPT !.held = TRUE]]
                 /\ runner' = [runner EXCEPT ![a] = "admitted"]
            ELSE UNCHANGED <<exec, st, runner>>
  /\ UNCHANGED <<mode, todo, outcome, workspaces, canc, outside>>

\* The pool client keeps a retry for later and admits it in the journal now.
Defer(a) ==
  /\ mode = "up" /\ ~Tracked(a) /\ Pending(JobOf[a])
  /\ Admissible(a)
  /\ \E ok \in BOOLEAN : Admit(a, ok)
  /\ UNCHANGED <<mode, process, outside>>

(***************************************************************************)
(* The goroutine of an execution: Start's closure and execute().            *)
(***************************************************************************)

GoTo(a, step) == runner' = [runner EXCEPT ![a] = step]

FinishWith(a, result) ==
  /\ GoTo(a, "finishing")
  /\ outcome' = [outcome EXCEPT ![a] = result]

\* The durable entry into the runtime.
RunnerEnters(a) ==
  /\ runner[a] = "admitted"
  /\ \E ok \in BOOLEAN :
       /\ Running(a, ok)
       /\ IF ok THEN GoTo(a, "preparing") /\ UNCHANGED outcome
                ELSE FinishWith(a, "failure")
  /\ UNCHANGED <<mode, todo, exec, st, workspaces, canc, outside>>

\* Staging, downloads, Prepare or DaemonID fail, or the context is done.
RunnerPrepareFails(a) ==
  /\ runner[a] = "preparing"
  /\ FinishWith(a, "failure")
  /\ UNCHANGED <<jvars, mode, todo, exec, st, workspaces, canc, outside>>

\* Mutant of RunnerAssigns: an attempt the journal refuses to bind just stays.
Mut_RunnerAssigns(a) ==
  /\ runner[a] = "preparing"
  /\ \/ /\ ~IsDocker(a)
        /\ GoTo(a, "run") /\ UNCHANGED jvars
     \/ /\ IsDocker(a)
        /\ \E ok \in BOOLEAN :
             /\ AssignDockerDaemon(a, ok)
             /\ IF ok THEN GoTo(a, "run") ELSE UNCHANGED runner
  /\ UNCHANGED <<mode, todo, exec, st, outcome, workspaces, canc, outside>>

\* A docker attempt is bound to a daemon; a native one goes straight on.
RunnerAssigns(a) ==
  /\ runner[a] = "preparing"
  /\ \/ /\ ~IsDocker(a)
        /\ GoTo(a, "run") /\ UNCHANGED <<jvars, outcome>>
     \/ /\ IsDocker(a)
        /\ \E ok \in BOOLEAN :
             /\ AssignDockerDaemon(a, ok)
             /\ IF ok THEN GoTo(a, "run") /\ UNCHANGED outcome
                      ELSE FinishWith(a, "failure")
  /\ UNCHANGED <<mode, todo, exec, st, workspaces, canc, outside>>

\* runtime.Run gets the container created, or the generation under way.
BackendStarts(a) ==
  /\ runner[a] = "run" /\ runs[a] < MaxRuns
  /\ GoTo(a, "running")
  /\ live' = [live EXCEPT ![a] = TRUE]
  /\ runs' = [runs EXCEPT ![a] = @ + 1]
  /\ UNCHANGED <<jvars, mode, todo, exec, st, outcome, workspaces, canc,
                 promised, sent>>

\* The work ends by itself; it needs no agent for that.
BackendEnds(a) ==
  /\ live[a]
  /\ live' = [live EXCEPT ![a] = FALSE]
  /\ UNCHANGED <<jvars, mode, process, runs, promised, sent>>

\* runtime.Run returns.  docker-custom and a failed workspace try to remove
\* their container and ignore whether that worked; a native failure (a
\* cancelled context, say) leaves the generation in the server.
RunReturns(a) ==
  /\ runner[a] \in {"run", "running"}
  /\ GoTo(a, "returned")
  /\ \E result \in Results :
       /\ result = "success" => runner[a] = "running"
       /\ outcome' = [outcome EXCEPT ![a] = result]
       /\ CASE RuntimeOf[a] = "ollama" ->
                 live' = [live EXCEPT ![a] = @ /\ result = "failure"]
            [] RuntimeOf[a] = "docker-custom" ->
                 live' \in {live, [live EXCEPT ![a] = FALSE]}
            [] RuntimeOf[a] = "workspace" ->
                 IF result = "success"
                   THEN live[a] /\ UNCHANGED live
                   ELSE live' \in {live, [live EXCEPT ![a] = FALSE]}
  /\ UNCHANGED <<jvars, mode, todo, exec, st, workspaces, canc, runs, promised,
                 sent>>

\* After Run: register the workspace, or verify that the container is gone, or
\* note that it cannot be verified; the upload may still turn a success into
\* a failure.
RunnerSettles(a) ==
  /\ runner[a] = "returned"
  /\ GoTo(a, "finishing")
  /\ \/ /\ RuntimeOf[a] = "workspace" /\ outcome[a] = "success"
        /\ workspaces' = workspaces \cup {JobOf[a]}
        /\ outcome' \in {outcome, [outcome EXCEPT ![a] = "failure"]}
        /\ UNCHANGED <<st, live>>
     \/ /\ RuntimeOf[a] = "ollama" /\ outcome[a] = "success"
        /\ outcome' \in {outcome, [outcome EXCEPT ![a] = "failure"]}
        /\ UNCHANGED <<st, live, workspaces>>
     \/ /\ RuntimeOf[a] = "ollama" /\ outcome[a] = "failure"
        /\ st' = [st EXCEPT ![a].stopUnverified = TRUE]
        /\ UNCHANGED <<outcome, live, workspaces>>
     \/ /\ IsDocker(a)
        /\ RuntimeOf[a] = "workspace" => outcome[a] = "failure"
        /\ \E failed \in BOOLEAN :
             /\ Remove(JobOf[a], failed)
             /\ IF failed
                  THEN /\ st' = [st EXCEPT ![a].stopUnverified = TRUE]
                       /\ outcome' = [outcome EXCEPT ![a] = "failure"]
                  ELSE /\ outcome' \in {outcome, [outcome EXCEPT ![a] = "failure"]}
                       /\ UNCHANGED st
        /\ UNCHANGED workspaces
  /\ UNCHANGED <<jvars, mode, todo, exec, canc, runs, promised, sent>>

\* Mutants of StoppedByRunner: a failed teardown, or a running workspace, is
\* not looked at.
Mut_StoppedByRunner(a) ==
  JobOf[a] \notin workspaces /\ ~st[a].cancelRequested
Mut_StoppedDespiteWorkspace(a) ==
  ~st[a].cancelRequested /\ ~st[a].stopUnverified

\* The goroutine vouches for the stop unless its workspace runs, a teardown
\* failed, or somebody asked for a cancellation and will verify it instead.
StoppedByRunner(a) ==
  /\ JobOf[a] \notin workspaces
  /\ ~st[a].cancelRequested /\ ~st[a].stopUnverified

\* The closing section; the GPU is released with a verified stop.
RunnerFinishes(a) ==
  /\ runner[a] = "finishing"
  /\ GoTo(a, "done")
  /\ \E ok \in BOOLEAN :
       /\ Complete(a, outcome[a], StoppedByRunner(a), ok)
       /\ st' = IF ~ok THEN [st EXCEPT ![a].stopUnverified = TRUE]
                ELSE IF StoppedByRunner(a)
                  THEN [st EXCEPT ![a] = [@ EXCEPT !.stopConfirmed = TRUE, !.held = FALSE]]
                  ELSE st
  /\ UNCHANGED <<mode, todo, exec, outcome, workspaces, canc, outside>>

(***************************************************************************)
(* Cancellation: cancelContext, called for the execution tracked for a job, *)
(* by its token or without one, from the pool client and from StopAll.      *)
(***************************************************************************)

CancelBegins(c, a) ==
  /\ mode = "up" /\ canc[c].pc = "idle" /\ Tracked(a)
  /\ \E ok \in BOOLEAN :
       /\ RememberCancellation(a, ok)
       /\ \/ /\ ~ok
             /\ UNCHANGED <<st, canc, promised>>
          \/ /\ ok /\ st[a].stopConfirmed
             /\ promised' = promised \cup {a}
             /\ canc' = [canc EXCEPT ![c] = [NotCancelling EXCEPT
                                              !.pc = "return", !.target = a]]
             /\ UNCHANGED st
          \/ /\ ok /\ ~st[a].stopConfirmed
             /\ st' = [st EXCEPT ![a].cancelRequested = TRUE]
             /\ LET unstarted == Cancelled(a).knownUnstarted IN
                canc' = [canc EXCEPT ![c] =
                  [pc |-> IF IsDocker(a) /\ ~unstarted THEN "remove" ELSE "wait",
                   target |-> a, knownUnstarted |-> unstarted,
                   failed |-> FALSE]]
             /\ UNCHANGED promised
  /\ UNCHANGED <<mode, todo, exec, runner, outcome, workspaces, live, runs, sent>>

\* The first removal, before the goroutine is joined.
CancelRemoves(c) ==
  /\ canc[c].pc = "remove"
  /\ \E failed \in BOOLEAN :
       /\ Remove(JobOf[canc[c].target], failed)
       /\ canc' = [canc EXCEPT ![c] = [@ EXCEPT !.pc = "wait", !.failed = failed]]
  /\ UNCHANGED <<jvars, mode, todo, exec, st, runner, outcome, workspaces, runs,
                 promised, sent>>

\* Mutant of Joined: the goroutine is not waited for.
Mut_Joined(c) == canc[c].pc = "wait"

\* <-state.done
Joined(c) == DoneRunning(canc[c].target)

\* Mutant of Verifiable: joining the goroutine is proof enough.
Mut_Verifiable(a) == TRUE

\* Only a container can be shown to be gone; a native backend that was entered
\* cannot be confirmed stopped.
Verifiable(a) == IsDocker(a)

\* The join.
CancelJoins(c) ==
  /\ canc[c].pc = "wait" /\ Joined(c)
  /\ canc' = IF canc[c].knownUnstarted THEN [canc EXCEPT ![c].pc = "commit"]
             ELSE IF Verifiable(canc[c].target)
               THEN [canc EXCEPT ![c].pc = "recheck"]
               ELSE [canc EXCEPT ![c] = NotCancelling]
  /\ UNCHANGED <<jvars, mode, todo, exec, st, runner, outcome, workspaces, outside>>

\* The context of the cancellation expires (30 s): an error is returned.
CancelTimesOut(c) ==
  /\ canc[c].pc \in {"wait", "commit"}
  /\ canc' = [canc EXCEPT ![c] = NotCancelling]
  /\ UNCHANGED <<jvars, mode, todo, exec, st, runner, outcome, workspaces, outside>>

\* Mutant of CancelRechecks: the removal before the join is taken as proof.
Mut_CancelRechecks(c) ==
  /\ canc[c].pc = "recheck"
  /\ canc' = IF canc[c].failed THEN [canc EXCEPT ![c] = NotCancelling]
                                ELSE [canc EXCEPT ![c].pc = "commit"]
  /\ UNCHANGED <<jvars, mode, todo, exec, st, runner, outcome, workspaces, live,
                 runs, promised, sent>>

\* The second removal: a container created after the first one, and before the
\* join, is removed here.
CancelRechecks(c) ==
  /\ canc[c].pc = "recheck"
  /\ \E failed \in BOOLEAN :
       /\ Remove(JobOf[canc[c].target], failed)
       /\ canc' = IF failed \/ canc[c].failed
                    THEN [canc EXCEPT ![c] = NotCancelling]
                    ELSE [canc EXCEPT ![c].pc = "commit"]
  /\ UNCHANGED <<jvars, mode, todo, exec, st, runner, outcome, workspaces, runs,
                 promised, sent>>

CancelCommits(c) ==
  LET a == canc[c].target IN
  /\ canc[c].pc = "commit"
  /\ \E ok \in BOOLEAN :
       /\ Complete(a, "none", TRUE, ok)
       /\ IF ok
            THEN /\ st' = [st EXCEPT ![a] = [@ EXCEPT !.stopConfirmed = TRUE,
                                                  !.stopUnverified = FALSE,
                                                  !.held = FALSE]]
                 /\ workspaces' = workspaces \ {JobOf[a]}
                 /\ promised' = promised \cup {a}
                 /\ canc' = [canc EXCEPT ![c].pc = "return"]
            ELSE /\ st' = [st EXCEPT ![a].stopUnverified = TRUE]
                 /\ canc' = [canc EXCEPT ![c] = NotCancelling]
                 /\ UNCHANGED <<workspaces, promised>>
  /\ UNCHANGED <<mode, todo, exec, runner, outcome, live, runs, sent>>

(***************************************************************************)
(* ForgetExecution, and the calls of the pool client around it.             *)
(***************************************************************************)

\* Mutant of Forgettable: a finished goroutine is enough.
Mut_Forgettable(j) == exec[j] # NoAttempt /\ DoneRunning(exec[j])

\* A finished execution that holds nothing and owes no verified stop.
Forgettable(j) ==
  LET b == exec[j] IN
  /\ b # NoAttempt
  /\ ~st[b].held /\ ~st[b].stopUnverified /\ j \notin workspaces
  /\ st[b].cancelRequested => st[b].stopConfirmed
  /\ DoneRunning(b)

ForgetExecution(j) ==
  exec' = IF Forgettable(j) THEN [exec EXCEPT ![j] = NoAttempt] ELSE exec

\* The pool client's goroutine that asked for the cancellation drops the
\* execution, unless a result of the job is still queued.
CancelReturns(c) ==
  /\ canc[c].pc = "return"
  /\ canc' = [canc EXCEPT ![c] = NotCancelling]
  /\ \/ UNCHANGED exec
     \/ ForgetExecution(JobOf[canc[c].target])
  /\ UNCHANGED <<jvars, mode, todo, st, runner, outcome, workspaces, outside>>

\* The durable intent recorded before the executor is asked, or instead of it
\* when the attempt is not tracked; then the record is the only proof of a stop.
RememberCancel(a) ==
  /\ mode = "up"
  /\ \E ok \in BOOLEAN :
       /\ RememberCancellation(a, ok)
       /\ LET r == Cancelled(a) IN
          promised' = IF ok /\ ~Tracked(a) /\ (r.stopVerified \/ r.knownUnstarted)
                        THEN promised \cup {a} ELSE promised
  /\ UNCHANGED <<mode, process, live, runs, sent>>

\* An attempt that is not executed gets a failure of its own.
RejectAttempt(a) ==
  /\ mode = "up" /\ ~Tracked(a) /\ runner[a] \in {"idle", "done"}
  /\ \E ok \in BOOLEAN : RememberResult(a, "failure", ok)
  /\ UNCHANGED <<mode, process, outside>>

\* A queued result is sent unless the record blocks its replay.
SendResult(a) ==
  /\ mode = "up"
  /\ rec[a].result # "none" /\ ~rec[a].replayBlocked /\ ~rec[a].accepted
  /\ sent' = sent \cup {a}
  /\ UNCHANGED <<jvars, mode, process, live, runs, promised>>

\* The coordinator acknowledges it, now or much later.
AcknowledgeResult(a) ==
  /\ mode = "up" /\ a \in sent
  /\ rec[a].result # "none" /\ ~rec[a].accepted
  /\ \E ok \in BOOLEAN :
       /\ Accept(a, ok)
       /\ \/ UNCHANGED exec
          \/ ok /\ ForgetExecution(JobOf[a])
  /\ UNCHANGED <<mode, todo, st, runner, outcome, workspaces, canc, outside>>

(***************************************************************************)
(* The process dies, and the next one restores what it finds.               *)
(***************************************************************************)

NoExecution == [j \in Jobs |-> NoAttempt]
NoFlag == [a \in Attempts |-> NoFlags]
AllIdle == [a \in Attempts |-> "idle"]
NoOutcome == [a \in Attempts |-> "none"]
NoCancel == [c \in Cancellers |-> NotCancelling]

\* Whatever the process held in memory is gone.
ProcessEnds ==
  /\ mode' = "down" /\ todo' = {}
  /\ exec' = NoExecution /\ st' = NoFlag
  /\ runner' = AllIdle /\ outcome' = NoOutcome
  /\ workspaces' = {} /\ canc' = NoCancel

Crash ==
  /\ mode # "down"
  /\ ProcessEnds
  /\ UNCHANGED <<jvars, outside>>

\* NewExecutorWithOptions opens the journal.
Restart ==
  /\ mode = "down"
  /\ Reopen
  /\ mode' = "restoring"
  /\ todo' = Recorded(disk)
  /\ UNCHANGED <<exec, st, runner, outcome, workspaces, canc, outside>>

\* The execution of a record that may still be working is tracked again, with
\* the GPU reserved; a second one for the same job makes the start fail.
TrackRestored(a, ok) ==
  IF ok /\ exec[JobOf[a]] = NoAttempt
    THEN /\ exec' = [exec EXCEPT ![JobOf[a]] = a]
         /\ st' = [st EXCEPT ![a] =
              [cancelRequested |-> rec[a].cancelRequested, stopConfirmed |-> FALSE,
               stopUnverified |-> TRUE, held |-> TRUE]]
         /\ runner' = [runner EXCEPT ![a] = "done"]
         /\ workspaces' = IF RuntimeOf[a] = "workspace"
                            THEN workspaces \cup {JobOf[a]} ELSE workspaces
         /\ todo' = todo \ {a}
         /\ UNCHANGED <<mode, outcome, canc>>
    ELSE ProcessEnds

Restored(a, ok) ==
  IF ok THEN /\ todo' = todo \ {a}
             /\ UNCHANGED <<mode, exec, st, runner, outcome, workspaces, canc>>
        ELSE ProcessEnds

\* A record restoreJournal skips, and one it must resolve with the engine.
Settled(r) == r.phase = "unknown" \/ r.stopVerified
Unresolved(r) == Present(r) /\ ~Settled(r) /\ ~NeverEntered(r)

RestoreSettled(a) ==
  /\ mode = "restoring" /\ a \in todo /\ Settled(rec[a])
  /\ Restored(a, TRUE)
  /\ UNCHANGED <<jvars, outside>>

RestoreUnstarted(a) ==
  /\ mode = "restoring" /\ a \in todo
  /\ ~Settled(rec[a]) /\ NeverEntered(rec[a])
  /\ \E ok \in BOOLEAN : RecoverUnstarted(a, ok) /\ Restored(a, ok)
  /\ UNCHANGED outside

RestoreNative(a) ==
  /\ mode = "restoring" /\ a \in todo /\ Unresolved(rec[a]) /\ ~IsDocker(a)
  /\ \E ok \in BOOLEAN : BlockReplay(a, TRUE, ok) /\ TrackRestored(a, ok)
  /\ UNCHANGED outside

\* A workspace that runs, whose customer was told so and has not cancelled.
Reattachable(a) ==
  /\ RuntimeOf[a] = "workspace" /\ live[a]
  /\ ~rec[a].cancelRequested /\ rec[a].result = "success"

RestoreReattaches(a) ==
  /\ mode = "restoring" /\ a \in todo /\ Unresolved(rec[a]) /\ IsDocker(a)
  /\ Reattachable(a)
  /\ \E ok \in BOOLEAN : BlockReplay(a, FALSE, ok) /\ TrackRestored(a, ok)
  /\ UNCHANGED outside

\* Mutant of ReplacedAtRestart: an accepted workspace success is replaced too.
Mut_ReplacedAtRestart(a) ==
  rec[a].result = "none" \/ RuntimeOf[a] = "workspace"

\* The restart is the result of what has none; a workspace success nobody
\* accepted is no longer true.
ReplacedAtRestart(a) ==
  \/ rec[a].result = "none"
  \/ RuntimeOf[a] = "workspace" /\ ~rec[a].accepted /\ rec[a].result = "success"

\* Anything else is removed, and its record settled.
RestoreStops(a) ==
  /\ mode = "restoring" /\ a \in todo /\ Unresolved(rec[a]) /\ IsDocker(a)
  /\ ~Reattachable(a)
  /\ live' = [live EXCEPT ![a] = FALSE]
  /\ \E ok \in BOOLEAN :
       /\ Complete(a, IF ReplacedAtRestart(a) THEN "failure" ELSE rec[a].result,
                   TRUE, ok)
       /\ Restored(a, ok)
  /\ UNCHANGED <<runs, promised, sent>>

\* Mutant of RestoreCannotVerify: the attempt is left to itself.
Mut_RestoreCannotVerify(a) ==
  /\ mode = "restoring" /\ a \in todo /\ Unresolved(rec[a]) /\ IsDocker(a)
  /\ \E ok \in BOOLEAN : BlockReplay(a, TRUE, ok) /\ Restored(a, ok)
  /\ UNCHANGED outside

\* The engine does not answer, or the removal cannot be verified.
RestoreCannotVerify(a) ==
  /\ mode = "restoring" /\ a \in todo /\ Unresolved(rec[a]) /\ IsDocker(a)
  /\ \/ UNCHANGED live
     \/ ~Reattachable(a) /\ live' = [live EXCEPT ![a] = FALSE]
  /\ \E ok \in BOOLEAN : BlockReplay(a, TRUE, ok) /\ TrackRestored(a, ok)
  /\ UNCHANGED <<runs, promised, sent>>

RestoreEnds ==
  /\ mode = "restoring" /\ todo = {}
  /\ mode' = "up"
  /\ UNCHANGED <<jvars, process, outside>>

(***************************************************************************)
(* The specification.                                                       *)
(***************************************************************************)

Init ==
  /\ JournalInit
  /\ mode = "up" /\ todo = {}
  /\ exec = NoExecution /\ st = NoFlag
  /\ runner = AllIdle /\ outcome = NoOutcome
  /\ workspaces = {} /\ canc = NoCancel
  /\ live = [a \in Attempts |-> FALSE]
  /\ runs = [a \in Attempts |-> 0]
  /\ promised = {} /\ sent = {}

RunnerStep(a) ==
  \/ RunnerEnters(a)
  \/ RunnerAssigns(a)
  \/ RunReturns(a)
  \/ RunnerSettles(a)
  \/ RunnerFinishes(a)

CancelStep(c) ==
  \/ CancelRemoves(c)
  \/ CancelJoins(c)
  \/ CancelTimesOut(c)
  \/ CancelRechecks(c)
  \/ CancelCommits(c)
  \/ CancelReturns(c)

RestoreStep(a) ==
  \/ RestoreSettled(a)
  \/ RestoreUnstarted(a)
  \/ RestoreNative(a)
  \/ RestoreReattaches(a)
  \/ RestoreStops(a)
  \/ RestoreCannotVerify(a)

Next ==
  \/ \E a \in Attempts :
       \/ Start(a)
       \/ Defer(a)
       \/ RunnerStep(a)
       \/ RunnerPrepareFails(a)
       \/ BackendStarts(a)
       \/ BackendEnds(a)
       \/ RememberCancel(a)
       \/ RejectAttempt(a)
       \/ SendResult(a)
       \/ AcknowledgeResult(a)
       \/ RestoreStep(a)
  \/ \E c \in Cancellers : CancelStep(c)
  \/ \E c \in Cancellers, a \in Attempts : CancelBegins(c, a)
  \/ Crash
  \/ Restart
  \/ RestoreEnds

Spec == Init /\ [][Next]_vars

\* A goroutine that can go on does; staging, docker and the runtime return
\* (job timeout, 30 s teardown contexts), and so does the wait of a canceller.
Fairness ==
  /\ \A a \in Attempts : WF_vars(RunnerStep(a))
  /\ \A c \in Cancellers : WF_vars(CancelStep(c))
  /\ \A a \in Attempts : WF_vars(RestoreStep(a))
  /\ WF_vars(RestoreEnds)

FairSpec == Spec /\ Fairness

(***************************************************************************)
(* Properties.                                                              *)
(***************************************************************************)

\* The work of an attempt begins at most once, whatever is retried, restored
\* or dispatched twice (journal.Admit, journal.Running).
RunAtMostOnce == \A a \in Attempts : runs[a] <= 1

\* When the agent tells the coordinator that an attempt is stopped, nothing of
\* it works any more, and nothing ever will (cancelContext's second removal,
\* after the join).
PromisedMeansStopped == \A a \in promised : ~live[a]

\* The proof of a stop on disk is never ahead of the stop.
StopVerifiedMeansStopped ==
  \A a \in Attempts : disk[a].stopVerified => ~live[a]

\* While an attempt's work may go on, the GPU is reserved for it and it is the
\* execution a cancellation will find (release, stopUnverified, restoreJournal).
LiveIsReserved ==
  mode = "up" => \A a \in Attempts : live[a] => Tracked(a) /\ st[a].held

\* The GPU is never reserved twice.
OneReservation ==
  \A a, b \in Attempts : st[a].held /\ st[b].held => a = b

\* At most one record on disk needs an engine to be resolved, so restoreJournal
\* never meets the second one that makes a start fail for good.
OneUnresolved ==
  \A a, b \in Attempts : Unresolved(disk[a]) /\ Unresolved(disk[b]) => a = b

\* A result that may be sent is the last word: its attempt is not working,
\* unless it is a workspace reporting that it runs (replayBlocked).
ReplayableIsSettled ==
  \A a \in Attempts :
    /\ mode = "up" /\ live[a]
    /\ rec[a].result # "none" /\ ~rec[a].replayBlocked
    => RuntimeOf[a] = "workspace" /\ rec[a].result = "success"

\* What the coordinator accepted is never rewritten, and a verified stop is
\* never taken back.
AcceptedIsFinal ==
  [][\A a \in Attempts :
       /\ disk[a].accepted => disk'[a].accepted /\ disk'[a].result = disk[a].result
       /\ disk[a].stopVerified => disk'[a].stopVerified]_vars

\* Only the failure of a write can fence the journal: no sequence of legal calls
\* produces a record that validate() refuses.
OnlyWritesFence == [][fault' /\ ~fault => StoreMayFail]_vars

\* A cancellation touches the attempt it was asked for and no other ("wrong-token
\* cancellation touched containers").
CancelTouchesOnlyItsAttempt ==
  [][\A c \in Cancellers, a \in Attempts :
       /\ canc[c].pc \in {"remove", "recheck"} /\ canc'[c] # canc[c]
       /\ live[a] /\ ~live'[a]
       => canc[c].target = a \/ mode' = "down"]_vars

\* Every execution that was started ends with a durable result, unless the
\* journal is fenced or the process dies first.
StartedGetsResult ==
  \A a \in Attempts :
    runner[a] = "admitted" ~>
      (rec[a].phase = "finished" /\ rec[a].result # "none") \/ fault \/ mode # "up"

\* A restart comes to an end, and every record it found is then settled,
\* provably unstarted or tracked again.
RestoreCompletes ==
  mode = "restoring" ~>
    \/ mode = "down"
    \/ /\ mode = "up"
       /\ \A a \in Attempts : Unresolved(rec[a]) => Tracked(a)

\* The executor keeps the promises the coordinator relies on.
Promises == INSTANCE AttemptLifecycle WITH
  begun <- {a \in Attempts : runs[a] > 0},
  active <- {a \in Attempts : live[a]},
  verdict <- [a \in Attempts |-> IF disk[a].accepted THEN disk[a].result ELSE "none"]

Lifecycle == Promises!Spec
=============================================================================
