--------------------------- MODULE MachineLease ---------------------------
(***************************************************************************)
(* What the GPUs of a machine may run at the same time: containers on any   *)
(* of them together, native Ollama alone, and cleanups with nothing         *)
(* (internal/job/executor.go, recovery.go, journal.go, internal/pool/       *)
(* client.go).                                                              *)
(*                                                                          *)
(* An attempt takes the lock of its process, shared or exclusive, and the   *)
(* file lock of the machine in the same mode, and holds both until it is    *)
(* verified to be over, or as long as the process lives.  After a restart   *)
(* the journals of all GPUs say which attempts are unresolved, and these    *)
(* take their locks again before any job is admitted.  What an agent has    *)
(* locked for an attempt it lets go only when it settles it itself: when   *)
(* another agent does, the lock is kept until the process ends.             *)
(*                                                                          *)
(* A record of an older version, whose runtime is not known, is treated by  *)
(* the code as an Ollama attempt that is, and is not repeated here.         *)
(***************************************************************************)
EXTENDS Naturals, FiniteSets

CONSTANTS
  Gpus, Agents,
  Home,       \* the agent process that serves each GPU
  Nobody,
  MaxCrashes  \* bound: agents that end with everything they hold

Runtimes == {"docker", "ollama"}
ASSUME LeaseAssumption ==
  Home \in [Gpus -> Agents] /\ Nobody \notin Agents \cup Runtimes /\ MaxCrashes \in Nat

VARIABLES
  up,       \* each agent: down, starting, up
  todo,     \* the journals it has still to restore
  owner,    \* the agent that has the journal of a GPU open
  attempt,  \* the runtime of the unresolved attempt in each journal
  entered,  \* ... and whether the backend may have been entered
  running,  \* whether a goroutine of the agent runs it
  live,     \* what the backend really runs on each GPU
  lease,    \* the locks each agent holds for the attempt in each journal: shared
            \* (docker) or exclusive
  stale,    \* whether it still holds shared ones for attempts that others settled
  maintenance, \* whether a cleanup holds the lock of the process
  blocked,  \* recoveryGates: an unresolved native attempt was restored
  crashes

\* An agent that holds no locks.
Free == [g \in Gpus |-> Nobody]

leaseVars == <<up, todo, owner, attempt, entered, running, live, lease, stale,
               maintenance, blocked, crashes>>
agents == <<up, todo, owner, maintenance, blocked, crashes>>
locks == <<lease, stale>>

\* TryRLock for a container, TryLock for Ollama; then lockMachineFile, between
\* processes.  A cleanup has the first only.
\* Mutant of Compatible: containers start beside anything.
Mut_Compatible(p, runtime) ==
  runtime = "docker" \/ (~stale[p] /\ \A g \in Gpus : lease[p][g] = Nobody)
Compatible(p, runtime) ==
  /\ stale[p] => runtime = "docker"
  /\ \A g \in Gpus : lease[p][g] = Nobody \/ (lease[p][g] = "docker" /\ runtime = "docker")
GateFree(p, runtime) == ~maintenance[p] /\ Compatible(p, runtime)
\* Mutant of FileFree: there is no lock between processes.
Mut_FileFree(runtime) == TRUE
FileFree(runtime) == \A p \in Agents : Compatible(p, runtime)

(***************************************************************************)
(* Start and end of an agent.                                               *)
(***************************************************************************)

\* The locks, the flag and the journals go with the process; the backends stay.
Down(p) ==
  /\ up' = [up EXCEPT ![p] = "down"]
  /\ todo' = [todo EXCEPT ![p] = {}]
  /\ owner' = [g \in Gpus |-> IF owner[g] = p THEN Nobody ELSE owner[g]]
  /\ running' = [g \in Gpus |-> running[g] /\ owner[g] # p]
  /\ lease' = [lease EXCEPT ![p] = Free]
  /\ stale' = [stale EXCEPT ![p] = FALSE]
  /\ maintenance' = [maintenance EXCEPT ![p] = FALSE]
  /\ blocked' = [blocked EXCEPT ![p] = FALSE]

BeginStart(p) ==
  /\ up[p] = "down"
  /\ up' = [up EXCEPT ![p] = "starting"]
  /\ todo' = [todo EXCEPT ![p] = Gpus]
  /\ UNCHANGED <<owner, attempt, entered, running, live, locks, maintenance, blocked, crashes>>

\* Mutants of Over: the record still says running; the locks are kept.
Mut_Over(p, g) ==
  /\ attempt' = [attempt EXCEPT ![g] = Nobody]
  /\ lease' = [q \in Agents |-> [lease[q] EXCEPT ![g] = Nobody]]
  /\ UNCHANGED <<entered, stale>>
Mut_OverKeepsLease(p, g) ==
  /\ attempt' = [attempt EXCEPT ![g] = Nobody]
  /\ entered' = [entered EXCEPT ![g] = FALSE]
  /\ UNCHANGED locks

\* The verified end of an attempt: its record is settled, and the agent that settled
\* it lets its locks go.  Another one that restored it keeps its own.
Over(p, g) ==
  /\ attempt' = [attempt EXCEPT ![g] = Nobody]
  /\ entered' = [entered EXCEPT ![g] = FALSE]
  /\ lease' = [q \in Agents |-> [lease[q] EXCEPT ![g] = Nobody]]
  /\ stale' = [q \in Agents |-> stale[q] \/ (q # p /\ lease[q][g] # Nobody)]

\* A record that is settled is passed over, with the locks as they are, and one that
\* was never entered is settled without any.
PassOver(g) ==
  /\ attempt[g] = Nobody \/ ~entered[g]
  /\ attempt' = [attempt EXCEPT ![g] = Nobody]
  /\ UNCHANGED <<entered, live, locks, blocked>>

\* restoreLease and the teardown in restoreJournal.  An attempt that was restored
\* before, as a sibling's, has its locks already.
Reserve(p, g) ==
  /\ attempt[g] # Nobody /\ entered[g]
  /\ lease[p][g] = Nobody => GateFree(p, attempt[g]) /\ FileFree(attempt[g])
  /\ blocked' = [blocked EXCEPT ![p] = @ \/ attempt[g] = "ollama"]
  /\ \/ /\ attempt[g] = "docker"
        /\ Over(p, g) /\ live' = [live EXCEPT ![g] = Nobody]
     \/ /\ lease' = [lease EXCEPT ![p][g] = attempt[g]]
        /\ UNCHANGED <<attempt, entered, live, stale>>

Recover(p, g) == PassOver(g) \/ Reserve(p, g)

Restored(p, g) == todo' = [todo EXCEPT ![p] = @ \ {g}]

RestoreOwn(p, g) ==
  /\ up[p] = "starting" /\ g \in todo[p] /\ Home[g] = p /\ owner[g] = Nobody
  /\ Recover(p, g)
  /\ owner' = [owner EXCEPT ![g] = p] /\ Restored(p, g)
  /\ UNCHANGED <<up, running, maintenance, crashes>>

\* restoreOrphanSiblingJournals, once for each journal of its own that the agent
\* opens: also a journal it opens later, but not one that is open already.
RestorePeer(p, g) ==
  /\ up[p] = "starting"
  /\ \/ owner[g] = Nobody /\ Recover(p, g)
     \/ owner[g] # Nobody /\ UNCHANGED <<attempt, entered, live, locks, blocked>>
  /\ IF Home[g] = p THEN UNCHANGED todo ELSE Restored(p, g)
  /\ UNCHANGED <<up, owner, running, maintenance, crashes>>

Ready(p) ==
  /\ up[p] = "starting" /\ todo[p] = {}
  /\ up' = [up EXCEPT ![p] = "up"]
  /\ UNCHANGED <<todo, owner, attempt, entered, running, live, locks, maintenance, blocked,
                 crashes>>

\* A crash, a start that fails, or an exit, whatever is running.
End(p) ==
  /\ up[p] # "down" /\ crashes < MaxCrashes
  /\ crashes' = crashes + 1
  /\ Down(p)
  /\ UNCHANGED <<attempt, entered, live>>

(***************************************************************************)
(* A job on a GPU (Start, execute, cancelContext).                          *)
(***************************************************************************)

Start(g, runtime) ==
  LET p == Home[g] IN
  /\ up[p] = "up" /\ ~blocked[p] /\ attempt[g] = Nobody
  /\ GateFree(p, runtime) /\ FileFree(runtime)
  /\ attempt' = [attempt EXCEPT ![g] = runtime]
  /\ lease' = [lease EXCEPT ![p][g] = runtime]
  /\ running' = [running EXCEPT ![g] = TRUE]
  /\ UNCHANGED <<agents, entered, live, stale>>

\* The Ollama attempt is marked running, or the daemon of the container recorded.
Enter(g) ==
  /\ running[g] /\ ~entered[g]
  /\ entered' = [entered EXCEPT ![g] = TRUE]
  /\ UNCHANGED <<agents, attempt, running, live, locks>>

BackendStarts(g) ==
  /\ running[g] /\ entered[g]
  /\ live' = [live EXCEPT ![g] = attempt[g]]
  /\ UNCHANGED <<agents, attempt, entered, running, locks>>

BackendEnds(g) ==
  /\ live[g] # Nobody /\ live' = [live EXCEPT ![g] = Nobody]
  /\ UNCHANGED <<agents, attempt, entered, running, locks>>

\* The runner ends with a verified stop: an Ollama run that returned its answer,
\* or a container that was removed.
EndsStopped(g) ==
  /\ running[g]
  /\ attempt[g] = "ollama" => live[g] = Nobody
  /\ live' = [live EXCEPT ![g] = Nobody]
  /\ running' = [running EXCEPT ![g] = FALSE]
  /\ Over(Home[g], g)
  /\ UNCHANGED agents

\* Mutant of EndsUnverified: the locks are let go at the end of the goroutine.
Mut_EndsUnverified(g) ==
  /\ running[g] /\ entered[g]
  /\ running' = [running EXCEPT ![g] = FALSE]
  /\ lease' = [lease EXCEPT ![Home[g]][g] = Nobody]
  /\ UNCHANGED <<agents, attempt, entered, live, stale>>

\* ... or without one: an Ollama run that failed, a removal that could not be
\* verified, a workspace, which goes on.
EndsUnverified(g) ==
  /\ running[g] /\ entered[g]
  /\ running' = [running EXCEPT ![g] = FALSE]
  /\ UNCHANGED <<agents, attempt, entered, live, locks>>

\* A later cancellation of an attempt whose goroutine is done can settle a
\* container, never a native run.
Cancel(g) ==
  LET p == Home[g] IN
  /\ up[p] = "up" /\ attempt[g] = "docker" /\ ~running[g] /\ lease[p][g] # Nobody
  /\ Over(p, g) /\ live' = [live EXCEPT ![g] = Nobody]
  /\ UNCHANGED <<agents, running>>

(***************************************************************************)
(* Cleanups: asset_cleanup and pruneCustomAssetsIfIdle.                     *)
(***************************************************************************)

\* Mutant of Quiet: only the jobs that still run are in the way.
Mut_Quiet(p) == \A g \in Gpus : ~running[g]
Quiet(p) == ~stale[p] /\ lease[p] = Free

Maintain(p) ==
  /\ up[p] = "up" /\ ~blocked[p] /\ ~maintenance[p] /\ Quiet(p)
  /\ maintenance' = [maintenance EXCEPT ![p] = TRUE]
  /\ UNCHANGED <<up, todo, owner, attempt, entered, running, live, locks, blocked, crashes>>

MaintainEnds(p) ==
  /\ maintenance[p] /\ maintenance' = [maintenance EXCEPT ![p] = FALSE]
  /\ UNCHANGED <<up, todo, owner, attempt, entered, running, live, locks, blocked, crashes>>

LeaseInit ==
  /\ up = [p \in Agents |-> "down"] /\ todo = [p \in Agents |-> {}]
  /\ owner = [g \in Gpus |-> Nobody] /\ attempt = [g \in Gpus |-> Nobody]
  /\ entered = [g \in Gpus |-> FALSE] /\ running = [g \in Gpus |-> FALSE]
  /\ live = [g \in Gpus |-> Nobody] /\ lease = [p \in Agents |-> Free]
  /\ stale = [p \in Agents |-> FALSE]
  /\ maintenance = [p \in Agents |-> FALSE] /\ blocked = [p \in Agents |-> FALSE]
  /\ crashes = 0

Agent(p) ==
  \/ BeginStart(p) \/ Ready(p) \/ End(p) \/ Maintain(p) \/ MaintainEnds(p)
  \/ \E g \in Gpus : RestoreOwn(p, g) \/ RestorePeer(p, g)

Job(g) ==
  \/ \E runtime \in Runtimes : Start(g, runtime)
  \/ Enter(g) \/ BackendStarts(g) \/ BackendEnds(g)
  \/ EndsStopped(g) \/ EndsUnverified(g) \/ Cancel(g)

LeaseNext == (\E p \in Agents : Agent(p)) \/ (\E g \in Gpus : Job(g))

LeaseSpec == LeaseInit /\ [][LeaseNext]_leaseVars

(***************************************************************************)
(* Properties.                                                              *)
(***************************************************************************)

LeaseTypeOK ==
  /\ up \in [Agents -> {"down", "starting", "up"}]
  /\ todo \in [Agents -> SUBSET Gpus]
  /\ owner \in [Gpus -> Agents \cup {Nobody}]
  /\ attempt \in [Gpus -> Runtimes \cup {Nobody}]
  /\ \A g \in Gpus : entered[g] => attempt[g] # Nobody
  /\ entered \in [Gpus -> BOOLEAN] /\ running \in [Gpus -> BOOLEAN]
  /\ live \in [Gpus -> Runtimes \cup {Nobody}]
  /\ lease \in [Agents -> [Gpus -> Runtimes \cup {Nobody}]]
  /\ stale \in [Agents -> BOOLEAN]
  /\ maintenance \in [Agents -> BOOLEAN] /\ blocked \in [Agents -> BOOLEAN]
  /\ crashes \in 0 .. MaxCrashes

\* executor.go:207: "native Ollama requires all sibling GPUs idle".  The backends
\* themselves never run together: on the GPUs of one agent across any restarts, on
\* those of several until one of them ends with work that goes on.
NativeRunsAlone ==
  \A g, h \in Gpus :
    live[g] = "ollama" /\ g # h /\ (Home[g] = Home[h] \/ crashes = 0) => live[h] = Nobody

\* The same of all GPUs of the machine at any time.
NativeRunsAloneOnMachine ==
  \A g, h \in Gpus : live[g] = "ollama" /\ g # h => live[h] = Nobody

\* client.go:797: "cleanup blocked while machine jobs are active or their stop
\* is unverified".  An agent removes files only while nothing runs on its GPUs.
MaintenanceRunsAlone ==
  \A p \in Agents : maintenance[p] => \A g \in Gpus : Home[g] = p => live[g] = Nobody

RunsAlone == NativeRunsAlone /\ MaintenanceRunsAlone

\* Once an agent serves jobs, every attempt of its GPUs that may have a backend
\* holds the locks, in whichever journal it is (journal_test.go:351).
UnresolvedIsReserved ==
  \A p \in Agents, g \in Gpus :
    up[p] = "up" /\ entered[g] /\ Home[g] = p => lease[p][g] # Nobody

\* Nothing but work that may go on keeps the GPUs of a machine from working.  Only
\* an unresolved native attempt, in whichever journal, or a cleanup of the agent
\* itself keeps it from taking a container; native work waits also for unresolved
\* containers, and for shared locks that were kept for one another agent settled.
ReservedForAnAttempt ==
  \A p \in Agents :
    /\ blocked[p] \/ ~FileFree("docker")
         => \E g \in Gpus : attempt[g] = "ollama" /\ (entered[g] \/ running[g])
    /\ ~Compatible(p, "ollama") /\ ~stale[p]
         => \E g \in Gpus : attempt[g] # Nobody /\ (entered[g] \/ running[g])
=============================================================================
