--------------------------- MODULE AttemptJournal ---------------------------
(***************************************************************************)
(* The durable execution journal of one GPU: internal/job/journal.go and    *)
(* the two operations of internal/job/backend_identity.go.                  *)
(*                                                                          *)
(* An attempt is a (job_id, dispatch_token) pair.  The journal keeps one    *)
(* record per attempt, in memory and in a file of its own, and a catalog    *)
(* file that lists the records that must exist.  Every operation is one     *)
(* critical section under AttemptJournal.mu; it derives a new record from   *)
(* the one in memory and stores it.  A store is two file replacements, the  *)
(* record and (for a new record) the catalog; if anything fails the journal *)
(* is fenced, for good, and memory keeps the old record whatever the disk   *)
(* holds.  A crash between the two replacements leaves the disk as a failed *)
(* store does, so the failed stores below are also the crash points.        *)
(*                                                                          *)
(* Left out: versions, GPU and owner identity, checksums and file modes     *)
(* (all constant in one installation), and the text of results.             *)
(***************************************************************************)
EXTENDS Naturals, FiniteSets

CONSTANTS
  Attempts,           \* the (job_id, dispatch_token) pairs
  RuntimeOf,          \* the runtime each attempt's assignment asks for
  MaxJournalAttempts, \* capacity: maxJournalAttempts
  StoreMayFail        \* whether a write to the journal's files may fail

Runtimes == {"ollama", "docker-custom", "workspace"}

ASSUME JournalAssumption ==
  /\ IsFiniteSet(Attempts)
  /\ RuntimeOf \in [Attempts -> Runtimes]
  /\ MaxJournalAttempts \in Nat
  /\ StoreMayFail \in BOOLEAN

VARIABLES
  rec,       \* records in memory: AttemptJournal.records
  disk,      \* the record files
  catalog,   \* the attempts catalog.json lists
  recovered, \* attempts read back by this process: AttemptJournal.recovered
  fault      \* AttemptJournal.fault # nil

jvars == <<rec, disk, catalog, recovered, fault>>

Results == {"success", "failure"}

\* dockerRuntimeName; a record that was never admitted has no runtime.
Docker(runtime) == runtime \in {"docker-custom", "workspace"}

Record ==
  [runtime : Runtimes \cup {"none"},
   phase : {"absent", "unknown", "unstarted", "running", "finished"},
   knownUnstarted : BOOLEAN, cancelRequested : BOOLEAN,
   stopVerified : BOOLEAN, daemon : BOOLEAN,
   result : Results \cup {"none"}, accepted : BOOLEAN,
   replayBlocked : BOOLEAN, legacy : BOOLEAN]

\* The record fresh() starts from; its phase says that nothing is stored yet.
NoRecord ==
  [runtime |-> "none", phase |-> "absent",
   knownUnstarted |-> FALSE, cancelRequested |-> FALSE,
   stopVerified |-> FALSE, daemon |-> FALSE,
   result |-> "none", accepted |-> FALSE,
   replayBlocked |-> FALSE, legacy |-> FALSE]

Present(r) == r.phase # "absent"
Recorded(records) == {a \in Attempts : Present(records[a])}

JournalTypeOK ==
  /\ rec \in [Attempts -> Record]
  /\ disk \in [Attempts -> Record]
  /\ catalog \in SUBSET Attempts
  /\ recovered \in SUBSET Attempts
  /\ fault \in BOOLEAN

(***************************************************************************)
(* validate(): what a record must satisfy to be stored or read back.        *)
(***************************************************************************)
Valid(r) ==
  /\ r.phase \in {"unknown", "unstarted", "running", "finished"}
  /\ r.phase = "running" => r.runtime # "none" /\ ~r.knownUnstarted
  /\ r.phase = "unknown" => ~r.knownUnstarted /\ ~r.stopVerified
  /\ r.legacy => r.runtime = "none" /\ ~r.knownUnstarted /\ ~r.stopVerified
  /\ ~(r.stopVerified /\ r.replayBlocked)

(***************************************************************************)
(* store(): the record file, then the catalog, then memory.                 *)
(***************************************************************************)
Written(a, r) ==
  /\ Valid(r)
  /\ rec' = [rec EXCEPT ![a] = r]
  /\ disk' = [disk EXCEPT ![a] = r]
  /\ catalog' = catalog \cup {a}
  /\ UNCHANGED <<recovered, fault>>

\* Mutant of Fenced: a failed catalog write is reported but does not fence.
Mut_Fenced(a, r) ==
  /\ StoreMayFail /\ Valid(r)
  /\ rec' = [rec EXCEPT ![a] = r]
  /\ disk' = [disk EXCEPT ![a] = r]
  /\ UNCHANGED <<catalog, recovered, fault>>

\* A store that fails: on an invalid record before anything is written, on an
\* I/O error before the record file, between it and the catalog, or after both.
Fenced(a, r) ==
  /\ fault' = TRUE
  /\ UNCHANGED <<rec, recovered>>
  /\ \/ /\ ~Valid(r) \/ StoreMayFail
        /\ UNCHANGED <<disk, catalog>>
     \/ /\ Valid(r) /\ StoreMayFail
        /\ disk' = [disk EXCEPT ![a] = r]
        /\ catalog' \in {catalog, catalog \cup {a}}

\* ok tells the caller whether store() returned nil.
Store(a, r, ok) ==
  \/ ~fault /\ ok /\ Written(a, r)
  \/ ~fault /\ ~ok /\ Fenced(a, r)
  \/ fault /\ ~ok /\ UNCHANGED jvars

\* An operation that returns without reaching store().
Refused(ok) == ~ok /\ UNCHANGED jvars

\* fresh(): a new record needs room.
HasRoom == Cardinality(Recorded(rec)) < MaxJournalAttempts

(***************************************************************************)
(* The operations.                                                          *)
(***************************************************************************)

\* Mutant of Admissible: deduplication is left to the caller.
Mut_Admissible(a) ==
  IF Present(rec[a]) THEN ~rec[a].cancelRequested ELSE HasRoom

\* Admit: a new record, or one of this process that provably never started.
Admissible(a) ==
  LET r == rec[a] IN
  IF Present(r)
    THEN /\ a \notin recovered
         /\ r.knownUnstarted /\ ~r.cancelRequested /\ r.result = "none"
    ELSE HasRoom

\* Mutant of Admitted: the assignment's runtime is not recorded.
Mut_Admitted(a) ==
  [rec[a] EXCEPT !.runtime = "", !.phase = "unstarted", !.knownUnstarted = TRUE]

Admitted(a) ==
  [rec[a] EXCEPT !.runtime = RuntimeOf[a], !.daemon = FALSE,
                 !.phase = "unstarted", !.knownUnstarted = TRUE]

Admit(a, ok) ==
  IF Admissible(a) THEN Store(a, Admitted(a), ok) ELSE Refused(ok)

\* Mutant of Running: a cancellation that came first is not seen.
Mut_Running(a, ok) ==
  IF rec[a].knownUnstarted
    THEN Store(a, [rec[a] EXCEPT !.phase = "running",
                                 !.knownUnstarted = FALSE], ok)
    ELSE Refused(ok)

\* Running: the durable point of no return before the runtime is entered.
Running(a, ok) ==
  IF rec[a].knownUnstarted /\ ~rec[a].cancelRequested
    THEN Store(a, [rec[a] EXCEPT !.phase = "running",
                                 !.knownUnstarted = FALSE], ok)
    ELSE Refused(ok)

\* AssignDockerDaemon: binds a running attempt to the daemon that will own
\* its container.
AssignDockerDaemon(a, ok) ==
  IF rec[a].phase = "running" /\ ~rec[a].cancelRequested
    THEN Store(a, [rec[a] EXCEPT !.daemon = TRUE], ok)
    ELSE Refused(ok)

\* Mutants of Completed: a verified stop does not unblock the replay; nothing
\* ever blocks it.
Mut_CompletedReplayKept(a, result, stopped) ==
  [rec[a] EXCEPT !.phase = "finished", !.stopVerified = stopped,
                 !.result = IF result = "none" THEN @ ELSE result,
                 !.replayBlocked = @ \/ (~stopped /\ ~rec[a].knownUnstarted)]
Mut_CompletedReplayed(a, result, stopped) ==
  [rec[a] EXCEPT !.phase = "finished", !.stopVerified = stopped,
                 !.result = IF result = "none" THEN @ ELSE result]

\* Complete: result = "none" stands for a nil result, which keeps the old one.
Completed(a, result, stopped) ==
  LET r == rec[a]
      kept == IF result = "none" THEN r.result ELSE result
      healthyWorkspace == r.runtime = "workspace" /\ kept = "success"
  IN  [r EXCEPT !.phase = "finished", !.stopVerified = stopped,
                !.result = kept,
                !.replayBlocked = /\ ~stopped
                                  /\ ~healthyWorkspace
                                  /\ ~r.knownUnstarted]

Complete(a, result, stopped, ok) ==
  IF Present(rec[a]) THEN Store(a, Completed(a, result, stopped), ok)
                     ELSE Refused(ok)

\* RememberCancellation: the durable intent.  A docker attempt that runs but
\* has no daemon yet can no longer reach one, so it becomes provably unstarted.
Cancelled(a) ==
  LET r == rec[a]
      neverStarts == Docker(r.runtime) /\ ~r.daemon /\ r.phase = "running"
  IN  [r EXCEPT !.cancelRequested = TRUE,
                !.phase = IF ~Present(r) THEN "unknown"
                          ELSE IF neverStarts THEN "unstarted" ELSE @,
                !.knownUnstarted = @ \/ neverStarts]

RememberCancellation(a, ok) ==
  IF Present(rec[a]) \/ HasRoom THEN Store(a, Cancelled(a), ok)
                                ELSE Refused(ok)

\* RememberResult: the first result of an attempt is the one that stays.
ResultRemembered(a, result) ==
  LET r == rec[a] IN
  IF Present(r)
    THEN [r EXCEPT !.result = result,
                   !.replayBlocked = @ \/ (r.phase = "unknown" /\ ~r.stopVerified)]
    ELSE [r EXCEPT !.result = result, !.phase = "unstarted",
                   !.knownUnstarted = TRUE]

RememberResult(a, result, ok) ==
  IF rec[a].result # "none" THEN ok = ~fault /\ UNCHANGED jvars
  ELSE IF Present(rec[a]) \/ HasRoom
    THEN Store(a, ResultRemembered(a, result), ok)
    ELSE Refused(ok)

\* RememberLegacyResult: a result found on disk that no record explains.
RememberLegacyResult(a, result, ok) ==
  IF Present(rec[a]) THEN ok /\ UNCHANGED jvars
  ELSE IF HasRoom
    THEN Store(a, [rec[a] EXCEPT !.phase = "unknown", !.legacy = TRUE,
                                 !.result = result,
                                 !.replayBlocked = TRUE], ok)
    ELSE Refused(ok)

BlockReplay(a, blocked, ok) ==
  IF ~Present(rec[a]) THEN Refused(ok)
  ELSE IF rec[a].replayBlocked = blocked THEN ok = ~fault /\ UNCHANGED jvars
  ELSE Store(a, [rec[a] EXCEPT !.replayBlocked = blocked], ok)

Accept(a, ok) ==
  IF Present(rec[a]) THEN Store(a, [rec[a] EXCEPT !.accepted = TRUE], ok)
                     ELSE ok = ~fault /\ UNCHANGED jvars

\* recoverUnstarted: at restart, an attempt that never reached its runtime is
\* settled with a failure of its own.
NeverEntered(r) == r.knownUnstarted \/ (Docker(r.runtime) /\ ~r.daemon)

RecoverUnstarted(a, ok) ==
  IF NeverEntered(rec[a])
    THEN Store(a, [rec[a] EXCEPT
                     !.knownUnstarted = TRUE, !.stopVerified = TRUE,
                     !.replayBlocked = FALSE, !.phase = "finished",
                     !.result = IF @ = "none" THEN "failure" ELSE @], ok)
    ELSE Refused(ok)

(***************************************************************************)
(* openAttemptJournal on the files a previous process left.                 *)
(***************************************************************************)

\* Every condition under which it returns an error for execution records.
Openable ==
  /\ Cardinality(catalog) <= MaxJournalAttempts
  /\ Cardinality(Recorded(disk)) <= MaxJournalAttempts
  /\ \A a \in Recorded(disk) : Valid(disk[a])
  /\ catalog \subseteq Recorded(disk)
  /\ \A a \in Recorded(disk) \ catalog :
       /\ disk[a].phase \in {"unstarted", "unknown"}
       /\ ~disk[a].stopVerified /\ ~disk[a].accepted

\* The process that held the journal is gone and a new one opens it.
Reopen ==
  /\ Openable
  /\ rec' = disk
  /\ recovered' = Recorded(disk)
  /\ catalog' = Recorded(disk)
  /\ fault' = FALSE
  /\ UNCHANGED disk

\* Close
Close == fault' = TRUE /\ UNCHANGED <<rec, disk, catalog, recovered>>

JournalInit ==
  /\ rec = [a \in Attempts |-> NoRecord]
  /\ disk = [a \in Attempts |-> NoRecord]
  /\ catalog = {}
  /\ recovered = {}
  /\ fault = FALSE

\* The journal alone: its callers may call anything, in any order.
JournalNext ==
  \/ Reopen
  \/ Close
  \/ \E a \in Attempts, ok \in BOOLEAN :
       \/ Admit(a, ok)
       \/ Running(a, ok)
       \/ AssignDockerDaemon(a, ok)
       \/ RememberCancellation(a, ok)
       \/ Accept(a, ok)
       \/ RecoverUnstarted(a, ok)
       \/ \E stopped \in BOOLEAN, result \in Results \cup {"none"} :
            Complete(a, result, stopped, ok)
       \/ \E result \in Results : RememberResult(a, result, ok)
       \/ \E result \in Results : RememberLegacyResult(a, result, ok)
       \/ \E blocked \in BOOLEAN : BlockReplay(a, blocked, ok)

JournalSpec == JournalInit /\ [][JournalNext]_jvars

(***************************************************************************)
(* Properties.                                                              *)
(***************************************************************************)

\* Whatever was called and wherever a store failed or the process died, the
\* files left behind are ones openAttemptJournal accepts: a machine is never
\* locked out of its own journal.
AlwaysOpenable == Openable

\* Part of the induction: an unfenced journal has on disk what it has in
\* memory, and every record is catalogued.
InSync == ~fault => disk = rec /\ catalog = Recorded(rec)

\* Part of the induction: what is not stored is the empty record.
AbsentIsFresh ==
  \A a \in Attempts :
    /\ ~Present(rec[a]) => rec[a] = NoRecord
    /\ ~Present(disk[a]) => disk[a] = NoRecord

\* A cancellation outlives everything, restarts included, and an attempt
\* cancelled before it runs never enters "running" afterwards.
CancelledNeverStarts ==
  [][\A a \in Attempts :
       disk[a].cancelRequested =>
         /\ disk'[a].cancelRequested
         /\ disk[a].phase # "running" => disk'[a].phase # "running"]_jvars

\* One admission per attempt: an attempt whose never-started proof has been
\* withdrawn (by Running, or by being unknown) is never admissible again, in
\* this process or in a later one.
NeverReadmitted ==
  [][\A a \in Attempts :
       Present(disk[a]) /\ ~disk[a].knownUnstarted =>
         ~ /\ disk'[a].knownUnstarted
           /\ ~disk'[a].cancelRequested
           /\ disk'[a].result = "none"]_jvars
=============================================================================
