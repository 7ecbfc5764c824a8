---------------------------- MODULE ConfigStore ----------------------------
(***************************************************************************)
(* The saved configuration of a machine, the installation proof and the     *)
(* journal it pins, and the commands that read and write them: enrollment,  *)
(* pause, resume, schedule, unenroll, start and cleanup (main.go,           *)
(* recovery_startup.go, internal/config/config.go, the root identity of     *)
(* internal/job/journal_root.go).                                           *)
(*                                                                          *)
(* Every command is a process of its own, or a handler of the GUI's         *)
(* process, and only enrollments and starts exclude one another.  A file is *)
(* replaced atomically.                                                     *)
(*                                                                          *)
(* Left out: fields of the configuration nothing here depends on, keys that *)
(* are rotated, and the files of the journals under the root (they are in   *)
(* AttemptJournal).                                                         *)
(***************************************************************************)
EXTENDS Naturals, FiniteSets

CONSTANTS
  Procs,      \* commands that run at the same time
  Machines,   \* machines the pool knows; each has one enrollment token
  FreeOf,     \* those of them that are enrolled at price zero
  Pools,      \* pool URLs
  None, NoFile,
  Edits,      \* the commands among pause, resume and schedule
  Overlap,    \* whether a command may begin while another is between its steps
  MayBatch,   \* whether batch tokens are used
  Cleanups,   \* the cleanups among cache and config
  Faults,     \* among lost (responses), save (fails), crash, journal, restore
  MaxJournals \* bound: journal roots, and installation proofs, ever created

Configs == [key : Machines \cup {None}, machine : Machines \cup {None, "own"}, pool : Pools,
            paused : BOOLEAN, pin : 0 .. MaxJournals,
            price : {"zero", "paid", "default"}, free : BOOLEAN]

ASSUME ConfigAssumption ==
  /\ FreeOf \subseteq Machines /\ None \notin Machines \cup Pools \cup {"own"} /\ "own" \notin Machines
  /\ Edits \subseteq {"pause", "resume", "schedule"}
  /\ Overlap \in BOOLEAN /\ MayBatch \in BOOLEAN
  /\ Cleanups \subseteq {"cache", "config"}
  /\ Faults \subseteq {"lost", "save", "crash", "journal", "restore"}
  /\ MaxJournals \in Nat \ {0}
  /\ NoFile \notin Configs

VARIABLES
  config,  \* the configuration file
  proof,   \* installation-id and installation-secret, 0 when there are none
  journal, \* the identity of the journal root, 0 when there is none
  made,    \* journal roots and proofs made so far
  locked,  \* the directory .enrollment.lock exists
  claimed, \* the pool's record of the proof each machine's token was used with
  pc, local, \* the step of each command and what it has read
  process,   \* the agent process and the configuration it started with
  pausedByOwner \* history: the owner paused, and did not resume or enroll since

configVars == <<config, proof, journal, made, locked, claimed, pc, local, process, pausedByOwner>>
files == <<proof, journal, made, locked, claimed>>

\* generateCommentedConfig: contribute_free is not among the fields written.
Written(c) == [c EXCEPT !.free = FALSE]

Fresh == [key |-> None, machine |-> "own", paused |-> FALSE, pin |-> 0, price |-> "paid", free |-> FALSE]

\* Mutant of ApplyDefaults: a file without a machine goes on without one.
Mut_ApplyDefaults(c) == [c EXCEPT !.price = IF @ = "zero" /\ ~c.free THEN "default" ELSE @]

\* ApplyDefaults: an identity for a machine that has none, and a price, unless
\* zero is meant.
ApplyDefaults(c) ==
  [c EXCEPT !.machine = IF @ = None THEN "own" ELSE @,
            !.price = IF @ = "zero" /\ ~c.free THEN "default" ELSE @]

\* Save, which may fail only when the run lets it.
Save(c) == config' = Written(c)
SaveFails == "save" \in Faults

Idle(p) == pc[p] = "idle"
Starting == process.pc \notin {"off", "run"}
Free == Overlap \/ (~Starting /\ \A q \in Procs : Idle(q))
MayBegin(p) == Idle(p) /\ Free
Go(p, label, value) == pc' = [pc EXCEPT ![p] = label] /\ local' = [local EXCEPT ![p] = value]
Done(p) == Go(p, "idle", None)

(***************************************************************************)
(* Pause, resume, schedule: load, change a field, save (updateSavedConfig). *)
(***************************************************************************)

\* Mutant of Edited: a new schedule ends the pause.
Mut_Edited(c, edit) == [c EXCEPT !.paused = edit = "pause"]
Edited(c, edit) == [c EXCEPT !.paused = IF edit = "schedule" THEN @ ELSE edit = "pause"]

LoadToEdit(p, edit) ==
  /\ MayBegin(p) /\ config # NoFile
  /\ Go(p, "edit", Edited(config, edit))
  /\ pausedByOwner' = (pausedByOwner /\ edit # "resume")
  /\ UNCHANGED <<config, process, files>>

SaveEdit(p) ==
  /\ pc[p] = "edit"
  /\ \/ Save(local[p]) /\ pausedByOwner' = (pausedByOwner \/ local[p].paused)
     \/ SaveFails /\ UNCHANGED <<config, pausedByOwner>>
  /\ Done(p)
  /\ UNCHANGED <<process, files>>

\* In the process of the agent, unenrolling also asks it to stop.
Unenroll(p, inAgent) ==
  /\ MayBegin(p)
  /\ config' = NoFile
  /\ process' = IF inAgent /\ process.pc = "run" THEN [process EXCEPT !.pc = "stop"] ELSE process
  /\ UNCHANGED <<files, pc, local, pausedByOwner>>

(***************************************************************************)
(* Enrollment (initializeEnrollment).                                       *)
(***************************************************************************)

\* singleEnrollmentConfig: a configuration a single token may be used over.
Acceptable(c, pool) ==
  c # NoFile => c.pool = pool /\ ~(c.key # None /\ c.machine = None)

OtherMachine(c, m) == c # NoFile /\ c.machine \notin {None, m}

\* Mutant of LoadOrCreateProof: every enrollment makes its own.
Mut_LoadOrCreateProof ==
  /\ made.proofs < MaxJournals
  /\ proof' = made.proofs + 1
  /\ made' = [made EXCEPT !.proofs = @ + 1]

\* The lock, the test write, the check of the saved configuration, and the
\* installation proof, which is created once and kept.
LoadOrCreateProof ==
  IF proof # 0 THEN UNCHANGED <<proof, made>>
  ELSE /\ made.proofs < MaxJournals
       /\ proof' = made.proofs + 1
       /\ made' = [made EXCEPT !.proofs = @ + 1]

EnrollBegin(p, m, pool, batch) ==
  /\ MayBegin(p) /\ ~locked
  /\ batch \/ Acceptable(config, pool)
  /\ locked' = TRUE
  /\ LoadOrCreateProof
  /\ Go(p, "request", [token |-> m, pool |-> pool, batch |-> batch, saw |-> config])
  /\ UNCHANGED <<config, journal, claimed, process, pausedByOwner>>

Finish(p) == Done(p) /\ locked' = FALSE

\* The pool answers a token again only to the proof it was first used with.
EnrollRequest(p) ==
  LET t == local[p].token
      granted == claimed[t] \in {0, proof}
  IN /\ pc[p] = "request"
     /\ claimed' = IF granted THEN [claimed EXCEPT ![t] = proof] ELSE claimed
     /\ \/ granted /\ Go(p, "response", local[p]) /\ UNCHANGED locked
        \/ (~granted \/ "lost" \in Faults) /\ Finish(p)
     /\ UNCHANGED <<config, proof, journal, made, process, pausedByOwner>>

\* Mutant of EnrollRefused: what was there before the request decides.
Mut_EnrollRefused(t) ==
  ~t.batch /\ (~Acceptable(t.saw, t.pool) \/ OtherMachine(t.saw, t.token))
EnrollRefused(t) ==
  ~t.batch /\ (\/ ~Acceptable(config, t.pool)
               \/ OtherMachine(config, t.token) \/ OtherMachine(t.saw, t.token))

\* After the answer the file is read again: it may have been put in place, or
\* removed, meanwhile.
EnrollRecheck(p) ==
  LET m == local[p].token
      pool == local[p].pool
      batch == local[p].batch
      same == config # NoFile /\ config.machine = m /\ config.key = m /\ config.pool = pool
      base == IF config = NoFile \/ batch THEN Fresh ELSE config
  IN /\ pc[p] = "response"
     /\ IF EnrollRefused(local[p]) \/ same
          THEN Finish(p)
          ELSE /\ Go(p, "save",
                     [batch |-> batch,
                      new |-> [key |-> m, machine |-> m, pool |-> pool, paused |-> base.paused,
                               pin |-> base.pin, free |-> m \in FreeOf,
                               price |-> IF m \in FreeOf THEN "zero" ELSE "paid"]])
               /\ UNCHANGED locked
     /\ UNCHANGED <<config, proof, journal, made, claimed, process, pausedByOwner>>

EnrollSave(p) ==
  /\ pc[p] = "save"
  /\ \/ /\ Save(local[p].new)
        /\ pausedByOwner' = (pausedByOwner /\ config # NoFile /\ ~local[p].batch)
     \/ SaveFails /\ UNCHANGED <<config, pausedByOwner>>
  /\ Finish(p)
  /\ UNCHANGED <<proof, journal, made, claimed, process>>

\* A command that is killed leaves its lock, which the owner removes by hand
\* once no enrollment runs, as the message says.
Enrolling(p) == pc[p] \in {"request", "response", "save"}
Kill(p) ==
  /\ "crash" \in Faults /\ ~Idle(p)
  /\ Done(p)
  /\ UNCHANGED <<config, files, process, pausedByOwner>>
RemoveLock ==
  /\ locked /\ \A p \in Procs : ~Enrolling(p)
  /\ locked' = FALSE
  /\ UNCHANGED <<config, proof, journal, made, claimed, pc, local, process, pausedByOwner>>

(***************************************************************************)
(* Start (cmdStartWithClients, prepareExecutionRecovery).                   *)
(***************************************************************************)

AgentGoes(label) == process' = [process EXCEPT !.pc = label]
Refuse == process' = [pc |-> "off", cfg |-> NoFile, loaded |-> 0]

\* The lock of the agent process is taken.
AgentBegin ==
  /\ process.pc = "off" /\ (Overlap \/ \A p \in Procs : Idle(p))
  /\ AgentGoes("load")
  /\ UNCHANGED <<config, files, pc, local, pausedByOwner>>

AgentLoad ==
  /\ process.pc = "load"
  /\ IF config = NoFile THEN Refuse
     ELSE IF config.key = None THEN Refuse
     ELSE process' = [pc |-> IF config.machine = None THEN "identity" ELSE "prepare",
                    cfg |-> ApplyDefaults(config), loaded |-> config.pin]
  /\ UNCHANGED <<config, files, pc, local, pausedByOwner>>

AgentSaveIdentity ==
  /\ process.pc = "identity"
  /\ \/ Save(process.cfg) /\ AgentGoes("prepare")
     \/ SaveFails /\ Refuse /\ UNCHANGED config
  /\ UNCHANGED <<files, pc, local, pausedByOwner>>

\* openJournalRoot: a pinned root must be there and be the same; without a pin
\* the root that is there is taken, or one is made.
\* Mutant of RootRefused: whatever root is there is used.
Mut_RootRefused(pin) == FALSE
RootRefused(pin) == pin # 0 /\ journal # pin

AgentPrepare ==
  /\ process.pc = "prepare"
  /\ IF RootRefused(process.cfg.pin)
       THEN Refuse /\ UNCHANGED <<journal, made>>
       ELSE /\ IF journal # 0 THEN UNCHANGED <<journal, made>>
               ELSE /\ made.journals < MaxJournals
                    /\ journal' = made.journals + 1
                    /\ made' = [made EXCEPT !.journals = @ + 1]
            /\ process' = [process EXCEPT !.pc = IF process.cfg.pin = journal' THEN "run" ELSE "pin",
                                      !.cfg.pin = journal']
  /\ UNCHANGED <<config, proof, locked, claimed, pc, local, pausedByOwner>>

\* Mutant of AgentPin: a pin that cannot be saved is only reported.
Mut_AgentPin ==
  /\ process.pc = "pin" /\ AgentGoes("run")
  /\ Save(process.cfg) \/ (SaveFails /\ UNCHANGED config)
  /\ UNCHANGED <<files, pc, local, pausedByOwner>>

AgentPin ==
  /\ process.pc = "pin"
  /\ \/ Save(process.cfg) /\ AgentGoes("run")
     \/ SaveFails /\ Refuse /\ UNCHANGED config
  /\ UNCHANGED <<files, pc, local, pausedByOwner>>

AgentExit ==
  /\ process.pc \in {"run", "stop"} \/ (process.pc # "off" /\ "crash" \in Faults)
  /\ Refuse
  /\ UNCHANGED <<config, files, pc, local, pausedByOwner>>

(***************************************************************************)
(* The cleanup command, and what may happen to the files meanwhile.         *)
(***************************************************************************)

\* --cache removes the model cache, and the executions directory in it.
CleanupCache ==
  /\ "cache" \in Cleanups /\ Free
  /\ journal' = 0
  /\ UNCHANGED <<config, proof, made, locked, claimed, pc, local, process, pausedByOwner>>

\* --config-file removes the configuration and the installation proof.
CleanupConfig ==
  /\ "config" \in Cleanups /\ Free
  /\ config' = NoFile /\ proof' = 0
  /\ UNCHANGED <<journal, made, locked, claimed, pc, local, process, pausedByOwner>>

\* The disk of the cache is lost, or the one of another installation is mounted.
JournalReplaced ==
  /\ "journal" \in Faults
  /\ \E j \in {0} \cup 1 .. made.journals : journal' = j
  /\ UNCHANGED <<config, proof, made, locked, claimed, pc, local, process, pausedByOwner>>

\* The owner puts the file of another machine in place while an enrollment waits
\* for its answer.
Restore(m) ==
  /\ "restore" \in Faults
  /\ \E p \in Procs : pc[p] = "request"
  /\ \E pool \in Pools :
       config' = [key |-> m, machine |-> m, pool |-> pool, paused |-> FALSE, pin |-> 0,
                  price |-> "paid", free |-> FALSE]
  /\ pausedByOwner' = FALSE
  /\ UNCHANGED <<files, pc, local, process>>

\* No file, or one written by hand with only a key and a pool.
ConfigInit ==
  /\ config \in {NoFile} \cup
       {[key |-> m, machine |-> None, pool |-> pool, paused |-> FALSE, pin |-> 0,
         price |-> "zero", free |-> FALSE] : m \in Machines, pool \in Pools}
  /\ proof = 0 /\ journal = 0 /\ made = [proofs |-> 0, journals |-> 0]
  /\ locked = FALSE
  /\ claimed = [m \in Machines |-> 0]
  /\ pc = [p \in Procs |-> "idle"] /\ local = [p \in Procs |-> None]
  /\ process = [pc |-> "off", cfg |-> NoFile, loaded |-> 0]
  /\ pausedByOwner = FALSE

Command(p) ==
  \/ \E edit \in Edits : LoadToEdit(p, edit)
  \/ SaveEdit(p)
  \/ \E inAgent \in BOOLEAN : Unenroll(p, inAgent)
  \/ \E m \in Machines, pool \in Pools, batch \in {FALSE, MayBatch} : EnrollBegin(p, m, pool, batch)
  \/ EnrollRequest(p)
  \/ EnrollRecheck(p)
  \/ EnrollSave(p)
  \/ Kill(p)

Agent == AgentBegin \/ AgentLoad \/ AgentSaveIdentity \/ AgentPrepare \/ AgentPin \/ AgentExit

ConfigNext ==
  \/ \E p \in Procs : Command(p)
  \/ Agent
  \/ RemoveLock \/ CleanupCache \/ CleanupConfig \/ JournalReplaced
  \/ \E m \in Machines : Restore(m)

ConfigSpec == ConfigInit /\ [][ConfigNext]_configVars

(***************************************************************************)
(* Properties.                                                              *)
(***************************************************************************)

ConfigTypeOK ==
  /\ config = NoFile \/ config \in Configs
  /\ {proof, journal} \subseteq 0 .. MaxJournals
  /\ made \in [proofs : 0 .. MaxJournals, journals : 0 .. MaxJournals]
  /\ locked \in BOOLEAN
  /\ claimed \in [Machines -> 0 .. MaxJournals]
  /\ \A p \in Procs :
       CASE pc[p] = "idle" -> local[p] = None
         [] pc[p] = "edit" -> local[p] \in Configs
         [] pc[p] = "save" -> local[p].new \in Configs
         [] pc[p] \in {"request", "response"} ->
              /\ local[p].token \in Machines /\ local[p].pool \in Pools
              /\ local[p].saw = NoFile \/ local[p].saw \in Configs
  /\ process.pc \in {"off", "load", "identity", "prepare", "pin", "run", "stop"}
  /\ process.cfg = NoFile \/ process.cfg \in Configs
  /\ process.pc \in {"prepare", "pin", "run", "stop"} => process.cfg.machine # None
  /\ process.loaded \in 0 .. MaxJournals
  /\ pausedByOwner \in BOOLEAN

\* A token that was used is not lost with the answer, with a save that fails, or
\* with the command: the machine holds the proof the pool asks for when the same
\* token is tried again (enrollment_test.go:18), until its owner removes it.
TokenCanBeRetried ==
  [][\A m \in Machines :
       claimed'[m] # 0 /\ claimed[m] \in {0, proof} =>
         proof' = claimed'[m] \/ CleanupConfig]_configVars

\* An enrollment with the single token of one machine does not replace the
\* credentials of another, also when those were put in place while the answer of
\* the pool was awaited (enrollment_test.go:165).
OtherMachineIsKept ==
  [][\A p \in Procs : (EnrollSave(p) /\ config' # config) =>
       local[p].batch \/ ~OtherMachine(config, local[p].new.machine)]_configVars

\* The agent admits jobs only after the journal they are recorded in is pinned
\* by the configuration on disk.
PinnedBeforeAdmission ==
  [][process'.pc = "run" /\ process.pc # "run" =>
       config' # NoFile /\ process'.cfg.pin # 0 /\ config'.pin = process'.cfg.pin]_configVars

\* Lost execution state never becomes a fresh agent (recovery_startup_test.go:13):
\* what ran under a pin runs again only under that pin.
LostJournalIsRefused ==
  process.pc \in {"pin", "run", "stop"} => process.loaded \in {0, process.cfg.pin}

\* main.go:97: "Use resume to earn again".  A pause stays in the file through
\* every other command.
PauseIsKept == pausedByOwner => config = NoFile \/ config.paused

\* Client.earningNow: the file, or what the agent started with when there is none.
Earning == process.pc = "run" /\ ~(IF config # NoFile THEN config ELSE process.cfg).paused

\* main.go:97 again, of what the agent does: after a pause it earns only after a
\* resume.
EarnsOnlyAfterResume == pausedByOwner => ~Earning

\* config_test.go:106: a machine that contributes for free is offered for free.
FreeStaysFree ==
  process.pc = "run" /\ process.cfg.machine \in FreeOf => process.cfg.price = "zero"

\* config.go:323: "Keep this ID and journal together": the agent's own commands
\* do not separate them.
PinAndJournalTogether ==
  config # NoFile /\ config.pin # 0 => journal = config.pin
=============================================================================
