---------------------------- MODULE JournalRoot ----------------------------
(***************************************************************************)
(* The directory of the execution journals: how a starting agent prepares   *)
(* the root and pins it, creates and registers the journal of each of its   *)
(* GPUs, and looks through the journals of GPUs it does not serve           *)
(* (internal/job/journal_root.go, openAttemptJournal in journal.go,         *)
(* restoreOrphanSiblingJournals in recovery.go, recovery_startup.go).       *)
(*                                                                          *)
(* Every file is replaced atomically, and the agent may end between any two *)
(* writes.  While no agent runs, files may be lost.  The records of a       *)
(* journal are in AttemptJournal; here it has some or none.  That the pin   *)
(* names another root is in ConfigStore, that another process holds a lock  *)
(* in GuiController.                                                        *)
(***************************************************************************)
EXTENDS Naturals, FiniteSetsExt

CONSTANTS
  Indices,   \* the device indices that GPUs of the machine ever had
  NoRoot, NoGpu,
  MaxOwners, \* bound: journals ever created
  MaxLosses  \* bound: files and directories that are lost

ASSUME RootAssumption ==
  /\ Indices \subseteq Nat /\ NoGpu \notin Indices /\ NoRoot \notin [Indices -> Nat]
  /\ {MaxOwners, MaxLosses} \subseteq Nat

VARIABLES
  root,     \* machine.json: the owner registered for each journal, or no file
  pin,      \* execution_journal_id is set
  made,     \* the directory of each journal exists
  identity, \* identity.json: its owner, 0 without a file, and whether initialized
  catalog,  \* catalog.json: its owner, 0 without a file, and whether it lists records
  record,   \* there are records
  at,       \* the step of the agent
  gpu,      \* the journal it opens
  own,      \* the GPUs it has still to open a journal for
  peers,    \* the directories it has still to look at for the last of them
  open,     \* the journals it holds open
  seen,     \* history: the journals opened in this start
  refused,  \* why the last start was refused
  lost,     \* what is lost so far
  owners,   \* how many journals were created
  admitted  \* history: the GPUs that an attempt was admitted on

files == <<root, pin, made, identity, catalog, record>>
start == <<gpu, own, peers, open, seen>>
history == <<lost, owners, admitted>>
rootVars == <<files, at, start, refused, history>>

(***************************************************************************)
(* The start of an agent.                                                   *)
(***************************************************************************)

StepTo(step) == at' = step /\ UNCHANGED refused
Refuse(why) == at' = "off" /\ refused' = why

\* NewClients goes through the GPUs it detects by their index.
StartBegins(present) ==
  /\ at = "off" /\ StepTo("prepare")
  /\ own' = present /\ open' = {} /\ seen' = {} /\ peers' = {} /\ gpu' = NoGpu
  /\ UNCHANGED <<files, history>>

\* Mutant of ScopesHold: what is registered is not looked at.
Mut_ScopesHold == TRUE
\* openJournalRoot checks every registered journal, whichever is to be opened.
ScopesHold ==
  \A g \in Indices : root[g] # 0 => identity[g].owner = root[g] /\ identity[g].ready

\* PrepareJournalRoot.
PrepareRoot ==
  /\ at = "prepare"
  /\ IF root = NoRoot /\ ~pin
       THEN root' = [g \in Indices |-> 0] /\ StepTo("pin")
       ELSE /\ UNCHANGED root
            /\ IF root = NoRoot THEN Refuse("lost")
               ELSE IF ~ScopesHold THEN Refuse("lost")
               ELSE StepTo(IF pin THEN "next" ELSE "pin")
  /\ UNCHANGED <<pin, made, identity, catalog, record, start, history>>

PinRoot ==
  /\ at = "pin" /\ StepTo("next") /\ pin' = TRUE
  /\ UNCHANGED <<root, made, identity, catalog, record, start, history>>

NextGpu ==
  /\ at = "next"
  /\ IF own = {} THEN StepTo("run") /\ UNCHANGED <<gpu, own>>
     ELSE /\ StepTo("open")
          /\ gpu' = Min(own) /\ own' = own \ {Min(own)}
  /\ UNCHANGED <<files, peers, open, seen, history>>

(***************************************************************************)
(* openAttemptJournal, of a GPU of this agent or of a peer.                 *)
(***************************************************************************)

\* Mutant of MakeDirectory: the directory of a peer is expected to be there.
Mut_MakeDirectory == UNCHANGED made
MakeDirectory == made' = [made EXCEPT ![gpu] = TRUE]

OpenRoot ==
  /\ at = "open"
  /\ IF ScopesHold THEN MakeDirectory /\ StepTo("identity")
                   ELSE Refuse("lost") /\ UNCHANGED made
  /\ UNCHANGED <<root, pin, identity, catalog, record, start, history>>

\* Mutant of FirstIdentity: it is written once, initialized.
Mut_FirstIdentity(owner) == [owner |-> owner, ready |-> TRUE]
FirstIdentity(owner) == [owner |-> owner, ready |-> FALSE]

\* A directory with nothing in it but the lock gets an identity.
WriteIdentity ==
  /\ at = "identity"
  /\ IF identity[gpu].owner # 0
       THEN StepTo("initialize") /\ UNCHANGED <<identity, owners>>
       ELSE IF catalog[gpu].owner # 0 \/ record[gpu]
         THEN Refuse("own journal") /\ UNCHANGED <<identity, owners>>
         ELSE /\ owners < MaxOwners /\ owners' = owners + 1
              /\ identity' = [identity EXCEPT ![gpu] = FirstIdentity(owners')]
              /\ StepTo("initialize")
  /\ UNCHANGED <<root, pin, made, catalog, record, start, lost, admitted>>

WriteCatalog ==
  /\ at = "initialize"
  /\ IF identity[gpu].ready THEN StepTo("check") /\ UNCHANGED catalog
     ELSE IF record[gpu] THEN Refuse("own journal") /\ UNCHANGED catalog
     ELSE /\ catalog' = [catalog EXCEPT ![gpu] = [owner |-> identity[gpu].owner, lists |-> FALSE]]
          /\ StepTo("mark")
  /\ UNCHANGED <<root, pin, made, identity, record, start, history>>

MarkInitialized ==
  /\ at = "mark" /\ StepTo("check")
  /\ identity' = [identity EXCEPT ![gpu].ready = TRUE]
  /\ UNCHANGED <<root, pin, made, catalog, record, start, history>>

\* The own journal stays open, that of a peer is restored and closed.  After an
\* own one the other directories are looked at.
Opened ==
  /\ seen' = seen \cup {gpu}
  /\ StepTo("siblings")
  /\ IF gpu \in open \/ peers # {}
       THEN peers' = peers \ {gpu} /\ UNCHANGED open
       ELSE open' = open \cup {gpu} /\ peers' = {g \in Indices : made[g]} \ {gpu}
  /\ UNCHANGED <<gpu, own>>

Consistent ==
  /\ catalog[gpu].owner = identity[gpu].owner
  /\ catalog[gpu].lists = record[gpu]

CheckRecords ==
  /\ at = "check"
  /\ IF ~Consistent \/ (root[gpu] = 0 /\ record[gpu])
       THEN Refuse("own journal") /\ UNCHANGED start
       ELSE IF root[gpu] = 0 THEN StepTo("register") /\ UNCHANGED start
       ELSE Opened
  /\ UNCHANGED <<files, history>>

Register ==
  /\ at = "register"
  /\ root' = [root EXCEPT ![gpu] = identity[gpu].owner]
  /\ Opened
  /\ UNCHANGED <<pin, made, identity, catalog, record, history>>

(***************************************************************************)
(* restoreOrphanSiblingJournals.                                            *)
(***************************************************************************)

Sibling(g) ==
  /\ at = "siblings" /\ g \in peers
  /\ IF identity[g].owner = 0
       THEN Refuse("sibling") /\ UNCHANGED start
       ELSE IF g \in open
         THEN StepTo(at) /\ peers' = peers \ {g} /\ UNCHANGED <<gpu, own, open, seen>>
         ELSE StepTo("open") /\ gpu' = g /\ UNCHANGED <<own, peers, open, seen>>
  /\ UNCHANGED <<files, history>>

SiblingsDone ==
  /\ at = "siblings" /\ peers = {} /\ StepTo("next")
  /\ UNCHANGED <<files, start, history>>

(***************************************************************************)
(* The agent at work, its end, and the disk.                                *)
(***************************************************************************)

\* The first attempt on a GPU: AttemptJournal has what happens from there.
Admit(g) ==
  /\ at = "run" /\ g \in open /\ ~record[g]
  /\ record' = [record EXCEPT ![g] = TRUE]
  /\ catalog' = [catalog EXCEPT ![g].lists = TRUE]
  /\ admitted' = admitted \cup {g}
  /\ UNCHANGED <<root, pin, made, identity, at, start, refused, lost, owners>>

\* A crash, a write that fails, or an exit.
StartEnds ==
  /\ at # "off" /\ Refuse("none")
  /\ UNCHANGED <<files, start, history>>

NoFile == [owner |-> 0, ready |-> FALSE]
NoCatalog == [owner |-> 0, lists |-> FALSE]

Lose(what) == lost' = lost \cup {what} /\ Cardinality(lost') <= MaxLosses
Loss ==
  /\ at = "off"
  /\ \/ Lose(<<"root", NoGpu>>) /\ root' = NoRoot /\ UNCHANGED <<made, identity, catalog, record>>
     \/ \E g \in Indices :
          \/ /\ Lose(<<"directory", g>>) /\ made' = [made EXCEPT ![g] = FALSE]
             /\ identity' = [identity EXCEPT ![g] = NoFile]
             /\ catalog' = [catalog EXCEPT ![g] = NoCatalog]
             /\ record' = [record EXCEPT ![g] = FALSE] /\ UNCHANGED root
          \/ /\ Lose(<<"identity", g>>) /\ identity' = [identity EXCEPT ![g] = NoFile]
             /\ UNCHANGED <<root, made, catalog, record>>
          \/ /\ Lose(<<"catalog", g>>) /\ catalog' = [catalog EXCEPT ![g] = NoCatalog]
             /\ UNCHANGED <<root, made, identity, record>>
          \/ /\ Lose(<<"record", g>>) /\ record' = [record EXCEPT ![g] = FALSE]
             /\ UNCHANGED <<root, made, identity, catalog>>
  /\ UNCHANGED <<pin, at, start, refused, owners, admitted>>

RootInit ==
  /\ root = NoRoot /\ pin = FALSE /\ made = [g \in Indices |-> FALSE]
  /\ identity = [g \in Indices |-> NoFile] /\ catalog = [g \in Indices |-> NoCatalog]
  /\ record = [g \in Indices |-> FALSE]
  /\ at = "off" /\ gpu = NoGpu /\ own = {} /\ peers = {} /\ open = {} /\ seen = {}
  /\ refused = "none" /\ lost = {} /\ owners = 0 /\ admitted = {}

OpenJournal ==
  OpenRoot \/ WriteIdentity \/ WriteCatalog \/ MarkInitialized \/ CheckRecords \/ Register

RootNext ==
  \/ \E present \in (SUBSET Indices) \ {{}} : StartBegins(present)
  \/ PrepareRoot \/ PinRoot \/ NextGpu \/ OpenJournal
  \/ \E g \in Indices : Sibling(g) \/ Admit(g)
  \/ SiblingsDone \/ StartEnds \/ Loss

RootSpec == RootInit /\ [][RootNext]_rootVars

(***************************************************************************)
(* Properties.                                                              *)
(***************************************************************************)

RootSteps == {"off", "prepare", "pin", "next", "open", "identity", "initialize", "mark", "check",
          "register", "siblings", "run"}

RootTypeOK ==
  /\ root = NoRoot \/ root \in [Indices -> 0 .. MaxOwners]
  /\ pin \in BOOLEAN /\ made \in [Indices -> BOOLEAN] /\ record \in [Indices -> BOOLEAN]
  /\ identity \in [Indices -> [owner : 0 .. MaxOwners, ready : BOOLEAN]]
  /\ catalog \in [Indices -> [owner : 0 .. MaxOwners, lists : BOOLEAN]]
  /\ \A g \in Indices : identity[g].owner # 0 => made[g]
  /\ at \in RootSteps /\ gpu \in Indices \cup {NoGpu}
  /\ {own, peers, open, seen, admitted} \subseteq SUBSET Indices
  /\ refused \in {"none", "lost", "own journal", "sibling"} /\ owners \in 0 .. MaxOwners

\* journal_scope_test.go:9, TestJournalRegisteredGPUDirectoryCannotDisappear-
\* Silently, and journal_test.go:355: an agent works only after it has opened
\* every journal that ever admitted an attempt, its own and those of GPUs that
\* are gone, and found the records in it, whatever files were lost.
NothingForgotten ==
  at = "run" => \A g \in admitted : record[g] /\ g \in seen

\* What a crash or a failed write leaves of a journal can be opened again: none
\* of its steps is refused by a later start unless files were lost, once it is its
\* turn.  Before that it is looked at as a sibling's, which refuses an empty one
\* whether it is served or not: see RefusedOnlyForLoss.
OwnJournalOpens == refused \in {"own journal", "lost"} => lost # {}

\* journal.go:225 refuses an identity "missing from nonempty journal", and goes
\* on with an empty one: a start is refused only when something was lost.
RefusedOnlyForLoss == refused # "none" => lost # {}
=============================================================================
