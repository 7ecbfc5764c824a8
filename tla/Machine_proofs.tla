--------------------------- MODULE Machine_proofs ---------------------------
(***************************************************************************)
(* Proofs about what an agent keeps on its machine, for any number of       *)
(* attempts, daemons, jobs, files and GPUs: the containers it removes       *)
(* (Containers), the files its jobs run with (AssetCache) and the journals  *)
(* a start must find again (JournalRoot).                                   *)
(***************************************************************************)
EXTENDS Containers, AssetCache, JournalRoot, WellFoundedInduction, FiniteSetTheorems,
        TLAPS

(***************************************************************************)
(* Containers.                                                              *)
(***************************************************************************)

\* Every ID that a container has was given.
IdsWereGiven == \A b \in boxes : b.id <= born

\* A removal works with an ID that was given, to a container of its own attempt.
Identified == {"inspect", "remove", "again", "verify"}
FoundIsOwn ==
  \A a \in Attempts : removal[a] \in Identified =>
    found[a] <= born /\ \A b \in boxes : b.id = found[a] => b.owner = a

\* Only what has ended is removed.
RemovedIsOver == \A a \in Attempts : removal[a] # "idle" => phase[a] = "over"

\* As long as docker's context stays, there is one daemon.
OneDaemon ==
  /\ switches \in Nat
  /\ switches = 0 => (\A b \in boxes : b.daemon = context) /\ VerifiedMeansGone

BoxesInv == BoxesTypeOK /\ IdsWereGiven /\ FoundIsOwn /\ RemovedIsOver /\ OneDaemon

LEMMA BoxesInitially == ASSUME BoxesInit PROVE BoxesInv
BY ContainersAssumption
   DEF BoxesInit, BoxesInv, BoxesTypeOK, IdsWereGiven, FoundIsOwn, Identified, RemovedIsOver,
       OneDaemon, VerifiedMeansGone

\* What is removed, by whomever, never comes back.
LEMMA FewerBoxes ==
  ASSUME BoxesInv, BoxesTypeOK', boxes' \subseteq boxes, UNCHANGED <<born, context, switches, phase>>,
         UNCHANGED <<removal, found>>
  PROVE  BoxesInv'
BY DEF BoxesInv, IdsWereGiven, FoundIsOwn, RemovedIsOver, OneDaemon, VerifiedMeansGone

\* An attempt goes on: nothing of its containers changes.
LEMMA PhaseGoesOn ==
  ASSUME BoxesInv, BoxesTypeOK', NEW a \in Attempts, NEW step,
         phase' = [phase EXCEPT ![a] = step], phase[a] # "over",
         UNCHANGED <<docker, removal, found>>
  PROVE  BoxesInv'
BY DEF BoxesInv, BoxesTypeOK, IdsWereGiven, FoundIsOwn, RemovedIsOver, OneDaemon,
   VerifiedMeansGone, docker

\* A new container, of the user or of an attempt that has not ended.
LEMMA OneMoreBoxTyped ==
  ASSUME BoxesTypeOK, born < MaxBoxes, NEW b \in Box, \A c \in boxes : c.id # b.id,
         boxes' = boxes \cup {b}, born' = born + 1
  PROVE  /\ boxes' \subseteq Box /\ born' \in 0 .. MaxBoxes
         /\ \A c, d \in boxes' : c.id = d.id => c = d
<1>1. born' \in 0 .. MaxBoxes
  BY ContainersAssumption DEF BoxesTypeOK
<1>2. boxes' \subseteq Box /\ \A c, d \in boxes' : c.id = d.id => c = d
  BY DEF BoxesTypeOK
<1> QED BY <1>1, <1>2

LEMMA OneMoreBox ==
  ASSUME BoxesInv, NEW b, b.id = born + 1, b.daemon = context,
         \A a \in Attempts : b.owner = a => phase[a] # "over",
         boxes' = boxes \cup {b}, born' = born + 1, UNCHANGED <<context, switches, removal, found>>
  PROVE  IdsWereGiven' /\ FoundIsOwn' /\ OneDaemon'
<1>1. IdsWereGiven'
  BY DEF BoxesInv, BoxesTypeOK, IdsWereGiven, Box
<1>2. FoundIsOwn'
  BY DEF BoxesInv, BoxesTypeOK, FoundIsOwn, Box
<1>3. OneDaemon'
  BY DEF BoxesInv, RemovedIsOver, OneDaemon, VerifiedMeansGone
<1> QED BY <1>1, <1>2, <1>3

\* The steps of an attempt.
LEMMA PrepareKeepsBoxes ==
  ASSUME BoxesInv, NEW a \in Attempts, NEW image \in Images, Prepare(a, image)
  PROVE  BoxesInv'
<1>1. PICK step \in {"ready", "over"} : phase' = [phase EXCEPT ![a] = step]
  BY DEF Prepare, Found, Mark
<1>2. BoxesTypeOK'
  BY <1>1 DEF Prepare, Found, Mark, BoxesInv, BoxesTypeOK, Box, docker, cli
<1> QED BY <1>1, <1>2, PhaseGoesOn DEF Prepare

LEMMA AssignKeepsBoxes ==
  ASSUME BoxesInv, NEW a \in Attempts, Assign(a) \/ CheckDaemon(a) \/ RunEnds(a)
  PROVE  BoxesInv'
<1>1. PICK step \in {"bound", "checked", "over"} : phase' = [phase EXCEPT ![a] = step]
  BY DEF Assign, CheckDaemon, RunEnds
<1>2. BoxesTypeOK'
  BY <1>1
     DEF Assign, CheckDaemon, RunEnds, BoxesInv, BoxesTypeOK, docker, assets, cli
<1> QED BY <1>1, <1>2, PhaseGoesOn DEF Assign, CheckDaemon, RunEnds

LEMMA RunKeepsBoxes ==
  ASSUME BoxesInv, NEW a \in Attempts, NEW image \in Images, Run(a, image)
  PROVE  BoxesInv'
<1> DEFINE new == [id |-> born + 1, name |-> a, owner |-> a, daemon |-> context, image |-> image]
<1>1. CASE /\ UNCHANGED <<boxes, born>>
           /\ phase' = [phase EXCEPT ![a] = "over"]
  <2>1. BoxesTypeOK'
    BY <1>1 DEF Run, BoxesInv, BoxesTypeOK, assets, cli
  <2> QED BY <1>1, <2>1, PhaseGoesOn DEF Run, docker
<1>2. CASE /\ boxes' = boxes \cup {new} /\ born' = born + 1
           /\ phase' = [phase EXCEPT ![a] = "running"]
  <2>1. new \in Box /\ \A b \in boxes : b.id # new.id
    BY ContainersAssumption DEF Run, BoxesInv, BoxesTypeOK, IdsWereGiven, Box
  <2>2. BoxesTypeOK'
    BY <1>2, <2>1, OneMoreBoxTyped DEF Run, BoxesInv, BoxesTypeOK, assets, cli
  <2>3. \A c \in Attempts : new.owner = c => phase[c] # "over"
    BY DEF Run
  <2>4. IdsWereGiven' /\ FoundIsOwn' /\ OneDaemon'
    BY <1>2, <2>3, OneMoreBox DEF Run
  <2>5. RemovedIsOver'
    BY <1>2 DEF Run, BoxesInv, BoxesTypeOK, RemovedIsOver
  <2> QED BY <2>2, <2>4, <2>5 DEF BoxesInv
<1> QED BY <1>1, <1>2 DEF Run

\* The removal of an attempt's container.
LEMMA RemovalKeepsBoxes ==
  ASSUME BoxesInv, NEW a \in Attempts, Removal(a)
  PROVE  BoxesInv'
<1>1. PICK step \in {"idle", "inventory", "inspect", "remove", "again", "verify", "verified"} :
        removal' = [removal EXCEPT ![a] = step]
  BY DEF Removal, AskDaemon, Inventory, Inspect, RemoveFound, Verify, RemovalAt
<1>2. UNCHANGED <<phase, bound, assets, cli, born, context, switches>> /\ boxes' \subseteq boxes
  BY DEF Removal, AskDaemon, Inventory, Inspect, RemoveFound, Verify, Removing, docker, Named
<1>3. phase[a] = "over"
  BY DEF Removal, AskDaemon, Inventory, Inspect, RemoveFound, Verify, Removing, BoxesInv,
     RemovedIsOver
<1>4. \/ found' = found /\ (step \in Identified => removal[a] \in Identified)
      \/ \E b \in OfAttempt(a) : found' = [found EXCEPT ![a] = b.id]
  <2>1. CASE Inventory(a)
    <3>1. CASE OfAttempt(a) = {}
      <4>1. Cardinality(OfAttempt(a)) = 0
        BY <3>1, FS_EmptySet
      <4>2. found' = found /\ step \in {"verified", "idle"}
        BY <2>1, <1>1, <4>1 DEF Inventory, RemovalAt, BoxesInv, BoxesTypeOK
      <4> QED BY <4>2 DEF Identified
    <3>2. CASE OfAttempt(a) # {}
      <4> DEFINE b == CHOOSE b \in OfAttempt(a) : TRUE
      <4>1. b \in OfAttempt(a)
        BY <3>2
      <4>2. \/ found' = found /\ RemovalAt(a, "idle")
            \/ found' = [found EXCEPT ![a] = b.id]
        BY <2>1, <3>2 DEF Inventory
      <4>3. RemovalAt(a, "idle") => step \notin Identified
        BY <1>1 DEF RemovalAt, BoxesInv, BoxesTypeOK, Identified
      <4> QED BY <4>1, <4>2, <4>3
    <3> QED BY <3>1, <3>2
  <2>2. ASSUME ~Inventory(a) PROVE found' = found /\ (step \in Identified => removal[a] \in Identified)
    BY <1>1, <2>2
       DEF Removal, AskDaemon, Inspect, RemoveFound, Verify, RemovalAt, Removing, Identified,
           BoxesInv, BoxesTypeOK
  <2> QED BY <2>1, <2>2
<1>5. BoxesTypeOK'
  BY <1>1, <1>2, <1>4 DEF BoxesInv, BoxesTypeOK, OfAttempt, Here, Box, assets, cli
<1>6. IdsWereGiven'
  BY <1>2 DEF BoxesInv, IdsWereGiven
<1>7. FoundIsOwn'
  <2>1. CASE found' = found /\ (step \in Identified => removal[a] \in Identified)
    BY <1>1, <1>2, <2>1 DEF BoxesInv, BoxesTypeOK, FoundIsOwn
  <2>2. ASSUME NEW b \in OfAttempt(a), found' = [found EXCEPT ![a] = b.id] PROVE FoundIsOwn'
    <3>1. b \in boxes /\ b.owner = a /\ b.id <= born
      BY DEF OfAttempt, Here, BoxesInv, IdsWereGiven
    <3>2. \A c \in boxes : c.id = b.id => c.owner = a
      BY <3>1 DEF BoxesInv, BoxesTypeOK
    <3> QED BY <1>1, <1>2, <2>2, <3>1, <3>2 DEF BoxesInv, BoxesTypeOK, FoundIsOwn
  <2> QED BY <1>4, <2>1, <2>2
<1>8. RemovedIsOver'
  BY <1>1, <1>2, <1>3 DEF BoxesInv, BoxesTypeOK, RemovedIsOver
<1>9. OneDaemon'
  <2>1. step = "verified" => OfAttempt(a) = {}
    BY <1>1 DEF Removal, AskDaemon, Inventory, Inspect, RemoveFound, Verify, RemovalAt,
       BoxesInv, BoxesTypeOK
  <2>2. switches = 0 /\ step = "verified" => ~\E b \in boxes : b.owner = a
    BY <2>1 DEF OfAttempt, Here, BoxesInv, OneDaemon
  <2> QED
    BY <1>1, <1>2, <2>2 DEF BoxesInv, BoxesTypeOK, OneDaemon, VerifiedMeansGone
<1> QED BY <1>5, <1>6, <1>7, <1>8, <1>9 DEF BoxesInv

\* Assets and the command line.
LEMMA AssetsKeepBoxes ==
  ASSUME BoxesInv, PoolCleanup \/ \E model \in Models : PullModel(model)
  PROVE  BoxesInv'
<1>1. BoxesTypeOK'
  BY DEF PoolCleanup, PullModel, BoxesInv, BoxesTypeOK, docker, attempts, cli
<1> QED
  BY <1>1, FewerBoxes DEF PoolCleanup, PullModel, docker, attempts

LEMMA CommandKeepsBoxes == ASSUME BoxesInv, CommandStep PROVE BoxesInv'
<1>1. /\ boxes' \subseteq boxes /\ images' \subseteq images /\ models' \subseteq models
      /\ UNCHANGED <<born, context, switches, attempts, marked, pulled>>
  BY DEF CommandStep, CleanupBegins, CleanupContainers, RemoveListed, CleanupImages, CleanupOllama,
     docker, assets
<1>2. listed' \subseteq Names
  BY DEF CommandStep, CleanupBegins, CleanupContainers, RemoveListed, CleanupImages, CleanupOllama,
     BoxesInv, BoxesTypeOK, Here, Box
<1>3. BoxesTypeOK'
  BY <1>1, <1>2 DEF BoxesInv, BoxesTypeOK, attempts
<1> QED BY <1>1, <1>3, FewerBoxes DEF attempts

\* The user.
LEMMA UserKeepsBoxes == ASSUME BoxesInv, User PROVE BoxesInv'
<1>1. ASSUME NEW name \in Names, NEW image \in Images, UserRuns(name, image) PROVE BoxesInv'
  <2> DEFINE new ==
        [id |-> born + 1, name |-> name, owner |-> "user", daemon |-> context, image |-> image]
  <2>1. new \in Box /\ \A b \in boxes : b.id # new.id
    BY <1>1, ContainersAssumption DEF UserRuns, BoxesInv, BoxesTypeOK, IdsWereGiven, Box
  <2>2. BoxesTypeOK'
    BY <1>1, <2>1, OneMoreBoxTyped
       DEF UserRuns, BoxesInv, BoxesTypeOK, attempts, assets, cli
  <2>3. \A a \in Attempts : new.owner # a
    BY ContainersAssumption
  <2>4. IdsWereGiven' /\ FoundIsOwn' /\ OneDaemon'
    BY <1>1, <2>3, OneMoreBox DEF UserRuns, attempts
  <2> QED BY <1>1, <2>2, <2>4 DEF UserRuns, BoxesInv, RemovedIsOver, attempts
<1>2. ASSUME NEW b \in Here, UserRemoves(b) PROVE BoxesInv'
  <2>1. BoxesTypeOK'
    BY <1>2 DEF UserRemoves, BoxesInv, BoxesTypeOK, attempts, assets, cli
  <2> QED BY <1>2, <2>1, FewerBoxes DEF UserRemoves, attempts
<1>3. ASSUME NEW b \in Here, NEW name \in Names, UserRenames(b, name) PROVE BoxesInv'
  <2> DEFINE new == [b EXCEPT !.name = name]
  <2>1. /\ b \in boxes /\ new \in Box
        /\ new.id = b.id /\ new.owner = b.owner /\ new.daemon = b.daemon
    BY DEF Here, BoxesInv, BoxesTypeOK, Box
  <2> HIDE DEF new
  <2>2. boxes' = (boxes \ {b}) \cup {new}
    BY <1>3 DEF UserRenames, new
  <2>3. UNCHANGED <<born, context, switches, phase, removal, found>>
    BY <1>3 DEF UserRenames, attempts
  <2>4. BoxesTypeOK'
    BY <1>3, <2>1, <2>2 DEF UserRenames, BoxesInv, BoxesTypeOK, attempts, assets, cli
  <2>5. IdsWereGiven' /\ FoundIsOwn' /\ RemovedIsOver'
    BY <2>1, <2>2, <2>3 DEF BoxesInv, IdsWereGiven, FoundIsOwn, RemovedIsOver
  <2>6. OneDaemon'
    BY <2>1, <2>2, <2>3 DEF BoxesInv, OneDaemon, VerifiedMeansGone
  <2> QED BY <2>4, <2>5, <2>6 DEF BoxesInv
<1>4. ASSUME UserSwitches PROVE BoxesInv'
  BY <1>4 DEF UserSwitches, BoxesInv, BoxesTypeOK, IdsWereGiven, FoundIsOwn, RemovedIsOver,
     OneDaemon, attempts, assets, cli
<1> QED BY <1>1, <1>2, <1>3, <1>4 DEF User

LEMMA BoxesStep == ASSUME BoxesInv, [BoxesNext]_boxesVars PROVE BoxesInv'
<1>1. CASE UNCHANGED boxesVars
  BY <1>1 DEF boxesVars, docker, attempts, assets, cli, BoxesInv, BoxesTypeOK, IdsWereGiven,
     FoundIsOwn, RemovedIsOver, OneDaemon, VerifiedMeansGone
<1>2. ASSUME NEW a \in Attempts, Attempt(a) PROVE BoxesInv'
  BY <1>2, PrepareKeepsBoxes, RunKeepsBoxes, AssignKeepsBoxes, RemovalKeepsBoxes DEF Attempt
<1> QED
  BY <1>1, <1>2, AssetsKeepBoxes, CommandKeepsBoxes, UserKeepsBoxes DEF BoxesNext

LEMMA BoxesInvariant == BoxesSpec => []BoxesInv
BY BoxesInitially, BoxesStep, PTL DEF BoxesSpec

\* The removal of an attempt never takes another's container, although names are
\* given again and changed between its commands, and whatever daemon docker talks
\* to meanwhile (ownership.go, ownership_test.go:12).
THEOREM BoxesRemovesOnlyItsOwn == BoxesSpec => RemovesOnlyItsOwn
<1>1. ASSUME BoxesInv, NEW a \in Attempts, RemoveFound(a), NEW b \in boxes \ boxes'
      PROVE  b.owner = a
  BY <1>1 DEF RemoveFound, Removing, Named, Here, Identified, BoxesInv, FoundIsOwn
<1>2. BoxesInv /\ [BoxesNext]_boxesVars =>
        [\A a \in Attempts : RemoveFound(a) => \A b \in boxes \ boxes' : b.owner = a]_boxesVars
  BY <1>1
<1> QED BY <1>2, BoxesInvariant, PTL DEF BoxesSpec, RemovesOnlyItsOwn

\* A removal that was verified leaves no container of the attempt, on any daemon,
\* as long as the owner does not change docker's context (ownership.go:32).
THEOREM BoxesVerifiedMeansGone == BoxesSpec => []VerifiedMeansGoneInContext
<1>1. BoxesInv => VerifiedMeansGoneInContext
  BY DEF BoxesInv, OneDaemon, VerifiedMeansGoneInContext
<1> QED BY <1>1, BoxesInvariant, PTL

\* The command line goes on from its first part to the next.
LEMMA OnlyCommandsGoOn ==
  ASSUME [BoxesNext]_boxesVars
  PROVE  \/ UNCHANGED command \/ CleanupBegins
         \/ command # <<>> /\ command' = Tail(command)
<1>1. ASSUME NEW a \in Attempts, Attempt(a) PROVE UNCHANGED command
  BY <1>1 DEF Attempt, Prepare, Assign, CheckDaemon, Run, RunEnds, Removal, AskDaemon, Inventory,
     Inspect, RemoveFound, Verify, Removing, cli
<1>2. CASE CommandStep
  BY <1>2 DEF CommandStep, CleanupContainers, RemoveListed, CleanupImages, CleanupOllama, Part
<1>3. CASE User
  BY <1>3 DEF User, UserRuns, UserRemoves, UserRenames, UserSwitches, cli
<1>4. CASE PoolCleanup \/ UNCHANGED boxesVars \/ \E model \in Models : PullModel(model)
  BY <1>4 DEF PoolCleanup, PullModel, boxesVars, cli
<1> QED BY <1>1, <1>2, <1>3, <1>4 DEF BoxesNext

\* The owner cleans containers only: --images and --ollama are left alone.
ContainersOnly == Commands \subseteq Seq({"containers"})

\* Nobody who does so loses an image or a model that was there before the agent:
\* the pool's cleanup takes what cleanup.go's markers name, and every marker is of
\* something the agent pulled.
THEOREM PoolRemovesOnlyPulled == ContainersOnly => (BoxesSpec => RemovesOnlyPulled)
<1> SUFFICES ASSUME ContainersOnly PROVE BoxesSpec => RemovesOnlyPulled
  OBVIOUS
<1> DEFINE J == command \in Seq({"containers"})
           A == (images \ images') \cup (models \ models') \subseteq pulled
<1>1. BoxesInit => J
  BY DEF BoxesInit
<1>2. ASSUME J, [BoxesNext]_boxesVars PROVE J'
  <2>1. CASE UNCHANGED command
    BY <1>2, <2>1
  <2>2. CASE CleanupBegins
    BY <2>2 DEF CleanupBegins, ContainersOnly
  <2>3. CASE command # <<>> /\ command' = Tail(command)
    BY <1>2, <2>3
  <2>4. UNCHANGED command \/ CleanupBegins \/ (command # <<>> /\ command' = Tail(command))
    BY <1>2, OnlyCommandsGoOn
  <2> QED BY <2>1, <2>2, <2>3, <2>4
<1>3. ASSUME BoxesInv, J, BoxesNext PROVE A
  <2>1. UNCHANGED <<images, models>> => A
    OBVIOUS
  <2>2. ASSUME NEW a \in Attempts, Attempt(a) PROVE A
    <3>1. images \subseteq images' /\ models' = models
      BY <2>2 DEF Attempt, Prepare, Found, Mark, Assign, CheckDaemon, Run, RunEnds, Removal,
         AskDaemon, Inventory, Inspect, RemoveFound, Verify, Removing, assets
    <3> QED BY <3>1
  <2>3. ASSUME NEW model \in Models, PullModel(model) PROVE A
    BY <2>3 DEF PullModel
  <2>4. ASSUME PoolCleanup PROVE A
    <3>1. PICK gone \in SUBSET marked : images' = images \ gone /\ models' = models \ gone
      BY <2>4 DEF PoolCleanup
    <3>2. marked \subseteq pulled
      BY <1>3 DEF BoxesInv, BoxesTypeOK
    <3> QED BY <3>1, <3>2
  <2>5. ASSUME CommandStep PROVE A
    <3>1. ~Part("images") /\ ~Part("ollama")
      BY <1>3 DEF Part
    <3>2. UNCHANGED <<images, models>>
      BY <2>5, <3>1 DEF CommandStep, CleanupBegins, CleanupContainers, RemoveListed,
         CleanupImages, CleanupOllama, assets
    <3> QED BY <2>1, <3>2
  <2>6. ASSUME User PROVE A
    BY <2>1, <2>6 DEF User, UserRuns, UserRemoves, UserRenames, UserSwitches, assets
  <2> QED BY <1>3, <2>2, <2>3, <2>4, <2>5, <2>6 DEF BoxesNext
<1>4. BoxesInv /\ J /\ [BoxesNext]_boxesVars => [A]_boxesVars
  BY <1>3
<1>5. J /\ [BoxesNext]_boxesVars => J'
  BY <1>2
<1> QED BY <1>1, <1>4, <1>5, BoxesInvariant, PTL DEF BoxesSpec, RemovesOnlyPulled

(***************************************************************************)
(* The files of a job.                                                      *)
(***************************************************************************)

\* A job that stages is at one of its files; those before it are staged, and the
\* file it works on is none of them.
StagedSoFar(j) ==
  stage[j] = "staging" =>
    /\ next[j] \in 1 .. Len(Wants[j])
    /\ \A i \in 1 .. next[j] - 1 : /\ staged[j][Wants[j][i]] = "good"
                                   /\ pc[j] # "dest" => Wants[j][i] # File(j)

\* All the files of a job that runs, one by one.
StagedAll(j) ==
  stage[j] = "running" => \A i \in 1 .. Len(Wants[j]) : staged[j][Wants[j][i]] = "good"

\* From the look into the cache to the last verification the file is locked.
LockedSteps == {"cached", "fetch", "keep"}
LockedByJob(j) == stage[j] = "staging" /\ pc[j] \in LockedSteps => lock[File(j)] = j

JobInv(j) == StagedSoFar(j) /\ StagedAll(j) /\ LockedByJob(j)

\* A cleanup works alone.
SweepsAlone == sweep # "none" => \A j \in Jobs : stage[j] = "idle"

CacheInv ==
  /\ CacheTypeOK /\ next \in [Jobs -> Nat]
  /\ SweepsAlone
  /\ \A j \in Jobs : JobInv(j)

\* The shared files, and what a job has of its own.
StoreTypeOK ==
  /\ asset \in [Files -> Content] /\ part \subseteq Files
  /\ used \in [Kinds -> [Files -> 0 .. MaxTime]] /\ now \in 0 .. MaxTime

JobsTypeOK ==
  /\ staged \in [Jobs -> [Files -> Content]] /\ stagedAt \in [Jobs -> 0 .. MaxTime]
  /\ stage \in [Jobs -> {"idle", "staging", "running"}] /\ next \in [Jobs -> Nat]
  /\ \A j \in Jobs : next[j] \in 1 .. Len(Wants[j]) + 1
  /\ pc \in [Jobs -> Steps] /\ lock \in [Files -> Jobs \cup {NoJob}]

LEMMA CacheTypes == CacheTypeOK /\ next \in [Jobs -> Nat]
                    <=> StoreTypeOK /\ JobsTypeOK /\ sweep \in {"none", "staging", "assets", "remove"}
BY DEF CacheTypeOK, StoreTypeOK, JobsTypeOK

\* The files a job wants are files.
LEMMA WantedAreFiles ==
  ASSUME NEW j \in Jobs, NEW i \in 1 .. Len(Wants[j])
  PROVE  Wants[j][i] \in Files /\ Len(Wants[j]) \in Nat
BY CacheAssumption

\* ... and so is the one it is at.
LEMMA StagesAFile ==
  ASSUME CacheInv, NEW j \in Jobs, stage[j] = "staging"
  PROVE  /\ next[j] \in 1 .. Len(Wants[j]) /\ Len(Wants[j]) \in Nat /\ next[j] \in Nat
         /\ File(j) = Wants[j][next[j]] /\ File(j) \in Files
         /\ sweep = "none"
BY CacheAssumption, WantedAreFiles DEF CacheInv, JobInv, StagedSoFar, File, SweepsAlone

LEMMA CacheInitially == ASSUME CacheInit PROVE CacheInv
<1>1. CacheTypeOK
  BY CacheAssumption, WantedAreFiles DEF CacheInit, CacheTypeOK, Content, Kinds, Steps
<1> QED
  BY <1>1
     DEF CacheInit, CacheInv, JobInv, StagedSoFar, StagedAll, SweepsAlone, LockedByJob, Kinds

\* A step of one job leaves the others what they have, and their locks.
Beside(j) ==
  /\ \A k \in Jobs \ {j} : /\ stage'[k] = stage[k] /\ next'[k] = next[k] /\ pc'[k] = pc[k]
                           /\ staged'[k] = staged[k]
  /\ \A f \in Files : lock[f] \in Jobs \ {j} => lock'[f] = lock[f]

LEMMA OneJobSteps ==
  ASSUME CacheInv, NEW j \in Jobs, StoreTypeOK', JobsTypeOK', sweep' = sweep,
         stage[j] = "staging", Beside(j), JobInv(j)'
  PROVE  CacheInv'
<1>1. CacheTypeOK' /\ next' \in [Jobs -> Nat]
  BY DEF CacheInv, CacheTypeOK, StoreTypeOK, JobsTypeOK
<1>2. SweepsAlone'
  BY DEF CacheInv, SweepsAlone
<1>3. ASSUME NEW k \in Jobs PROVE JobInv(k)'
  <2>1. CASE k = j
    BY <2>1
  <2>2. CASE k # j
    <3>1. /\ stage'[k] = stage[k] /\ next'[k] = next[k] /\ pc'[k] = pc[k]
          /\ staged'[k] = staged[k] /\ File(k)' = File(k)
      BY <2>2 DEF Beside, File
    <3>2. JobInv(k)
      BY DEF CacheInv
    <3>3. StagedSoFar(k)' /\ StagedAll(k)'
      BY <3>1, <3>2 DEF JobInv, StagedSoFar, StagedAll
    <3>4. LockedByJob(k)'
      <4>1. SUFFICES ASSUME stage[k] = "staging", pc[k] \in LockedSteps PROVE lock'[File(k)] = k
        BY <3>1 DEF LockedByJob
      <4>2. lock[File(k)] = k /\ File(k) \in Files
        BY <4>1, <3>2, StagesAFile DEF JobInv, LockedByJob
      <4> QED BY <4>2, <2>2 DEF Beside
    <3> QED BY <3>3, <3>4 DEF JobInv
  <2> QED BY <2>1, <2>2
<1> QED BY <1>1, <1>2, <1>3 DEF CacheInv

\* Staging a file touches that file of that job.
LEMMA PlaceIsLocal ==
  ASSUME JobsTypeOK, StoreTypeOK, NEW j \in Jobs, File(j) \in Files,
         NEW content \in Content, UNCHANGED staging \/ Place(j, content)
  PROVE  /\ staged' \in [Jobs -> [Files -> Content]] /\ stagedAt' \in [Jobs -> 0 .. MaxTime]
         /\ \A k \in Jobs \ {j} : staged'[k] = staged[k]
         /\ \A f \in Files \ {File(j)} : staged'[j][f] = staged[j][f]
<1>1. CASE UNCHANGED staging
  BY <1>1 DEF JobsTypeOK, staging
<1>2. CASE Place(j, content)
  <2>1. /\ staged \in [Jobs -> [Files -> Content]] /\ stagedAt \in [Jobs -> 0 .. MaxTime]
        /\ now \in 0 .. MaxTime
    BY DEF JobsTypeOK, StoreTypeOK
  <2>2. /\ staged' = [staged EXCEPT ![j] = [staged[j] EXCEPT ![File(j)] = content]]
        /\ stagedAt' = [stagedAt EXCEPT ![j] = now]
    BY <1>2 DEF Place
  <2>3. [staged[j] EXCEPT ![File(j)] = content] \in [Files -> Content]
    BY <2>1
  <2> QED BY <2>1, <2>2, <2>3
<1> QED BY <1>1, <1>2

\* The next file: the one before it is staged.
LEMMA AdvanceKeepsCache ==
  ASSUME CacheInv, NEW j \in Jobs, stage[j] = "staging", staged[j][File(j)] = "good",
         Advance(j), UNCHANGED staging, lock' = lock, sweep' = sweep, StoreTypeOK'
  PROVE  CacheInv'
<1>1. JobsTypeOK
  BY CacheTypes DEF CacheInv
<1>2. /\ next[j] \in 1 .. Len(Wants[j]) /\ Len(Wants[j]) \in Nat /\ next[j] \in Nat
      /\ File(j) = Wants[j][next[j]] /\ File(j) \in Files
  BY StagesAFile
<1>3. /\ next'[j] = next[j] + 1 /\ pc'[j] = "dest" /\ staged'[j] = staged[j]
      /\ stage'[j] = IF next[j] = Len(Wants[j]) THEN "running" ELSE "staging"
  BY <1>1 DEF Advance, JobsTypeOK, staging
<1>4. Beside(j)
  BY <1>1 DEF Advance, JobsTypeOK, Beside, staging
<1>5. JobsTypeOK'
  BY <1>1, <1>2 DEF Advance, JobsTypeOK, Steps, staging
<1>6. \A i \in 1 .. next[j] : staged[j][Wants[j][i]] = "good"
  BY <1>2 DEF CacheInv, JobInv, StagedSoFar
<1>7. JobInv(j)'
  BY <1>2, <1>3, <1>6 DEF JobInv, StagedSoFar, StagedAll, LockedByJob, LockedSteps
<1> QED BY <1>4, <1>5, <1>7, OneJobSteps

\* The end of a job that fails: only its own lock is given up.
LEMMA AbortKeepsCache ==
  ASSUME CacheInv, NEW j \in Jobs, stage[j] = "staging", Abort(j),
         UNCHANGED staging \/ Place(j, "none"), sweep' = sweep, StoreTypeOK'
  PROVE  CacheInv'
<1>1. JobsTypeOK /\ StoreTypeOK
  BY CacheTypes DEF CacheInv
<1>2. File(j) \in Files
  BY StagesAFile
<1>3. stage'[j] = "idle"
  BY <1>1 DEF Abort, JobsTypeOK
<1>4. /\ staged' \in [Jobs -> [Files -> Content]] /\ stagedAt' \in [Jobs -> 0 .. MaxTime]
      /\ \A k \in Jobs \ {j} : staged'[k] = staged[k]
  BY <1>1, <1>2, PlaceIsLocal DEF Content
<1>5. JobsTypeOK'
  BY <1>1, <1>4 DEF Abort, Unlock, JobsTypeOK, Steps
<1>6. Beside(j)
  BY <1>1, <1>4 DEF Abort, Unlock, JobsTypeOK, Beside
<1>7. JobInv(j)'
  BY <1>3 DEF JobInv, StagedSoFar, StagedAll, LockedByJob
<1> QED BY <1>5, <1>6, <1>7, OneJobSteps

\* A step on the file a job is at disturbs none of the files before it.
LEMMA GotoKeepsCache ==
  ASSUME CacheInv, NEW j \in Jobs, stage[j] = "staging",
         NEW step \in Steps \ {"dest"}, Goto(j, step),
         pc[j] = "dest" => staged[j][File(j)] # "good",
         UNCHANGED staging \/ \E content \in Content : Place(j, content),
         lock' \in [Files -> Jobs \cup {NoJob}],
         \A f \in Files : lock[f] \in Jobs \ {j} => lock'[f] = lock[f],
         step \in LockedSteps => lock'[File(j)] = j,
         sweep' = sweep, StoreTypeOK'
  PROVE  CacheInv'
<1>1. JobsTypeOK /\ StoreTypeOK
  BY CacheTypes DEF CacheInv
<1>2. /\ next[j] \in 1 .. Len(Wants[j]) /\ Len(Wants[j]) \in Nat /\ next[j] \in Nat
      /\ File(j) = Wants[j][next[j]] /\ File(j) \in Files
  BY StagesAFile
<1>3. /\ staged' \in [Jobs -> [Files -> Content]] /\ stagedAt' \in [Jobs -> 0 .. MaxTime]
      /\ \A k \in Jobs \ {j} : staged'[k] = staged[k]
      /\ \A f \in Files \ {File(j)} : staged'[j][f] = staged[j][f]
  <2>1. PICK content \in Content : UNCHANGED staging \/ Place(j, content)
    BY DEF Content
  <2> QED BY <2>1, <1>1, <1>2, PlaceIsLocal
<1>4. /\ stage'[j] = "staging" /\ next'[j] = next[j] /\ pc'[j] = step /\ File(j)' = File(j)
  BY <1>1 DEF Goto, JobsTypeOK, File
<1>5. JobsTypeOK'
  BY <1>1, <1>3 DEF Goto, JobsTypeOK
<1>6. Beside(j)
  BY <1>1, <1>3 DEF Goto, JobsTypeOK, Beside
<1>7. StagedSoFar(j)'
  <2>1. SUFFICES ASSUME NEW i \in 1 .. next[j] - 1
                 PROVE  staged'[j][Wants[j][i]] = "good" /\ Wants[j][i] # File(j)
    BY <1>2, <1>4 DEF StagedSoFar
  <2>2. /\ staged[j][Wants[j][i]] = "good"
        /\ pc[j] # "dest" => Wants[j][i] # File(j)
    BY DEF CacheInv, JobInv, StagedSoFar
  <2>3. Wants[j][i] # File(j)
    BY <2>2
  <2>4. Wants[j][i] \in Files
    <3>1. i \in 1 .. Len(Wants[j])
      BY <1>2
    <3> QED BY <3>1, WantedAreFiles
  <2> QED BY <1>3, <2>2, <2>3, <2>4
<1>8. StagedAll(j)' /\ LockedByJob(j)'
  BY <1>4 DEF StagedAll, LockedByJob
<1> QED BY <1>5, <1>6, <1>7, <1>8, OneJobSteps DEF JobInv

LEMMA BeginKeepsCache == ASSUME CacheInv, NEW j \in Jobs, Begin(j) PROVE CacheInv'
<1> USE DEF CacheInv, JobInv, Begin, cache, staging, jobs
<1>1. CacheTypeOK' /\ next' \in [Jobs -> Nat]
  BY CacheAssumption, WantedAreFiles DEF CacheTypeOK, Steps, Kinds
<1>2. SweepsAlone'
  BY DEF CacheTypeOK, SweepsAlone
<1>3. \A k \in Jobs : JobInv(k)'
  BY CacheAssumption, WantedAreFiles
     DEF CacheTypeOK, StagedSoFar, StagedAll, LockedByJob, LockedSteps, File
<1> QED BY <1>1, <1>2, <1>3

LEMMA JobOverKeepsCache == ASSUME CacheInv, NEW j \in Jobs, JobOver(j) PROVE CacheInv'
<1> USE DEF CacheInv, JobInv, JobOver, cache, staging
<1>1. CacheTypeOK' /\ next' \in [Jobs -> Nat]
  BY DEF CacheTypeOK
<1>2. SweepsAlone'
  BY DEF CacheTypeOK, SweepsAlone
<1>3. \A k \in Jobs : JobInv(k)'
  BY DEF CacheTypeOK, StagedSoFar, StagedAll, LockedByJob, LockedSteps, File
<1> QED BY <1>1, <1>2, <1>3

LEMMA StopKeepsCache == ASSUME CacheInv, NEW j \in Jobs, Stop(j) PROVE CacheInv'
<1>1. StoreTypeOK'
  BY CacheTypes DEF CacheInv, Stop, StoreTypeOK, cache
<1> QED BY <1>1, AbortKeepsCache DEF Stop, At

LEMMA SeeDestKeepsCache == ASSUME CacheInv, NEW j \in Jobs, SeeDest(j) PROVE CacheInv'
<1>1. StoreTypeOK' /\ JobsTypeOK
  BY CacheTypes DEF CacheInv, SeeDest, StoreTypeOK, cache
<1>2. CASE staged[j][File(j)] = "good"
  BY <1>1, <1>2, AdvanceKeepsCache DEF SeeDest, At
<1>3. CASE staged[j][File(j)] # "good"
  <2>1. Goto(j, "lock") /\ Place(j, "none") /\ lock' = lock /\ sweep' = sweep
    BY <1>3 DEF SeeDest
  <2>2. \E content \in Content : Place(j, content)
    BY <2>1 DEF Content
  <2>3. lock' \in [Files -> Jobs \cup {NoJob}]
    BY <1>1, <2>1 DEF JobsTypeOK
  <2>4. "lock" \in Steps \ {"dest"} /\ "lock" \notin LockedSteps
    BY DEF Steps, LockedSteps
  <2> QED BY <1>1, <1>3, <2>1, <2>2, <2>3, <2>4, GotoKeepsCache DEF SeeDest, At
<1> QED BY <1>2, <1>3

LEMMA LockKeepsCache == ASSUME CacheInv, NEW j \in Jobs, Lock(j) PROVE CacheInv'
<1>1. StoreTypeOK' /\ JobsTypeOK
  BY CacheTypes DEF CacheInv, Lock, StoreTypeOK, cache
<1>2. stage[j] = "staging" /\ pc[j] = "lock" /\ File(j) \in Files
  BY StagesAFile DEF Lock, At
<1>3. /\ lock' \in [Files -> Jobs \cup {NoJob}] /\ lock'[File(j)] = j
      /\ \A f \in Files : lock[f] \in Jobs \ {j} => lock'[f] = lock[f]
  BY <1>1, <1>2, CacheAssumption DEF Lock, LockFree, JobsTypeOK
<1>4. "cached" \in Steps \ {"dest"}
  BY DEF Steps
<1> QED BY <1>1, <1>2, <1>3, <1>4, GotoKeepsCache DEF Lock

\* While a job looks, downloads and verifies, the file's lock is its own.
LEMMA HoldsTheLock ==
  ASSUME CacheInv, NEW j \in Jobs, stage[j] = "staging", pc[j] \in LockedSteps
  PROVE  /\ lock \in [Files -> Jobs \cup {NoJob}] /\ lock[File(j)] = j
         /\ asset \in [Files -> Content] /\ File(j) \in Files
BY StagesAFile DEF CacheInv, JobInv, CacheTypeOK, LockedByJob

LEMMA SeeCachedKeepsCache == ASSUME CacheInv, NEW j \in Jobs, SeeCached(j) PROVE CacheInv'
<1>1. stage[j] = "staging" /\ pc[j] = "cached" /\ pc[j] \in LockedSteps
  BY DEF SeeCached, At, LockedSteps
<1>2. StoreTypeOK'
  BY <1>1, CacheTypes, HoldsTheLock DEF CacheInv, SeeCached, StoreTypeOK, Content
<1>3. PICK step \in {"keep", "fetch"} : Goto(j, step)
  BY DEF SeeCached
<1>4. step \in Steps \ {"dest"}
  BY <1>3 DEF Steps
<1> QED BY <1>1, <1>2, <1>3, <1>4, HoldsTheLock, GotoKeepsCache DEF SeeCached

\* A file of the cache is used now.
LEMMA TouchIsTyped ==
  ASSUME StoreTypeOK, NEW f \in Files, Touch(f)
  PROVE  used' \in [Kinds -> [Files -> 0 .. MaxTime]]
<1>1. /\ used \in [Kinds -> [Files -> 0 .. MaxTime]] /\ now \in 0 .. MaxTime
      /\ "asset" \in Kinds
  BY DEF StoreTypeOK, Kinds
<1>2. used' = [used EXCEPT !["asset"] = [used["asset"] EXCEPT ![f] = now]]
  BY DEF Touch
<1>3. [used["asset"] EXCEPT ![f] = now] \in [Files -> 0 .. MaxTime]
  BY <1>1
<1> QED BY <1>1, <1>2, <1>3

LEMMA FetchedKeepsCache == ASSUME CacheInv, NEW j \in Jobs, Fetched(j) PROVE CacheInv'
<1>1. stage[j] = "staging" /\ pc[j] = "fetch" /\ pc[j] \in LockedSteps /\ File(j) \in Files
  BY HoldsTheLock DEF Fetched, At, LockedSteps
<1>2. /\ UNCHANGED <<part, now>> /\ UNCHANGED staging /\ sweep' = sweep
  BY DEF Fetched
<1>3. StoreTypeOK
  BY CacheTypes DEF CacheInv
<1>4. CASE Abort(j) /\ UNCHANGED <<asset, used>>
  <2>1. StoreTypeOK'
    BY <1>2, <1>3, <1>4 DEF StoreTypeOK
  <2> QED BY <1>1, <1>2, <1>4, <2>1, AbortKeepsCache
<1>5. CASE \E content \in {"good", "bad"} :
             /\ asset' = [asset EXCEPT ![File(j)] = content]
             /\ Touch(File(j)) /\ Goto(j, "keep") /\ UNCHANGED lock
  <2>1. PICK content \in {"good", "bad"} :
             /\ asset' = [asset EXCEPT ![File(j)] = content]
             /\ Touch(File(j)) /\ Goto(j, "keep") /\ UNCHANGED lock
    BY <1>5
  <2>2. used' \in [Kinds -> [Files -> 0 .. MaxTime]]
    BY <1>1, <1>3, <2>1, TouchIsTyped
  <2>3. asset' \in [Files -> Content]
    BY <1>3, <2>1 DEF StoreTypeOK, Content
  <2>4. StoreTypeOK'
    BY <1>2, <1>3, <2>2, <2>3 DEF StoreTypeOK
  <2>5. "keep" \in Steps \ {"dest"}
    BY DEF Steps
  <2> QED BY <1>1, <1>2, <2>1, <2>4, <2>5, HoldsTheLock, GotoKeepsCache
<1> QED BY <1>4, <1>5 DEF Fetched

LEMMA KeepKeepsCache == ASSUME CacheInv, NEW j \in Jobs, Keep(j) PROVE CacheInv'
<1>1. stage[j] = "staging" /\ pc[j] = "keep" /\ pc[j] \in LockedSteps /\ File(j) \in Files
  BY HoldsTheLock DEF Keep, At, LockedSteps
<1>2. /\ UNCHANGED <<part, now>> /\ UNCHANGED staging /\ sweep' = sweep
  BY DEF Keep
<1>3. StoreTypeOK
  BY CacheTypes DEF CacheInv
<1>4. CASE asset[File(j)] = "good"
  <2>1. Touch(File(j)) \/ UNCHANGED used
    BY <1>4 DEF Keep
  <2>2. Unlock(j) /\ Goto(j, "link") /\ UNCHANGED asset
    BY <1>4 DEF Keep
  <2>3. used' \in [Kinds -> [Files -> 0 .. MaxTime]]
    BY <1>1, <1>3, <2>1, TouchIsTyped DEF StoreTypeOK
  <2>4. StoreTypeOK'
    BY <1>2, <1>3, <2>2, <2>3 DEF StoreTypeOK
  <2>5. /\ lock' \in [Files -> Jobs \cup {NoJob}]
        /\ \A f \in Files : lock[f] \in Jobs \ {j} => lock'[f] = lock[f]
    BY <1>1, <2>2, HoldsTheLock DEF Unlock
  <2>6. "link" \in Steps \ {"dest"} /\ "link" \notin LockedSteps
    BY DEF Steps, LockedSteps
  <2> QED BY <1>1, <1>2, <2>2, <2>4, <2>5, <2>6, GotoKeepsCache
<1>5. CASE asset[File(j)] # "good"
  <2>1. asset' = [asset EXCEPT ![File(j)] = "none"] /\ Abort(j) /\ UNCHANGED used
    BY <1>5 DEF Keep
  <2>2. StoreTypeOK'
    BY <1>2, <1>3, <2>1 DEF StoreTypeOK, Content
  <2> QED BY <1>1, <1>2, <2>1, <2>2, AbortKeepsCache
<1> QED BY <1>4, <1>5

LEMMA LinkKeepsCache == ASSUME CacheInv, NEW j \in Jobs, Link(j) PROVE CacheInv'
<1>1. stage[j] = "staging" /\ pc[j] = "link" /\ sweep' = sweep /\ File(j) \in Files
  BY StagesAFile DEF Link, At
<1>2. StoreTypeOK' /\ JobsTypeOK /\ asset \in [Files -> Content]
  BY CacheTypes DEF CacheInv, Link, StoreTypeOK, cache
<1>3. CASE asset[File(j)] = "none"
  BY <1>1, <1>2, <1>3, AbortKeepsCache DEF Link
<1>4. CASE asset[File(j)] # "none"
  <2>1. /\ (Place(j, asset[File(j)]) /\ Goto(j, "check")) \/ (Place(j, "bad") /\ Goto(j, "copy"))
        /\ UNCHANGED lock
    BY <1>4 DEF Link
  <2>2. PICK step \in {"check", "copy"} : Goto(j, step)
    BY <2>1
  <2>3. step \in Steps \ {"dest"} /\ step \notin LockedSteps
    BY <2>2 DEF Steps, LockedSteps
  <2>4. \E content \in Content : Place(j, content)
    BY <1>1, <1>2, <2>1 DEF Content
  <2>5. lock' \in [Files -> Jobs \cup {NoJob}]
    BY <1>2, <2>1 DEF JobsTypeOK
  <2> QED BY <1>1, <1>2, <2>1, <2>2, <2>3, <2>4, <2>5, GotoKeepsCache
<1> QED BY <1>3, <1>4

LEMMA CopiedKeepsCache == ASSUME CacheInv, NEW j \in Jobs, Copied(j) PROVE CacheInv'
<1>1. stage[j] = "staging" /\ pc[j] = "copy" /\ sweep' = sweep /\ File(j) \in Files
  BY StagesAFile DEF Copied, At
<1>2. StoreTypeOK' /\ JobsTypeOK /\ asset \in [Files -> Content]
  BY CacheTypes DEF CacheInv, Copied, StoreTypeOK, cache
<1>3. CASE Place(j, "none") /\ Abort(j)
  BY <1>1, <1>2, <1>3, AbortKeepsCache
<1>4. CASE /\ \E content \in {asset[File(j)], "bad"} \ {"none"} : Place(j, content)
           /\ Goto(j, "check") /\ UNCHANGED lock
  <2>1. \E content \in Content : Place(j, content)
    BY <1>1, <1>2, <1>4 DEF Content
  <2>2. "check" \in Steps \ {"dest"} /\ "check" \notin LockedSteps
    BY DEF Steps, LockedSteps
  <2>3. lock' \in [Files -> Jobs \cup {NoJob}]
    BY <1>2, <1>4 DEF JobsTypeOK
  <2> QED BY <1>1, <1>2, <1>4, <2>1, <2>2, <2>3, GotoKeepsCache
<1> QED BY <1>3, <1>4 DEF Copied

LEMMA CheckKeepsCache == ASSUME CacheInv, NEW j \in Jobs, Check(j) PROVE CacheInv'
<1>1. stage[j] = "staging" /\ sweep' = sweep
  BY DEF Check, At
<1>2. StoreTypeOK'
  BY CacheTypes DEF CacheInv, Check, StoreTypeOK, cache
<1>3. CASE staged[j][File(j)] = "good"
  BY <1>1, <1>2, <1>3, AdvanceKeepsCache DEF Check, staging
<1>4. CASE staged[j][File(j)] # "good"
  BY <1>1, <1>2, <1>4, AbortKeepsCache DEF Check
<1> QED BY <1>3, <1>4

\* What a cleanup removes was nobody's: it works alone.
LEMMA SweepingKeepsCache == ASSUME CacheInv, Sweeping PROVE CacheInv'
<1>1. \A j \in Jobs : stage[j] = "idle"
  BY DEF CacheInv, SweepsAlone, Sweeping, BeginSweep, MaintenanceFree, PruneBatchStaging,
         PruneCustomAssets, PruneFails, ExecuteCleanup
<1>2. StoreTypeOK /\ JobsTypeOK
  BY CacheTypes DEF CacheInv
<1>3. PICK step \in {"none", "staging", "assets", "remove"} : Sweep(step)
  BY DEF Sweeping, BeginSweep, PruneBatchStaging, PruneCustomAssets, PruneFails, ExecuteCleanup
<1>4. stagedAt' = stagedAt /\ used' = used
  BY DEF Sweeping, BeginSweep, PruneBatchStaging, PruneCustomAssets, PruneFails, ExecuteCleanup,
         Removed, cache, staging
<1>5. asset' \in [Files -> Content] /\ part' \subseteq Files
  <2>1. ASSUME NEW entries, Removed(entries)
        PROVE  asset' \in [Files -> Content] /\ part' \subseteq Files
    BY <1>2, <2>1 DEF Removed, StoreTypeOK, Content
  <2>2. UNCHANGED cache \/ \E entries : Removed(entries)
    BY DEF Sweeping, BeginSweep, PruneBatchStaging, PruneCustomAssets, PruneFails, ExecuteCleanup
  <2>3. CASE UNCHANGED cache
    BY <1>2, <2>3 DEF StoreTypeOK, cache
  <2> QED BY <2>1, <2>2, <2>3
<1>6. staged' \in [Jobs -> [Files -> Content]]
  <2>1. \/ staged' = staged
        \/ \E gone \in SUBSET Jobs :
             staged' = [j \in Jobs |-> IF j \in gone THEN [f \in Files |-> "none"] ELSE staged[j]]
    BY DEF Sweeping, BeginSweep, PruneBatchStaging, PruneCustomAssets, PruneFails, ExecuteCleanup,
           staging
  <2> QED BY <1>2, <2>1 DEF JobsTypeOK, Content
<1>7. CacheTypeOK' /\ next' \in [Jobs -> Nat]
  BY <1>2, <1>3, <1>4, <1>5, <1>6 DEF Sweep, jobs, CacheTypeOK, StoreTypeOK, JobsTypeOK
<1>8. \A j \in Jobs : stage'[j] = "idle"
  BY <1>1, <1>3 DEF Sweep, jobs
<1> QED BY <1>7, <1>8
        DEF CacheInv, SweepsAlone, JobInv, StagedSoFar, StagedAll, LockedByJob

\* Containers go on with the files they have; nothing else is left of the agent.
LEMMA CrashKeepsCache == ASSUME CacheInv, Crash PROVE CacheInv'
<1>1. StoreTypeOK /\ JobsTypeOK
  BY CacheTypes DEF CacheInv
<1>2. \A j \in Jobs : At(j, "fetch") => File(j) \in Files
  BY StagesAFile DEF At
<1>3. part' \subseteq Files
  BY <1>1, <1>2 DEF Crash, StoreTypeOK
<1>4. used' \in [Kinds -> [Files -> 0 .. MaxTime]]
  <2>1. PICK left : used' = [used EXCEPT !["part"] =
                               [f \in Files |-> IF f \in left THEN now ELSE used["part"][f]]]
    BY DEF Crash
  <2>2. [f \in Files |-> IF f \in left THEN now ELSE used["part"][f]] \in [Files -> 0 .. MaxTime]
    BY <1>1 DEF StoreTypeOK, Kinds
  <2> QED BY <1>1, <2>1, <2>2 DEF StoreTypeOK
<1>5. CacheTypeOK' /\ next' \in [Jobs -> Nat]
  <2>1. StoreTypeOK'
    BY <1>1, <1>3, <1>4 DEF StoreTypeOK, Crash
  <2>2. JobsTypeOK' /\ sweep' = "none"
    BY <1>1 DEF JobsTypeOK, Crash, staging, Steps
  <2> QED BY <2>1, <2>2 DEF CacheTypeOK, StoreTypeOK, JobsTypeOK
<1>6. ASSUME NEW j \in Jobs PROVE JobInv(j)'
  BY <1>1 DEF CacheInv, JobInv, StagedSoFar, StagedAll, LockedByJob, JobsTypeOK, Crash, staging
<1> QED BY <1>5, <1>6 DEF CacheInv, SweepsAlone, Crash

LEMMA CacheSteps == ASSUME CacheInv, [CacheNext]_cacheVars PROVE CacheInv'
<1>1. ASSUME NEW j \in Jobs, Begin(j) \/ Stop(j) \/ Stage(j) \/ JobOver(j) PROVE CacheInv'
  BY <1>1, BeginKeepsCache, StopKeepsCache, SeeDestKeepsCache, LockKeepsCache,
     SeeCachedKeepsCache, FetchedKeepsCache, KeepKeepsCache, LinkKeepsCache, CopiedKeepsCache,
     CheckKeepsCache, JobOverKeepsCache
     DEF Stage
<1>2. CASE UNCHANGED <<asset, staging, jobs, sweep>> /\ Tick
  <2>1. CacheTypeOK' /\ next' \in [Jobs -> Nat]
    BY <1>2, CacheAssumption DEF CacheInv, CacheTypeOK, Tick, cache, staging, jobs
  <2> QED BY <1>2, <2>1 DEF CacheInv, SweepsAlone, JobInv, StagedSoFar, StagedAll, LockedByJob,
                            File, staging, jobs
<1>3. CASE Rot
  <2>1. CacheTypeOK' /\ next' \in [Jobs -> Nat]
    BY <1>3 DEF CacheInv, CacheTypeOK, Rot, Content, staging, jobs
  <2> QED BY <1>3, <2>1 DEF CacheInv, SweepsAlone, JobInv, StagedSoFar, StagedAll, LockedByJob,
                            File, Rot, staging, jobs
<1>4. CASE UNCHANGED cacheVars
  <2>1. CacheTypeOK' /\ next' \in [Jobs -> Nat]
    BY <1>4 DEF CacheInv, CacheTypeOK, cacheVars, cache, staging, jobs
  <2> QED BY <1>4, <2>1 DEF CacheInv, SweepsAlone, JobInv, StagedSoFar, StagedAll, LockedByJob,
                            File, cacheVars, cache, staging, jobs
<1>5. CASE Tick
  BY <1>2, <1>5 DEF Tick, cache
<1> QED BY <1>1, <1>3, <1>4, <1>5, SweepingKeepsCache, CrashKeepsCache DEF CacheNext

LEMMA CacheInvariant == CacheSpec => []CacheInv
<1> QED BY CacheInitially, CacheSteps, PTL DEF CacheSpec

\* A container has every file of its job, verified, whatever other jobs, cleanups,
\* failed downloads and crashes did meanwhile (pipeline.go:268).
THEOREM CacheKeepsRunningJobs == CacheSpec => []RunningHasItsFiles
<1>1. CacheInv => RunningHasItsFiles
  <2>1. SUFFICES ASSUME CacheInv, NEW j \in Jobs, stage[j] = "running", NEW f \in Range(Wants[j])
                 PROVE  staged[j][f] = "good"
    BY DEF RunningHasItsFiles
  <2>2. PICK i \in 1 .. Len(Wants[j]) : Wants[j][i] = f
    BY <2>1, CacheAssumption DEF Range
  <2> QED BY <2>1, <2>2 DEF CacheInv, JobInv, StagedAll
<1> QED BY <1>1, CacheInvariant, PTL

\* Two jobs never download the same file at the same time.
THEOREM CacheDownloadsOnce == CacheSpec => []DownloadsOnce
<1>1. CacheInv => DownloadsOnce
  BY DEF CacheInv, JobInv, LockedByJob, LockedSteps, DownloadsOnce, At
<1> QED BY <1>1, CacheInvariant, PTL

(***************************************************************************)
(* The journals a start must find again.                                    *)
(***************************************************************************)

Opening == {"open", "identity", "initialize", "mark", "check", "register", "siblings"}
Started == Opening \cup {"next", "run"}

\* What an agent that is past the first look at the root relies on.
RootIsPinned ==
  /\ at \in Started => pin
  /\ at \notin {"off", "prepare"} => root # NoRoot /\ ScopesHold

\* A journal that admitted an attempt is registered, and its catalog lists it.
AdmittedIsRegistered ==
  /\ admitted # {} => pin
  /\ root # NoRoot => \A g \in admitted : root[g] # 0
  /\ \A g \in admitted : catalog[g].owner # 0 => catalog[g].lists

\* The journal that is being opened.
OpensOne ==
  /\ at \in Opening => gpu \in Indices
  /\ at \in Opening \ {"open", "siblings"} => made[gpu]
  /\ at \in {"initialize", "mark", "check", "register"} => identity[gpu].owner # 0
  /\ at \in {"check", "register"} => identity[gpu].ready
  /\ at = "register" => root[gpu] = 0

\* What was opened is registered and has its records; what was not is still to
\* be looked at.
OpenedIsSeen ==
  at # "off" =>
    /\ open \subseteq seen
    /\ open # {} => \A g \in open : root[g] # 0
    /\ \A g \in admitted \cap seen : record[g]
    /\ open # {} => \A g \in Indices : made[g] /\ root[g] # 0 => g \in seen \cup peers

\* One journal is open before the agent works, and the peers were looked at.
OpensBeforeWork ==
  /\ at \in {"prepare", "pin", "next", "run"} => peers = {}
  /\ at \in {"prepare", "pin"} => own # {} /\ open = {}
  /\ at = "next" => own # {} \/ open # {}
  /\ at \in {"siblings", "run"} => open # {}
  /\ at # "off" /\ peers # {} => open # {}

\* The files of a journal as the steps of its creation leave them.
WholeJournal(g) ==
  /\ catalog[g].owner # 0 \/ record[g] => identity[g].owner # 0
  /\ record[g] => identity[g].ready /\ root # NoRoot /\ root[g] # 0
  /\ identity[g].ready => catalog[g].owner = identity[g].owner /\ catalog[g].lists = record[g]

WholeUnlessLost ==
  lost = {} =>
    /\ pin => root # NoRoot
    /\ root # NoRoot => ScopesHold
    /\ \A g \in Indices : WholeJournal(g)
    /\ at = "mark" => /\ catalog[gpu] = [owner |-> identity[gpu].owner, lists |-> FALSE]
                      /\ ~record[gpu]

RootInv ==
  /\ RootTypeOK /\ RootIsPinned /\ AdmittedIsRegistered /\ OpensOne /\ OpenedIsSeen
  /\ OpensBeforeWork /\ WholeUnlessLost /\ OwnJournalOpens

\* The next GPU, in the order of the indices.
LEMMA MinOfNats == ASSUME NEW S, S \subseteq Nat, S # {} PROVE Min(S) \in S
<1> DEFINE Less == {ss \in Nat \X Nat : ss[1] < ss[2]}
<1>1. IsWellFoundedOn(Less, Nat)
  BY NatLessThanWellFounded, Zenon DEF OpToRel
<1>2. PICK x \in S : \A y \in S : <<y, x>> \notin Less
  BY <1>1, WFMin
<1>3. ASSUME NEW y \in S PROVE x <= y
  <2>1. x \in Nat /\ y \in Nat
    OBVIOUS
  <2>2. y < x => <<y, x>> \in Less
    BY <2>1
  <2> QED BY <1>2, <2>1, <2>2
<1> QED BY <1>3 DEF Min

LEMMA MaxOwnersIsNat == MaxOwners \in Nat /\ 0 \in 0 .. MaxOwners
BY RootAssumption

LEMMA NextOwner ==
  ASSUME owners \in 0 .. MaxOwners, owners < MaxOwners
  PROVE  owners + 1 \in 0 .. MaxOwners /\ owners + 1 # 0
BY MaxOwnersIsNat

\* A root that lists journals is a file.
LEMMA RootIsNoFile == ASSUME NEW r \in [Indices -> 0 .. MaxOwners] PROVE r # NoRoot
<1>1. r \in [Indices -> Nat]
  BY MaxOwnersIsNat
<1> QED BY <1>1, RootAssumption

LEMMA RootInitially == ASSUME RootInit PROVE RootInv
<1> USE RootAssumption DEF RootInit
<1>1. RootTypeOK
  <2>1. /\ NoFile \in [owner : 0 .. MaxOwners, ready : BOOLEAN]
        /\ NoCatalog \in [owner : 0 .. MaxOwners, lists : BOOLEAN]
        /\ NoFile.owner = 0
    BY DEF NoFile, NoCatalog
  <2> QED BY <2>1 DEF RootTypeOK, RootSteps
<1>2. WholeUnlessLost
  BY DEF WholeUnlessLost, WholeJournal, NoFile, NoCatalog
<1>3. OpensBeforeWork /\ OpenedIsSeen
  BY DEF OpensBeforeWork, OpenedIsSeen
<1> QED BY <1>1, <1>2, <1>3
        DEF RootInv, RootIsPinned, AdmittedIsRegistered, OpensOne, Started, Opening, OwnJournalOpens

LEMMA StartBeginsKeepsRoot ==
  ASSUME RootInv, NEW present \in (SUBSET Indices) \ {{}}, StartBegins(present)
  PROVE  RootInv'
<1> USE RootAssumption DEF RootInv, StartBegins, StepTo, Refuse, files,
        start, history, Opening, Started
<1>1. RootTypeOK'
  BY DEF RootTypeOK, RootSteps
<1>2. RootIsPinned'
  BY DEF RootIsPinned
<1>3. AdmittedIsRegistered'
  BY DEF AdmittedIsRegistered
<1>4. OpensOne'
  BY DEF OpensOne
<1>5. OpenedIsSeen'
  BY DEF OpenedIsSeen
<1>6. OpensBeforeWork'
  BY DEF OpensBeforeWork
<1>7. WholeUnlessLost'
  BY DEF WholeUnlessLost, WholeJournal, ScopesHold
<1>8. OwnJournalOpens'
  BY DEF OwnJournalOpens
<1> QED BY <1>1, <1>2, <1>3, <1>4, <1>5, <1>6, <1>7, <1>8

LEMMA PrepareRootKeepsRoot == ASSUME RootInv, PrepareRoot PROVE RootInv'
<1> USE RootAssumption DEF PrepareRoot, StepTo, Refuse, start, history, Opening, Started
<1>1. CASE root = NoRoot /\ ~pin
  <2>1. /\ root' = [g \in Indices |-> 0] /\ at' = "pin" /\ refused' = refused
        /\ pin' = pin /\ admitted' = admitted /\ lost' = lost
    BY <1>1
  <2>2. root' # NoRoot /\ \A g \in Indices : root'[g] = 0
    BY <2>1
  <2>3. ScopesHold'
    BY <2>2 DEF ScopesHold
  <2>4. RootTypeOK'
    <3>1. root' \in [Indices -> 0 .. MaxOwners]
      BY <2>1, MaxOwnersIsNat
    <3> QED BY <2>1, <3>1 DEF RootInv, RootTypeOK, RootSteps
  <2>5. RootIsPinned' /\ AdmittedIsRegistered' /\ OpensOne' /\ OpensBeforeWork'
    BY <1>1, <2>1, <2>2, <2>3
       DEF RootInv, RootTypeOK, RootIsPinned, AdmittedIsRegistered, OpensOne, OpensBeforeWork
  <2>6. OpenedIsSeen'
    BY <1>1, <2>1, <2>2, <2>3
       DEF RootInv, RootTypeOK, OpenedIsSeen, AdmittedIsRegistered, OpensBeforeWork
  <2>7. WholeUnlessLost' /\ OwnJournalOpens'
    BY <1>1, <2>1, <2>2, <2>3
       DEF RootInv, RootTypeOK, WholeUnlessLost, WholeJournal, OwnJournalOpens
  <2> QED BY <2>4, <2>5, <2>6, <2>7 DEF RootInv
<1>2. CASE ~(root = NoRoot /\ ~pin)
  <2>1. /\ root' = root /\ lost' = lost /\ pin' = pin
        /\ \/ at' = "off" /\ refused' = "lost" /\ (root = NoRoot \/ ~ScopesHold)
           \/ /\ at' \in {"next", "pin"} /\ refused' = refused /\ root # NoRoot /\ ScopesHold
              /\ at' = "next" => pin
    BY <1>2
  <2>2. ScopesHold' = ScopesHold
    BY <2>1 DEF ScopesHold
  <2>3. RootTypeOK'
    BY <2>1 DEF RootInv, RootTypeOK, RootSteps
  <2>9. RootIsPinned'
    BY <2>1, <2>2 DEF RootIsPinned
  <2>10. AdmittedIsRegistered'
    BY <2>1 DEF RootInv, AdmittedIsRegistered
  <2>4. RootIsPinned' /\ AdmittedIsRegistered' /\ OpensOne'
    BY <2>1, <2>9, <2>10 DEF OpensOne
  <2>8. OpensBeforeWork'
    BY <2>1 DEF RootInv, OpensBeforeWork
  <2>5. OpenedIsSeen'
    BY <2>1 DEF RootInv, RootTypeOK, OpenedIsSeen, OpensBeforeWork
  <2>6. WholeUnlessLost'
    BY <2>1, <2>2 DEF RootInv, WholeUnlessLost, WholeJournal
  <2>7. OwnJournalOpens'
    BY <1>2, <2>1 DEF RootInv, WholeUnlessLost, OwnJournalOpens
  <2> QED BY <2>3, <2>4, <2>5, <2>6, <2>7, <2>8 DEF RootInv
<1> QED BY <1>1, <1>2

LEMMA PinRootKeepsRoot == ASSUME RootInv, PinRoot PROVE RootInv'
<1> USE RootAssumption DEF RootInv, PinRoot, StepTo, Refuse, files,
        start, history, Opening, Started
<1>1. RootTypeOK'
  BY DEF RootTypeOK, RootSteps
<1>2. RootIsPinned'
  BY DEF RootIsPinned, ScopesHold
<1>3. AdmittedIsRegistered'
  BY DEF AdmittedIsRegistered
<1>4. OpensOne'
  BY DEF OpensOne
<1>5. OpenedIsSeen'
  BY DEF OpenedIsSeen
<1>6. OpensBeforeWork'
  BY DEF OpensBeforeWork
<1>7. WholeUnlessLost'
  BY DEF WholeUnlessLost, WholeJournal, ScopesHold, RootIsPinned
<1>8. OwnJournalOpens'
  BY DEF OwnJournalOpens
<1> QED BY <1>1, <1>2, <1>3, <1>4, <1>5, <1>6, <1>7, <1>8

LEMMA NextGpuKeepsRoot == ASSUME RootInv, NextGpu PROVE RootInv'
<1> USE RootAssumption DEF RootInv, NextGpu, StepTo, Refuse, files,
        start, history, Opening, Started
<1>0. own # {} => Min(own) \in own /\ own \in SUBSET Indices
  BY MinOfNats DEF RootTypeOK
<1>1. RootTypeOK'
  <2>1. own' \in SUBSET Indices /\ gpu' \in Indices \cup {NoGpu}
    BY <1>0 DEF RootTypeOK
  <2> QED BY <2>1 DEF RootTypeOK, RootSteps
<1>2. RootIsPinned'
  BY DEF RootIsPinned, ScopesHold
<1>3. AdmittedIsRegistered'
  BY DEF AdmittedIsRegistered
<1>4. OpensOne'
  BY <1>0 DEF RootTypeOK, OpensOne
<1>5. OpenedIsSeen'
  BY DEF OpenedIsSeen
<1>6. OpensBeforeWork'
  BY DEF OpensBeforeWork
<1>7. WholeUnlessLost'
  BY DEF WholeUnlessLost, WholeJournal, ScopesHold
<1>8. OwnJournalOpens'
  BY DEF OwnJournalOpens
<1> QED BY <1>1, <1>2, <1>3, <1>4, <1>5, <1>6, <1>7, <1>8

LEMMA OpenRootKeepsRoot == ASSUME RootInv, OpenRoot PROVE RootInv'
<1> USE RootAssumption DEF RootInv, OpenRoot, StepTo, Refuse, files,
        start, history, Opening, Started
<1>0. /\ made' \in [Indices -> BOOLEAN] /\ \A g \in Indices : made[g] => made'[g]
      /\ at' # "off" => made'[gpu]
      /\ at' \in {"off", "identity"}
      /\ gpu \in Indices /\ gpu' = gpu
  BY DEF RootTypeOK, OpensOne, MakeDirectory
<1>1. RootTypeOK'
  BY <1>0 DEF RootTypeOK, RootSteps
<1>2. RootIsPinned'
  BY DEF RootIsPinned, ScopesHold
<1>3. AdmittedIsRegistered'
  BY DEF AdmittedIsRegistered
<1>4. OpensOne'
  BY <1>0 DEF RootTypeOK, OpensOne
<1>5. OpenedIsSeen'
  BY DEF RootTypeOK, OpenedIsSeen, AdmittedIsRegistered, OpensOne, RootIsPinned, ScopesHold
<1>6. OpensBeforeWork'
  BY DEF OpensBeforeWork
<1>7. WholeUnlessLost'
  BY DEF WholeUnlessLost, WholeJournal, ScopesHold, RootIsPinned, OpensOne
<1>8. OwnJournalOpens'
  BY DEF RootTypeOK, OwnJournalOpens, WholeUnlessLost, WholeJournal, RootIsPinned, OpensOne
<1> QED BY <1>1, <1>2, <1>3, <1>4, <1>5, <1>6, <1>7, <1>8

LEMMA WriteIdentityKeepsRoot == ASSUME RootInv, WriteIdentity PROVE RootInv'
<1> USE RootAssumption DEF RootInv, WriteIdentity, StepTo, Refuse, files,
        start, history, Opening, Started
<1>0. /\ identity' \in [Indices -> [owner : 0 .. MaxOwners, ready : BOOLEAN]]
      /\ owners' \in 0 .. MaxOwners /\ gpu \in Indices /\ gpu' = gpu
      /\ \A g \in Indices \ {gpu} : identity'[g] = identity[g]
      /\ at' # "off" => identity'[gpu].owner # 0
      /\ identity'[gpu].owner = 0 => identity[gpu].owner = 0
      /\ identity'[gpu].ready => identity[gpu].ready /\ identity'[gpu] = identity[gpu]
      /\ identity[gpu].owner # 0 => identity'[gpu] = identity[gpu]
  <2>1. /\ gpu \in Indices /\ owners \in 0 .. MaxOwners
        /\ identity \in [Indices -> [owner : 0 .. MaxOwners, ready : BOOLEAN]]
    BY DEF RootTypeOK, OpensOne
  <2>2. CASE identity[gpu].owner # 0 \/ (identity[gpu].owner = 0 /\ (catalog[gpu].owner # 0 \/ record[gpu]))
    <3>1. identity' = identity /\ owners' = owners
      BY <2>2
    <3>2. at' # "off" => identity[gpu].owner # 0
      BY <2>2
    <3> QED BY <2>1, <3>1, <3>2
  <2>3. CASE identity[gpu].owner = 0 /\ ~(catalog[gpu].owner # 0 \/ record[gpu])
    <3>1. /\ owners < MaxOwners /\ owners' = owners + 1
          /\ identity' = [identity EXCEPT ![gpu] = FirstIdentity(owners')]
      BY <2>3
    <3>2. owners' \in 0 .. MaxOwners /\ owners' # 0
      BY <2>1, <3>1, NextOwner
    <3>3. /\ FirstIdentity(owners') \in [owner : 0 .. MaxOwners, ready : BOOLEAN]
          /\ FirstIdentity(owners').owner # 0 /\ ~FirstIdentity(owners').ready
      BY <3>2 DEF FirstIdentity
    <3> QED BY <2>1, <2>3, <3>1, <3>2, <3>3
  <2> QED BY <2>2, <2>3
<1>1. RootTypeOK'
  BY <1>0 DEF RootTypeOK, RootSteps, OpensOne
<1>2. RootIsPinned'
  BY DEF RootTypeOK, RootIsPinned, ScopesHold
<1>3. AdmittedIsRegistered'
  BY DEF AdmittedIsRegistered
<1>4. OpensOne'
  BY <1>0 DEF RootTypeOK, OpensOne
<1>5. OpenedIsSeen'
  BY DEF OpenedIsSeen
<1>6. OpensBeforeWork'
  BY DEF OpensBeforeWork
<1>7. WholeUnlessLost'
  <2>1. root # NoRoot /\ ScopesHold'
    <3>1. root # NoRoot /\ ScopesHold /\ root' = root
      BY DEF RootIsPinned
    <3> QED BY <1>0, <3>1 DEF ScopesHold
  <2>2. /\ root' = root /\ pin' = pin /\ lost' = lost /\ at' # "mark"
        /\ record' = record /\ catalog' = catalog
    OBVIOUS
  <2>3. ASSUME NEW g \in Indices, lost = {} PROVE WholeJournal(g)'
    <3>1. WholeJournal(g)
      BY <2>3 DEF WholeUnlessLost
    <3>2. CASE g = gpu
      BY <1>0, <2>2, <3>1, <3>2 DEF WholeJournal
    <3>3. CASE g # gpu
      BY <1>0, <2>2, <3>1, <3>3 DEF WholeJournal
    <3> QED BY <3>2, <3>3
  <2> QED BY <2>1, <2>2, <2>3 DEF WholeUnlessLost
<1>8. OwnJournalOpens'
  BY DEF RootTypeOK, OwnJournalOpens, WholeUnlessLost, WholeJournal, RootIsPinned, OpensOne
<1> QED BY <1>1, <1>2, <1>3, <1>4, <1>5, <1>6, <1>7, <1>8

LEMMA WriteCatalogKeepsRoot == ASSUME RootInv, WriteCatalog PROVE RootInv'
<1> USE RootAssumption DEF RootInv, WriteCatalog, StepTo, Refuse, files,
        start, history, Opening, Started
<1>0. /\ catalog' \in [Indices -> [owner : 0 .. MaxOwners, lists : BOOLEAN]]
      /\ gpu \in Indices
      /\ \A g \in Indices \ {gpu} : catalog'[g] = catalog[g]
      /\ catalog'[gpu] = catalog[gpu] \/ ~identity[gpu].ready
      /\ at' = "mark" => catalog'[gpu] = [owner |-> identity[gpu].owner, lists |-> FALSE]
  <2>1. /\ gpu \in Indices
        /\ identity \in [Indices -> [owner : 0 .. MaxOwners, ready : BOOLEAN]]
        /\ catalog \in [Indices -> [owner : 0 .. MaxOwners, lists : BOOLEAN]]
    BY DEF RootTypeOK, OpensOne
  <2>2. [owner |-> identity[gpu].owner, lists |-> FALSE] \in [owner : 0 .. MaxOwners, lists : BOOLEAN]
    BY <2>1
  <2> QED BY <2>1, <2>2
<1>1. RootTypeOK'
  BY <1>0 DEF RootTypeOK, RootSteps
<1>2. RootIsPinned'
  BY DEF RootIsPinned, ScopesHold
<1>3. AdmittedIsRegistered'
  BY DEF RootTypeOK, AdmittedIsRegistered, OpensOne, RootIsPinned, ScopesHold, OpenedIsSeen
<1>4. OpensOne'
  BY DEF OpensOne
<1>5. OpenedIsSeen'
  BY DEF OpenedIsSeen
<1>6. OpensBeforeWork'
  BY DEF OpensBeforeWork
<1>7. WholeUnlessLost'
  <2>1. root # NoRoot /\ ScopesHold'
    <3>1. root # NoRoot /\ ScopesHold /\ root' = root /\ identity' = identity
      BY DEF RootIsPinned
    <3> QED BY <3>1 DEF ScopesHold
  <2>2. /\ root' = root /\ pin' = pin /\ lost' = lost /\ record' = record
        /\ identity' = identity /\ gpu' = gpu
        /\ at' = "mark" => ~record[gpu]
    OBVIOUS
  <2>3. ASSUME NEW g \in Indices, lost = {} PROVE WholeJournal(g)'
    <3>1. WholeJournal(g)
      BY <2>3 DEF WholeUnlessLost
    <3>2. CASE catalog'[g] = catalog[g]
      BY <2>2, <3>1, <3>2 DEF WholeJournal
    <3>3. CASE g = gpu /\ ~identity[gpu].ready
      <4>1. identity[g].owner # 0 /\ ~record[g]
        BY <3>1, <3>3 DEF OpensOne, WholeJournal
      <4> QED BY <2>2, <3>3, <4>1 DEF WholeJournal
    <3> QED BY <1>0, <3>2, <3>3
  <2> QED BY <1>0, <2>1, <2>2, <2>3 DEF WholeUnlessLost
<1>8. OwnJournalOpens'
  BY DEF RootTypeOK, OwnJournalOpens, WholeUnlessLost, WholeJournal, RootIsPinned, OpensOne
<1> QED BY <1>1, <1>2, <1>3, <1>4, <1>5, <1>6, <1>7, <1>8

LEMMA MarkInitializedKeepsRoot == ASSUME RootInv, MarkInitialized PROVE RootInv'
<1>1. /\ gpu \in Indices /\ identity[gpu].owner # 0
      /\ identity \in [Indices -> [owner : 0 .. MaxOwners, ready : BOOLEAN]]
  BY DEF RootInv, RootTypeOK, OpensOne, Opening, MarkInitialized
<1>2. /\ identity' \in [Indices -> [owner : 0 .. MaxOwners, ready : BOOLEAN]]
      /\ \A g \in Indices : identity'[g].owner = identity[g].owner
      /\ \A g \in Indices : identity[g].ready => identity'[g].ready
      /\ \A g \in Indices \ {gpu} : identity'[g] = identity[g]
      /\ identity'[gpu].ready
  <2>1. identity' = [identity EXCEPT ![gpu] = [identity[gpu] EXCEPT !.ready = TRUE]]
    BY DEF MarkInitialized
  <2>2. /\ [identity[gpu] EXCEPT !.ready = TRUE] \in [owner : 0 .. MaxOwners, ready : BOOLEAN]
        /\ [identity[gpu] EXCEPT !.ready = TRUE].owner = identity[gpu].owner
        /\ [identity[gpu] EXCEPT !.ready = TRUE].ready
    BY <1>1
  <2> QED BY <1>1, <2>1, <2>2
<1>3. /\ at = "mark" /\ at' = "check" /\ refused' = refused
      /\ UNCHANGED <<root, pin, made, catalog, record, gpu, own, peers, open,
                     seen, lost, owners, admitted>>
  BY DEF MarkInitialized, StepTo, start, history
<1>4. ScopesHold => ScopesHold'
  BY <1>2, <1>3 DEF ScopesHold
<1>5. RootTypeOK'
  <2>1. at' \in RootSteps /\ \A g \in Indices : identity'[g].owner # 0 => made'[g]
    BY <1>2, <1>3 DEF RootInv, RootTypeOK, RootSteps
  <2> QED BY <1>2, <1>3, <2>1 DEF RootInv, RootTypeOK
<1>6. RootIsPinned' /\ AdmittedIsRegistered' /\ OpensOne'
  BY <1>1, <1>2, <1>3, <1>4
     DEF RootInv, RootIsPinned, AdmittedIsRegistered, OpensOne, Opening, Started
<1>7. OpenedIsSeen' /\ OpensBeforeWork' /\ OwnJournalOpens'
  BY <1>3 DEF RootInv, OpenedIsSeen, OpensBeforeWork, OwnJournalOpens
<1>8. ASSUME NEW g \in Indices, lost = {} PROVE WholeJournal(g)'
  <2>1. /\ WholeJournal(g)
        /\ catalog[gpu] = [owner |-> identity[gpu].owner, lists |-> FALSE] /\ ~record[gpu]
        /\ record[gpu] \in BOOLEAN
    BY <1>1, <1>3, <1>8 DEF RootInv, WholeUnlessLost, RootTypeOK
  <2>2. CASE g = gpu
    <3>1. /\ catalog'[gpu].owner = identity'[gpu].owner
          /\ catalog'[gpu].lists = FALSE /\ record'[gpu] = FALSE
      BY <1>1, <1>2, <1>3, <2>1
    <3>2. identity'[gpu].owner # 0
      BY <1>1, <1>2
    <3> QED BY <2>2, <3>1, <3>2 DEF WholeJournal
  <2>3. CASE g # gpu
    BY <1>2, <1>3, <2>1, <2>3 DEF WholeJournal
  <2> QED BY <2>2, <2>3
<1>9. WholeUnlessLost'
  BY <1>3, <1>4, <1>8 DEF RootInv, WholeUnlessLost
<1> QED BY <1>5, <1>6, <1>7, <1>9 DEF RootInv

\* The journal that is opened has the records that its catalog lists.
LEMMA OpenedKeepsRoot ==
  ASSUME RootInv, at \in {"check", "register"}, Opened,
         UNCHANGED <<pin, made, identity, catalog, record, history>>,
         gpu \in admitted => Consistent,
         root' \in [Indices -> 0 .. MaxOwners],
         root'[gpu] = identity[gpu].owner,
         \A g \in Indices \ {gpu} : root'[g] = root[g]
  PROVE  RootInv'
<1>1. /\ gpu \in Indices /\ identity[gpu].owner # 0 /\ identity[gpu].ready /\ pin
      /\ root # NoRoot /\ ScopesHold /\ root' # NoRoot
  BY RootAssumption, RootIsNoFile DEF RootInv, OpensOne, RootIsPinned, Started, Opening
<1>2. /\ at' = "siblings" /\ refused' = refused /\ seen' = seen \cup {gpu}
      /\ gpu' = gpu /\ own' = own
      /\ UNCHANGED <<pin, made, identity, catalog, record, lost, owners, admitted>>
  BY DEF Opened, StepTo, history
<1>3. /\ open' \subseteq open \cup {gpu} /\ open \subseteq open' /\ open' # {}
      /\ \A g \in Indices : /\ made[g] /\ root'[g] # 0
                            /\ open = {} \/ g \in seen \cup peers \/ g = gpu
                            => g \in seen' \cup peers'
      /\ peers' \subseteq Indices /\ open' \subseteq Indices
  <2>1. /\ peers \subseteq Indices /\ open \subseteq Indices
        /\ peers # {} => open # {}
        /\ made \in [Indices -> BOOLEAN]
    BY DEF RootInv, RootTypeOK, OpensBeforeWork
  <2>2. CASE gpu \in open \/ peers # {}
    <3>1. peers' = peers \ {gpu} /\ open' = open
      BY <2>2 DEF Opened
    <3> QED BY <1>2, <2>1, <2>2, <3>1
  <2>3. CASE ~(gpu \in open \/ peers # {})
    <3>1. open' = open \cup {gpu} /\ peers' = {g \in Indices : made[g]} \ {gpu}
      BY <2>3 DEF Opened
    <3> QED BY <1>1, <1>2, <2>1, <3>1
  <2> QED BY <2>2, <2>3
<1>4. ScopesHold'
  BY <1>1, <1>2 DEF ScopesHold
<1>5. \A g \in Indices : root[g] # 0 => root'[g] # 0
  BY <1>1
<1>6. RootTypeOK'
  <2>1. seen' \in SUBSET Indices /\ at' \in RootSteps
    BY <1>1, <1>2 DEF RootInv, RootTypeOK, RootSteps
  <2> QED BY <1>2, <1>3, <2>1 DEF RootInv, RootTypeOK
<1>7. RootIsPinned' /\ OpensOne'
  <2>1. RootIsPinned'
    BY <1>1, <1>2, <1>4 DEF RootIsPinned
  <2> QED BY <1>1, <1>2, <2>1 DEF OpensOne
<1>8. AdmittedIsRegistered'
  <2>1. admitted \subseteq Indices
    BY DEF RootInv, RootTypeOK
  <2> QED BY <1>1, <1>2, <1>5, <2>1 DEF RootInv, AdmittedIsRegistered
<1>9. gpu \in admitted => record[gpu]
  BY <1>1 DEF RootInv, AdmittedIsRegistered, Consistent
<1>10. OpenedIsSeen'
  <2>1. /\ open \subseteq seen /\ open \subseteq Indices /\ admitted \subseteq Indices
        /\ open # {} => \A g \in open : root[g] # 0
        /\ \A g \in admitted \cap seen : record[g]
        /\ open # {} => \A g \in Indices : made[g] /\ root[g] # 0 => g \in seen \cup peers
    BY DEF RootInv, RootTypeOK, OpenedIsSeen
  <2>2. open' \subseteq seen' /\ \A g \in open' : root'[g] # 0
    BY <1>1, <1>2, <1>3, <1>5, <2>1
  <2>3. \A g \in admitted' \cap seen' : record'[g]
    BY <1>2, <1>9, <2>1
  <2>4. \A g \in Indices : made[g] /\ root'[g] # 0 => g \in seen' \cup peers'
    BY <1>3, <2>1
  <2> QED BY <1>2, <2>2, <2>3, <2>4 DEF OpenedIsSeen
<1>11. OpensBeforeWork'
  BY <1>2, <1>3 DEF OpensBeforeWork
<1>12. ASSUME NEW g \in Indices, lost = {} PROVE WholeJournal(g)'
  <2>1. WholeJournal(g)
    BY <1>12 DEF RootInv, WholeUnlessLost
  <2> QED BY <1>1, <1>2, <1>5, <2>1 DEF WholeJournal
<1>13. WholeUnlessLost' /\ OwnJournalOpens'
  BY <1>1, <1>2, <1>4, <1>12 DEF RootInv, WholeUnlessLost, OwnJournalOpens
<1> QED BY <1>6, <1>7, <1>8, <1>10, <1>11, <1>13 DEF RootInv

LEMMA CheckRecordsKeepsRoot == ASSUME RootInv, CheckRecords PROVE RootInv'
<1>1. /\ gpu \in Indices /\ identity[gpu].owner # 0 /\ identity[gpu].ready /\ pin /\ at = "check"
      /\ root # NoRoot /\ ScopesHold /\ root \in [Indices -> 0 .. MaxOwners]
  BY DEF RootInv, RootTypeOK, OpensOne, RootIsPinned, Started, Opening, CheckRecords
<1>2. UNCHANGED files /\ UNCHANGED history
  BY DEF CheckRecords
<1>3. CASE at' \in {"off", "register"} /\ UNCHANGED start
  <2>1. /\ UNCHANGED <<root, pin, made, identity, catalog, record, gpu, own, peers, open, seen>>
        /\ UNCHANGED <<lost, owners, admitted>>
    BY <1>2, <1>3 DEF files, start, history
  <2>2. /\ refused' = refused \/ refused' = "own journal"
        /\ at' = "register" => root[gpu] = 0 /\ refused' = refused
        /\ refused' # refused => ~Consistent \/ (root[gpu] = 0 /\ record[gpu])
    BY <1>3 DEF CheckRecords, StepTo, Refuse, Opened
  <2>3. RootTypeOK'
    <3>1. at' \in RootSteps /\ refused' \in {"none", "lost", "own journal", "sibling"}
      BY <1>3, <2>2 DEF RootInv, RootTypeOK, RootSteps
    <3> QED BY <2>1, <3>1 DEF RootInv, RootTypeOK
  <2>4. RootIsPinned' /\ AdmittedIsRegistered'
    BY <1>1, <1>3, <2>1 DEF RootInv, RootIsPinned, AdmittedIsRegistered, ScopesHold, Started, Opening
  <2>5. OpensOne' /\ OpensBeforeWork'
    BY <1>1, <1>3, <2>1, <2>2 DEF RootInv, OpensOne, OpensBeforeWork, Opening
  <2>6. OpenedIsSeen'
    BY <1>1, <2>1 DEF RootInv, OpenedIsSeen
  <2>7. WholeUnlessLost'
    BY <1>1, <1>3, <2>1 DEF RootInv, WholeUnlessLost, WholeJournal, ScopesHold
  <2>8. OwnJournalOpens'
    <3>1. lost = {} => WholeJournal(gpu)
      BY <1>1 DEF RootInv, WholeUnlessLost
    <3> QED BY <1>1, <2>1, <2>2, <3>1 DEF RootInv, OwnJournalOpens, WholeJournal, Consistent
  <2> QED BY <2>3, <2>4, <2>5, <2>6, <2>7, <2>8 DEF RootInv
<1>4. CASE Opened /\ Consistent /\ root[gpu] # 0
  <2>1. UNCHANGED <<root, pin, made, identity, catalog, record>>
    BY <1>2 DEF files
  <2>2. root'[gpu] = identity[gpu].owner
    BY <1>1, <1>4, <2>1 DEF ScopesHold
  <2> QED BY <1>1, <1>2, <1>4, <2>1, <2>2, OpenedKeepsRoot
<1> QED BY <1>3, <1>4 DEF CheckRecords, StepTo, Refuse

LEMMA RegisterKeepsRoot == ASSUME RootInv, Register PROVE RootInv'
<1>1. /\ gpu \in Indices /\ root[gpu] = 0 /\ identity[gpu].owner \in 0 .. MaxOwners
      /\ root # NoRoot /\ root \in [Indices -> 0 .. MaxOwners] /\ gpu \notin admitted
  BY DEF RootInv, RootTypeOK, OpensOne, RootIsPinned, AdmittedIsRegistered, Started, Opening, Register
<1>2. /\ root' = [root EXCEPT ![gpu] = identity[gpu].owner]
      /\ Opened /\ at = "register"
      /\ UNCHANGED <<pin, made, identity, catalog, record, history>>
  BY DEF Register
<1>3. /\ root' \in [Indices -> 0 .. MaxOwners] /\ root'[gpu] = identity[gpu].owner
      /\ \A g \in Indices \ {gpu} : root'[g] = root[g]
  BY <1>1, <1>2
<1> QED BY <1>1, <1>2, <1>3, OpenedKeepsRoot

LEMMA SiblingKeepsRoot == ASSUME RootInv, NEW g \in Indices, Sibling(g) PROVE RootInv'
<1>1. /\ at = "siblings" /\ g \in peers /\ root # NoRoot /\ ScopesHold /\ pin
      /\ open \subseteq seen /\ open # {}
      /\ UNCHANGED <<root, pin, made, identity, catalog, record, own, open,
                     seen, lost, owners, admitted>>
  BY DEF RootInv, Sibling, RootIsPinned, OpenedIsSeen, OpensBeforeWork, Started, Opening, files,
         history, start
<1>2. \/ at' = "off" /\ refused' = "sibling" /\ gpu' = gpu /\ peers' = peers
      \/ at' = at /\ refused' = refused /\ gpu' = gpu /\ peers' = peers \ {g} /\ g \in open
      \/ at' = "open" /\ refused' = refused /\ gpu' = g /\ peers' = peers
  BY DEF Sibling, StepTo, Refuse, start
<1>3. ScopesHold'
  BY <1>1 DEF ScopesHold
<1>4. RootTypeOK'
  <2>1. peers' \in SUBSET Indices /\ gpu' \in Indices \cup {NoGpu} /\ at' \in RootSteps
        /\ refused' \in {"none", "lost", "own journal", "sibling"}
    BY <1>1, <1>2 DEF RootInv, RootTypeOK, RootSteps
  <2> QED BY <1>1, <2>1 DEF RootInv, RootTypeOK
<1>5. RootIsPinned' /\ AdmittedIsRegistered'
  BY <1>1, <1>2, <1>3 DEF RootInv, RootIsPinned, AdmittedIsRegistered
<1>6. OpensOne' /\ OpensBeforeWork'
  BY <1>1, <1>2 DEF RootInv, OpensOne, OpensBeforeWork, Opening
<1>7. OpenedIsSeen'
  <2>1. open \subseteq seen /\ (open # {} => \A h \in open : root[h] # 0)
        /\ \A h \in admitted \cap seen : record[h]
    BY <1>1 DEF RootInv, OpenedIsSeen
  <2>2. \A h \in Indices : made[h] /\ root[h] # 0 => h \in seen \cup peers
    BY <1>1 DEF RootInv, OpenedIsSeen
  <2>3. seen \cup peers \subseteq seen' \cup peers'
    BY <1>1, <1>2
  <2> QED BY <1>1, <2>1, <2>2, <2>3 DEF OpenedIsSeen
<1>8. WholeUnlessLost'
  BY <1>1, <1>2, <1>3 DEF RootInv, WholeUnlessLost, WholeJournal
<1>9. OwnJournalOpens'
  BY <1>1, <1>2 DEF RootInv, OwnJournalOpens
<1> QED BY <1>4, <1>5, <1>6, <1>7, <1>8, <1>9 DEF RootInv

LEMMA AdmitKeepsRoot == ASSUME RootInv, NEW g \in Indices, Admit(g) PROVE RootInv'
<1>1. /\ at = "run" /\ g \in open /\ root # NoRoot /\ ScopesHold /\ pin
      /\ open \subseteq seen /\ open # {} /\ root[g] # 0
      /\ UNCHANGED <<root, pin, made, identity, at, gpu, own, peers, open, seen, refused, lost, owners>>
      /\ admitted' = admitted \cup {g}
  BY DEF RootInv, Admit, RootIsPinned, OpenedIsSeen, OpensBeforeWork, Started, Opening, start
<1>2. /\ record \in [Indices -> BOOLEAN] /\ record' = [record EXCEPT ![g] = TRUE]
      /\ catalog \in [Indices -> [owner : 0 .. MaxOwners, lists : BOOLEAN]]
      /\ catalog' = [catalog EXCEPT ![g] = [catalog[g] EXCEPT !.lists = TRUE]]
      /\ admitted \subseteq Indices
  BY DEF RootInv, RootTypeOK, Admit
<1>3. /\ record' \in [Indices -> BOOLEAN] /\ record'[g]
      /\ \A h \in Indices \ {g} : record'[h] = record[h]
      /\ catalog' \in [Indices -> [owner : 0 .. MaxOwners, lists : BOOLEAN]]
      /\ \A h \in Indices \ {g} : catalog'[h] = catalog[h]
      /\ catalog'[g].owner = catalog[g].owner /\ catalog'[g].lists
  <2>1. /\ [catalog[g] EXCEPT !.lists = TRUE] \in [owner : 0 .. MaxOwners, lists : BOOLEAN]
        /\ [catalog[g] EXCEPT !.lists = TRUE].owner = catalog[g].owner
        /\ [catalog[g] EXCEPT !.lists = TRUE].lists
    BY <1>2
  <2> QED BY <1>2, <2>1
<1>4. ScopesHold'
  BY <1>1 DEF ScopesHold
<1>5. RootTypeOK'
  <2>1. admitted' \in SUBSET Indices
    BY <1>1, <1>2
  <2>2. RootTypeOK
    BY DEF RootInv
  <2>3. /\ {own', peers', open', seen', admitted'} \subseteq SUBSET Indices
        /\ \A h \in Indices : identity'[h].owner # 0 => made'[h]
    BY <1>1, <2>1, <2>2 DEF RootTypeOK
  <2> QED BY <1>1, <1>3, <2>2, <2>3 DEF RootTypeOK
<1>6. RootIsPinned' /\ OpensOne' /\ OpensBeforeWork' /\ OwnJournalOpens'
  BY <1>1, <1>4 DEF RootInv, RootIsPinned, OpensOne, OpensBeforeWork, OwnJournalOpens, Opening
<1>7. AdmittedIsRegistered'
  BY <1>1, <1>2, <1>3 DEF RootInv, AdmittedIsRegistered
<1>8. OpenedIsSeen'
  <2>1. \A h \in admitted \cap seen : record[h]
    BY <1>1 DEF RootInv, OpenedIsSeen
  <2>2. \A h \in admitted' \cap seen' : record'[h]
    BY <1>1, <1>2, <1>3, <2>1
  <2> QED BY <1>1, <2>2 DEF RootInv, OpenedIsSeen
<1>9. ASSUME NEW h \in Indices, lost = {} PROVE WholeJournal(h)'
  <2>1. WholeJournal(h)
    BY <1>9 DEF RootInv, WholeUnlessLost
  <2>2. CASE h = g
    <3>1. identity[g].owner = root[g] /\ identity[g].ready
      BY <1>1 DEF ScopesHold
    <3>2. catalog'[g].lists = record'[g]
      BY <1>3
    <3> QED BY <1>1, <1>3, <2>1, <2>2, <3>1, <3>2 DEF WholeJournal
  <2>3. CASE h # g
    BY <1>1, <1>3, <2>1, <2>3 DEF WholeJournal
  <2> QED BY <2>2, <2>3
<1>10. WholeUnlessLost'
  BY <1>1, <1>4, <1>9 DEF RootInv, WholeUnlessLost
<1> QED BY <1>5, <1>6, <1>7, <1>8, <1>10 DEF RootInv

LEMMA SiblingsDoneKeepsRoot == ASSUME RootInv, SiblingsDone PROVE RootInv'
<1> USE RootAssumption DEF RootInv, SiblingsDone, StepTo, Refuse, files,
        start, history, Opening, Started
<1>1. RootTypeOK'
  BY DEF RootTypeOK, RootSteps
<1>2. RootIsPinned'
  BY DEF RootIsPinned, ScopesHold
<1>3. AdmittedIsRegistered'
  BY DEF AdmittedIsRegistered
<1>4. OpensOne'
  BY DEF OpensOne
<1>5. OpenedIsSeen'
  BY DEF OpenedIsSeen
<1>6. OpensBeforeWork'
  BY DEF OpensBeforeWork
<1>7. WholeUnlessLost'
  BY DEF WholeUnlessLost, WholeJournal, ScopesHold
<1>8. OwnJournalOpens'
  BY DEF OwnJournalOpens
<1> QED BY <1>1, <1>2, <1>3, <1>4, <1>5, <1>6, <1>7, <1>8

LEMMA StartEndsKeepsRoot == ASSUME RootInv, StartEnds PROVE RootInv'
<1> USE RootAssumption DEF RootInv, StartEnds, StepTo, Refuse, files,
        start, history, Opening, Started
<1>1. RootTypeOK'
  BY DEF RootTypeOK, RootSteps
<1>2. RootIsPinned'
  BY DEF RootIsPinned
<1>3. AdmittedIsRegistered'
  BY DEF AdmittedIsRegistered
<1>4. OpensOne'
  BY DEF OpensOne
<1>5. OpenedIsSeen'
  BY DEF OpenedIsSeen
<1>6. OpensBeforeWork'
  BY DEF OpensBeforeWork
<1>7. WholeUnlessLost'
  BY DEF WholeUnlessLost, WholeJournal, ScopesHold
<1>8. OwnJournalOpens'
  BY DEF OwnJournalOpens
<1> QED BY <1>1, <1>2, <1>3, <1>4, <1>5, <1>6, <1>7, <1>8

LEMMA LossKeepsRoot == ASSUME RootInv, Loss PROVE RootInv'
<1>1. /\ at = "off" /\ at' = "off" /\ lost' # {}
      /\ UNCHANGED <<pin, gpu, own, peers, open, seen, refused, owners, admitted>>
  BY DEF Loss, Lose, start
<1>2. /\ made \in [Indices -> BOOLEAN] /\ record \in [Indices -> BOOLEAN]
      /\ identity \in [Indices -> [owner : 0 .. MaxOwners, ready : BOOLEAN]]
      /\ catalog \in [Indices -> [owner : 0 .. MaxOwners, lists : BOOLEAN]]
      /\ NoFile \in [owner : 0 .. MaxOwners, ready : BOOLEAN] /\ NoFile.owner = 0
      /\ NoCatalog \in [owner : 0 .. MaxOwners, lists : BOOLEAN] /\ NoCatalog.owner = 0
      /\ admitted \subseteq Indices
      /\ \A g \in Indices : identity[g].owner # 0 => made[g]
  BY MaxOwnersIsNat DEF RootInv, RootTypeOK, NoFile, NoCatalog
<1>3. /\ root' = root \/ root' = NoRoot
      /\ made' \in [Indices -> BOOLEAN] /\ record' \in [Indices -> BOOLEAN]
      /\ identity' \in [Indices -> [owner : 0 .. MaxOwners, ready : BOOLEAN]]
      /\ catalog' \in [Indices -> [owner : 0 .. MaxOwners, lists : BOOLEAN]]
      /\ \A g \in Indices : catalog'[g] = catalog[g] \/ catalog'[g].owner = 0
      /\ \A g \in Indices : identity'[g].owner # 0 => made'[g]
  <2>1. CASE root' = NoRoot /\ UNCHANGED <<made, identity, catalog, record>>
    BY <1>2, <2>1
  <2>2. CASE \E g \in Indices :
                 /\ made' = [made EXCEPT ![g] = FALSE]
                 /\ identity' = [identity EXCEPT ![g] = NoFile]
                 /\ catalog' = [catalog EXCEPT ![g] = NoCatalog]
                 /\ record' = [record EXCEPT ![g] = FALSE] /\ UNCHANGED root
    BY <1>2, <2>2
  <2>3. CASE \E g \in Indices : /\ identity' = [identity EXCEPT ![g] = NoFile]
                                /\ UNCHANGED <<root, made, catalog, record>>
    BY <1>2, <2>3
  <2>4. CASE \E g \in Indices : /\ catalog' = [catalog EXCEPT ![g] = NoCatalog]
                                /\ UNCHANGED <<root, made, identity, record>>
    BY <1>2, <2>4
  <2>5. CASE \E g \in Indices : /\ record' = [record EXCEPT ![g] = FALSE]
                                /\ UNCHANGED <<root, made, identity, catalog>>
    BY <1>2, <2>5
  <2> QED BY <2>1, <2>2, <2>3, <2>4, <2>5 DEF Loss
<1>4. RootTypeOK'
  BY <1>1, <1>3 DEF RootInv, RootTypeOK
<1>5. AdmittedIsRegistered'
  BY <1>1, <1>2, <1>3 DEF RootInv, AdmittedIsRegistered
<1>6. RootIsPinned' /\ OpensOne' /\ OpenedIsSeen' /\ OpensBeforeWork'
  BY <1>1 DEF RootInv, RootIsPinned, OpensOne, OpenedIsSeen, OpensBeforeWork, Opening, Started
<1>7. WholeUnlessLost' /\ OwnJournalOpens'
  BY <1>1 DEF WholeUnlessLost, OwnJournalOpens
<1> QED BY <1>4, <1>5, <1>6, <1>7 DEF RootInv

LEMMA RootSteppingKeepsRoot == ASSUME RootInv, [RootNext]_rootVars PROVE RootInv'
<1>1. CASE UNCHANGED rootVars
  <2>1. /\ UNCHANGED <<root, pin, made, identity, catalog, record, at, gpu, own, peers, open, seen>>
        /\ UNCHANGED <<refused, lost, owners, admitted>>
    BY <1>1 DEF rootVars, files, start, history
  <2>2. ScopesHold' = ScopesHold
    BY <2>1 DEF ScopesHold
  <2>3. RootTypeOK' /\ RootIsPinned' /\ AdmittedIsRegistered' /\ OpensOne'
    BY <2>1, <2>2 DEF RootInv, RootTypeOK, RootIsPinned, AdmittedIsRegistered, OpensOne
  <2>4. OpenedIsSeen' /\ OpensBeforeWork' /\ OwnJournalOpens'
    BY <2>1 DEF RootInv, OpenedIsSeen, OpensBeforeWork, OwnJournalOpens
  <2>5. WholeUnlessLost'
    BY <2>1, <2>2 DEF RootInv, WholeUnlessLost, WholeJournal
  <2> QED BY <2>3, <2>4, <2>5 DEF RootInv
<1>2. CASE RootNext
  BY <1>2, StartBeginsKeepsRoot, PrepareRootKeepsRoot, PinRootKeepsRoot, NextGpuKeepsRoot,
     OpenRootKeepsRoot, WriteIdentityKeepsRoot, WriteCatalogKeepsRoot, MarkInitializedKeepsRoot,
     CheckRecordsKeepsRoot, RegisterKeepsRoot, SiblingKeepsRoot, AdmitKeepsRoot,
     SiblingsDoneKeepsRoot, StartEndsKeepsRoot, LossKeepsRoot
     DEF RootNext, OpenJournal
<1> QED BY <1>1, <1>2

LEMMA RootInvariant == RootSpec => []RootInv
<1> QED BY RootInitially, RootSteppingKeepsRoot, PTL DEF RootSpec

\* The files of the journals have their types, and an identity has a directory.
THEOREM RootTypeCorrect == RootSpec => []RootTypeOK
<1>1. RootInv => RootTypeOK
  BY DEF RootInv
<1> QED BY <1>1, RootInvariant, PTL

\* Whatever files were lost between the starts, an agent that works has found the
\* records of every journal that ever admitted an attempt.
THEOREM RootForgetsNothing == RootSpec => []NothingForgotten
<1>1. RootInv => NothingForgotten
  <2>1. SUFFICES ASSUME RootInv, at = "run", NEW g \in admitted
                 PROVE  record[g] /\ g \in seen
    BY DEF NothingForgotten
  <2>2. /\ g \in Indices /\ root # NoRoot /\ ScopesHold /\ open # {} /\ peers = {}
        /\ root[g] # 0 /\ root \in [Indices -> 0 .. MaxOwners]
    BY <2>1 DEF RootInv, RootTypeOK, RootIsPinned, AdmittedIsRegistered, OpensBeforeWork, Started
  <2>3. identity[g].owner # 0
    BY <2>2 DEF ScopesHold
  <2>4. made[g]
    BY <2>1, <2>2, <2>3 DEF RootInv, RootTypeOK
  <2> QED BY <2>1, <2>2, <2>4 DEF RootInv, OpenedIsSeen
<1> QED BY <1>1, RootInvariant, PTL

\* Between any two writes of its creation a journal can be opened again when its turn
\* comes: a start refuses to open one of its own only when files were lost.  That the
\* look at siblings refuses an empty one before is RootSibling.cfg.
THEOREM RootOpensItsOwn == RootSpec => []OwnJournalOpens
<1>1. RootInv => OwnJournalOpens
  BY DEF RootInv
<1> QED BY <1>1, RootInvariant, PTL
=============================================================================
