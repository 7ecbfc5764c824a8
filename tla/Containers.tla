---------------------------- MODULE Containers ----------------------------
(***************************************************************************)
(* Which containers, images and models the agent makes, and which of them   *)
(* it removes: the verified removal of an attempt's container (internal/    *)
(* dockermgr/ownership.go), the pool's cleanup of tracked assets (internal/ *)
(* job/cleanup.go) and `cleanup` on the command line (main.go).             *)
(*                                                                          *)
(* Every docker command goes to the daemon that the client's context names  *)
(* at that moment, which may change between two commands.  The user of the  *)
(* machine makes, renames and removes containers too.                       *)
(***************************************************************************)
EXTENDS Naturals, FiniteSets, Sequences, SequencesExt

CONSTANTS
  Attempts, Daemons, Images, Models,
  Names,        \* what containers are called: an attempt's own name, and others
  UserImages,   \* what the user had before
  UserModels,
  Commands,     \* command lines: sequences of the parts that are cleaned
  NoDaemon,
  MaxBoxes,     \* bound: containers ever made
  MaxSwitches,  \* bound: changes of the client's context
  MaxPulls      \* bound: models pulled by native jobs

ASSUME ContainersAssumption ==
  /\ UserImages \subseteq Images /\ UserModels \subseteq Models
  /\ Commands \subseteq Seq({"containers", "images", "ollama"})
  /\ Attempts \subseteq Names /\ Attempts \cap {"user"} = {}
  /\ {MaxBoxes, MaxSwitches, MaxPulls} \subseteq Nat

VARIABLES
  boxes,    \* the containers of all daemons; an ID is never used again
  born,     \* how many there were
  context,  \* the daemon docker talks to
  phase,    \* each attempt: new, ready, bound, checked, running, over
  bound,    \* the daemon the journal has recorded for it
  removal,  \* what a removal of its container does next
  found,    \* the ID it works with
  images, models,
  marked,   \* the markers of trackManagedAsset
  pulled,   \* what the agent ever pulled
  command,  \* the parts the command line has still to clean
  listed,   \* the names it has still to remove
  due,      \* what the agent had pulled when the command began
  switches, pulls

docker == <<boxes, born, context, switches>>
attempts == <<phase, bound, removal, found>>
assets == <<images, models, marked, pulled, pulls>>
cli == <<command, listed, due>>
boxesVars == <<docker, attempts, assets, cli>>

\* The name of an attempt's container is unique to it; the user may choose it too.
Box == [id : 1 .. MaxBoxes, name : Names, owner : Attempts \cup {"user"},
        daemon : Daemons, image : Images]
Here == {b \in boxes : b.daemon = context}
\* Mutant of OfAttempt: containers are looked up by the name in the record.
Mut_OfAttempt(a) == {b \in Here : b.name = a}
OfAttempt(a) == {b \in Here : b.owner = a}

(***************************************************************************)
(* An attempt: Prepare, AssignDockerDaemon, Run.                            *)
(***************************************************************************)

Mark(a, image) ==
  /\ marked' = marked \cup {image} /\ phase' = [phase EXCEPT ![a] = "ready"]

\* Mutant of Found: the image a job uses is marked although it was there.
Mut_Found(a, image) == Mark(a, image) /\ UNCHANGED <<images, pulled>>
Found(a, image) == phase' = [phase EXCEPT ![a] = "ready"] /\ UNCHANGED <<images, pulled, marked>>

\* An image that is not there is pulled and marked; a marker that cannot be
\* written fails the attempt but leaves the image.
Prepare(a, image) ==
  /\ phase[a] = "new"
  /\ IF image \in images
       THEN Found(a, image)
       ELSE /\ images' = images \cup {image} /\ pulled' = pulled \cup {image}
            /\ \/ Mark(a, image)
               \/ phase' = [phase EXCEPT ![a] = "over"] /\ UNCHANGED marked
  /\ UNCHANGED <<docker, bound, removal, found, models, pulls, cli>>

Assign(a) ==
  /\ phase[a] = "ready"
  /\ phase' = [phase EXCEPT ![a] = "bound"] /\ bound' = [bound EXCEPT ![a] = context]
  /\ UNCHANGED <<docker, removal, found, assets, cli>>

CheckDaemon(a) ==
  /\ phase[a] = "bound"
  /\ phase' = [phase EXCEPT ![a] = IF context = bound[a] THEN "checked" ELSE "over"]
  /\ UNCHANGED <<docker, bound, removal, found, assets, cli>>

\* docker run fails if the name is taken; otherwise the container carries the
\* labels of its attempt from its creation on.
Run(a, image) ==
  /\ phase[a] = "checked" /\ born < MaxBoxes
  /\ IF image \in images /\ ~\E b \in Here : b.name = a
       THEN /\ boxes' = boxes \cup
                 {[id |-> born + 1, name |-> a, owner |-> a, daemon |-> context, image |-> image]}
            /\ born' = born + 1 /\ phase' = [phase EXCEPT ![a] = "running"]
       ELSE phase' = [phase EXCEPT ![a] = "over"] /\ UNCHANGED <<boxes, born>>
  /\ UNCHANGED <<context, switches, bound, removal, found, assets, cli>>

RunEnds(a) ==
  /\ phase[a] = "running" /\ phase' = [phase EXCEPT ![a] = "over"]
  /\ UNCHANGED <<docker, bound, removal, found, assets, cli>>

\* A native job: `ollama pull`, marked afterwards.
PullModel(model) ==
  /\ pulls < MaxPulls /\ pulls' = pulls + 1 /\ model \notin models
  /\ models' = models \cup {model} /\ pulled' = pulled \cup {model}
  /\ marked' \in {marked, marked \cup {model}}
  /\ UNCHANGED <<docker, attempts, images, cli>>

(***************************************************************************)
(* RemoveOwnedAndVerify, for an attempt whose goroutine is joined.          *)
(***************************************************************************)

RemovalAt(a, step) == removal' = [removal EXCEPT ![a] = step]
Removing(a, step) == removal[a] = step /\ UNCHANGED <<phase, bound, assets, cli>>

\* ownedContainer asks for the daemon, here and after the removal, ...
AskDaemon(a) ==
  /\ \/ Removing(a, "idle") /\ phase[a] = "over" /\ bound[a] # NoDaemon
     \/ Removing(a, "again")
  /\ RemovalAt(a, IF context # bound[a] THEN "idle"
             ELSE IF removal[a] = "idle" THEN "inventory" ELSE "verify")
  /\ UNCHANGED <<docker, found>>

\* ... and for the containers with the attempt's labels, in a second command.
Inventory(a) ==
  /\ Removing(a, "inventory")
  /\ \/ OfAttempt(a) = {} /\ RemovalAt(a, "verified") /\ UNCHANGED found
     \/ /\ Cardinality(OfAttempt(a)) = 1 /\ RemovalAt(a, "inspect")
        /\ found' = [found EXCEPT ![a] = (CHOOSE b \in OfAttempt(a) : TRUE).id]
     \/ RemovalAt(a, "idle") /\ UNCHANGED found  \* an error, or several
  /\ UNCHANGED docker

Inspect(a) ==
  /\ Removing(a, "inspect")
  /\ RemovalAt(a, IF \E b \in OfAttempt(a) : b.id = found[a] THEN "remove" ELSE "idle")
  /\ UNCHANGED <<docker, found>>

\* Mutant of Named: the container is removed by its name.
Mut_Named(a) == {b \in Here : b.name = a}
Named(a) == {b \in Here : b.id = found[a]}

RemoveFound(a) ==
  /\ Removing(a, "remove")
  /\ IF Named(a) = {} THEN RemovalAt(a, "idle") /\ UNCHANGED boxes
     ELSE RemovalAt(a, "again") /\ boxes' = boxes \ Named(a)
  /\ UNCHANGED <<born, context, switches, found>>

Verify(a) ==
  /\ Removing(a, "verify")
  /\ RemovalAt(a, IF OfAttempt(a) = {} THEN "verified" ELSE "idle")
  /\ UNCHANGED <<docker, found>>

Removal(a) == AskDaemon(a) \/ Inventory(a) \/ Inspect(a) \/ RemoveFound(a) \/ Verify(a)

(***************************************************************************)
(* ExecuteCleanup for the pool, with the maintenance gate: nothing runs.    *)
(***************************************************************************)

Idle == \A a \in Attempts : phase[a] \in {"new", "over"} /\ removal[a] \in {"idle", "verified"}

\* Each marked asset is removed with its marker; an error ends the cleanup, so
\* any of them may be left.
PoolCleanup ==
  /\ Idle /\ marked # {}
  /\ \E gone \in SUBSET marked :
       /\ \A image \in gone \cap Images : \A b \in Here : b.image # image
       /\ images' = images \ gone /\ models' = models \ gone /\ marked' = marked \ gone
  /\ UNCHANGED <<docker, attempts, pulled, pulls, cli>>

(***************************************************************************)
(* The command line, beside everything else.                                *)
(***************************************************************************)

CleanupBegins ==
  /\ command = <<>> /\ listed = {}
  /\ command' \in Commands
  /\ due' = pulled \cap (images \cup models)
  /\ UNCHANGED <<docker, attempts, assets, listed>>

Part(part) == command # <<>> /\ Head(command) = part /\ UNCHANGED due

\* ListTokenizeContainers: by the names.
CleanupContainers ==
  /\ Part("containers") /\ listed = {}
  /\ IF Here = {} THEN command' = Tail(command) /\ UNCHANGED listed
     ELSE listed' = {b.name : b \in Here} /\ UNCHANGED command
  /\ UNCHANGED <<docker, attempts, assets>>

\* ... which are stopped and removed one by one, whatever has them by then.
RemoveListed ==
  /\ Part("containers")
  /\ \E name \in listed :
       /\ boxes' = {b \in boxes : b.name # name \/ b.daemon # context}
       /\ listed' = listed \ {name}
       /\ command' = IF listed = {name} THEN Tail(command) ELSE command
  /\ UNCHANGED <<born, context, switches, attempts, assets>>

\* ListTokenizeImages: what the containers there are were made from.  One that
\* a running container uses may stay.
CleanupImages ==
  /\ Part("images") /\ command' = Tail(command)
  /\ \E gone \in SUBSET {b.image : b \in Here} : images' = images \ gone
  /\ UNCHANGED <<docker, attempts, models, marked, pulled, pulls, listed>>

CleanupOllama ==
  /\ Part("ollama") /\ command' = Tail(command)
  /\ models' = {}
  /\ UNCHANGED <<docker, attempts, images, marked, pulled, pulls, listed>>

CommandStep == CleanupBegins \/ CleanupContainers \/ RemoveListed \/ CleanupImages \/ CleanupOllama

(***************************************************************************)
(* The user of the machine.                                                 *)
(***************************************************************************)

UserRuns(name, image) ==
  /\ born < MaxBoxes /\ born' = born + 1
  /\ image \in images /\ ~\E b \in Here : b.name = name
  /\ boxes' = boxes \cup
       {[id |-> born + 1, name |-> name, owner |-> "user", daemon |-> context, image |-> image]}
  /\ UNCHANGED <<context, switches, attempts, assets, cli>>

UserRenames(b, name) ==
  /\ ~\E c \in Here : c.name = name
  /\ boxes' = (boxes \ {b}) \cup {[b EXCEPT !.name = name]}
  /\ UNCHANGED <<born, context, switches, attempts, assets, cli>>

UserRemoves(b) ==
  /\ boxes' = boxes \ {b}
  /\ UNCHANGED <<born, context, switches, attempts, assets, cli>>

UserSwitches ==
  /\ switches < MaxSwitches /\ switches' = switches + 1
  /\ context' \in Daemons \ {context}
  /\ UNCHANGED <<boxes, born, attempts, assets, cli>>

User ==
  \/ \E name \in Names, image \in Images : UserRuns(name, image)
  \/ \E b \in Here : UserRemoves(b) \/ \E name \in Names : UserRenames(b, name)
  \/ UserSwitches

BoxesInit ==
  /\ boxes = {} /\ born = 0 /\ context \in Daemons /\ switches = 0
  /\ phase = [a \in Attempts |-> "new"] /\ bound = [a \in Attempts |-> NoDaemon]
  /\ removal = [a \in Attempts |-> "idle"] /\ found = [a \in Attempts |-> 0]
  /\ images = UserImages /\ models = UserModels
  /\ marked = {} /\ pulled = {} /\ pulls = 0
  /\ command = <<>> /\ listed = {} /\ due = {}

Attempt(a) ==
  \/ \E image \in Images : Prepare(a, image) \/ Run(a, image)
  \/ Assign(a) \/ CheckDaemon(a) \/ RunEnds(a) \/ Removal(a)

BoxesNext ==
  \/ \E a \in Attempts : Attempt(a)
  \/ \E model \in Models : PullModel(model)
  \/ PoolCleanup \/ CommandStep \/ User

BoxesSpec == BoxesInit /\ [][BoxesNext]_boxesVars

(***************************************************************************)
(* Properties.                                                              *)
(***************************************************************************)

BoxesTypeOK ==
  /\ boxes \subseteq Box /\ born \in 0 .. MaxBoxes
  /\ \A b, c \in boxes : b.id = c.id => b = c
  /\ context \in Daemons /\ bound \in [Attempts -> Daemons \cup {NoDaemon}]
  /\ phase \in [Attempts -> {"new", "ready", "bound", "checked", "running", "over"}]
  /\ removal \in [Attempts -> {"idle", "inventory", "inspect", "remove", "again", "verify",
                               "verified"}]
  /\ found \in [Attempts -> 0 .. MaxBoxes]
  /\ images \subseteq Images /\ models \subseteq Models
  /\ marked \subseteq pulled /\ pulled \subseteq Images \cup Models
  /\ listed \subseteq Names

\* ownership_test.go:12, TestOwnedRemovalRequiresExactIdentityAndUsesContainerID:
\* the removal of an attempt never takes another's container, although names are
\* given again, and changed, between its commands.
RemovesOnlyItsOwn ==
  [][\A a \in Attempts : RemoveFound(a) => \A b \in boxes \ boxes' : b.owner = a]_boxesVars

\* ownership.go:32: "Docker daemon identity differs from the durable execution
\* owner".  A removal that was verified leaves no container of the attempt, on
\* any daemon.
VerifiedMeansGone ==
  \A a \in Attempts : removal[a] = "verified" => ~\E b \in boxes : b.owner = a

\* ... as long as the owner of the machine does not change docker's context.
VerifiedMeansGoneInContext == switches = 0 => VerifiedMeansGone

\* main.go:910 and 912: --images and --ollama remove what was "pulled by the
\* agent"; cleanup.go keeps markers for it.  Nothing else goes.
RemovesOnlyPulled ==
  [][(images \ images') \cup (models \ models') \subseteq pulled]_boxesVars

\* main.go:903: "remove everything (full uninstall)".  What the agent had pulled
\* when the command began is gone when it ends.
AllIsRemoved ==
  [][command # <<>> /\ command' = <<>> => due \cap (images' \cup models') = {}]_boxesVars
=============================================================================
