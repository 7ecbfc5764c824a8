--------------------------- MODULE GuiController ---------------------------
(***************************************************************************)
(* The processes that run an agent: the app with its window (gui.go) and    *)
(* the start and status commands (main.go), which share the lock of the     *)
(* agent process, the journals of the workers and, in the app, the flags of *)
(* the controller and the cancel function of the agent.                     *)
(*                                                                          *)
(* A worker is taken from its start to the end of its Run, which returns    *)
(* when its context is cancelled and closes the journal if everything was   *)
(* verified to be stopped.  The window, its log and its requests' checks    *)
(* are left out.                                                            *)
(***************************************************************************)
EXTENDS Naturals

CONSTANTS
  Workers, \* GPUs of the machine, a worker each
  NoApp

Apps == {"gui", "cli"}  \* the app, and the command line
ASSUME GuiAssumption == NoApp \notin Apps

VARIABLES
  gui,       \* the app: up, closing (it will close the server), gone
  busy, running, \* the flags of the controller
  acting,    \* the handler that is in runAction and withOutput: off, acting, probed
  stale,     \* no ping of the window came for 20 seconds
  agent,     \* where cmdStartWithClients is, in each process
  stopFn,    \* agentStop is set, in each process
  cancelled, \* the context it cancels
  working,   \* the workers whose Run has not returned
  lock,      \* who holds the lock of the agent process
  probe,     \* the status command: off, probing
  journals,  \* the process that has the journal of each worker open
  told,      \* the last answer the user got
  stopAsked      \* history: the user stopped the agent while it was running

flags == <<gui, busy, running, acting, stale>>
guiVars == <<flags, agent, stopFn, cancelled, working, lock, probe, journals, told, stopAsked>>

Up(p) == p = "gui" => gui # "gone"
At(p, label) == agent[p] = label
Goes(p, label) == agent' = [agent EXCEPT ![p] = label]

(***************************************************************************)
(* The window.                                                              *)
(***************************************************************************)

ApiStart ==
  /\ gui # "gone" /\ ~running /\ busy = ""
  /\ busy' = "start" /\ stopAsked' = FALSE
  /\ Goes("gui", "spawned")
  /\ UNCHANGED <<gui, running, acting, stale, stopFn, cancelled, working, lock, probe, journals,
                 told>>

\* startAgent, up to the call of cmdStartWithClients.
StartAgent ==
  /\ At("gui", "spawned")
  /\ running' = TRUE /\ busy' = ""
  /\ Goes("gui", "lock")
  /\ UNCHANGED <<gui, acting, stale, stopFn, cancelled, working, lock, probe, journals, told,
                 stopAsked>>

\* requestAgentStop: the answer to Stop, and what unenrolling does first.
ApiStop ==
  /\ gui # "gone"
  /\ cancelled' = [cancelled EXCEPT !["gui"] = @ \/ stopFn["gui"]]
  /\ told' = IF stopFn["gui"] THEN "stopping" ELSE "not running"
  /\ stopAsked' = (stopAsked \/ running)
  /\ UNCHANGED <<flags, agent, stopFn, working, lock, probe, journals>>

\* Mutant of MayAct: an action may begin beside the agent.
Mut_MayAct == gui # "gone" /\ busy = ""
MayAct == gui # "gone" /\ busy = "" /\ ~running

\* runAction of enroll, setup and status.
RunAction(name) ==
  /\ MayAct
  /\ busy' = name /\ acting' = "acting"
  /\ UNCHANGED <<gui, running, stale, agent, stopFn, cancelled, working, lock, probe, journals,
                 told, stopAsked>>

\* Mutant of ActionEnds: a status action stays busy.
Mut_ActionEnds ==
  /\ acting # "off" /\ lock # "gui status"
  /\ busy' = (IF busy = "status" THEN busy ELSE "") /\ acting' = "off"
  /\ UNCHANGED <<gui, running, stale, agent, stopFn, cancelled, working, lock, probe, journals,
                 told, stopAsked>>

ActionEnds ==
  /\ acting # "off" /\ lock # "gui status"
  /\ busy' = "" /\ acting' = "off"
  /\ UNCHANGED <<gui, running, stale, agent, stopFn, cancelled, working, lock, probe, journals,
                 told, stopAsked>>

Ping ==
  /\ gui # "gone" /\ stale' = FALSE
  /\ UNCHANGED <<gui, busy, running, acting, agent, stopFn, cancelled, working, lock, probe,
                 journals, told, stopAsked>>

PingsStop ==
  /\ gui # "gone" /\ stale' = TRUE
  /\ UNCHANGED <<gui, busy, running, acting, agent, stopFn, cancelled, working, lock, probe,
                 journals, told, stopAsked>>

\* shouldExit, under the controller's lock; the server is closed after it.
ShouldExit ==
  /\ gui = "up" /\ ~running /\ busy = "" /\ stale
  /\ gui' = "closing"
  /\ UNCHANGED <<busy, running, acting, stale, agent, stopFn, cancelled, working, lock, probe,
                 journals, told, stopAsked>>

(***************************************************************************)
(* cmdStartWithClients, in the app or in a start command.                   *)
(***************************************************************************)

CliStart ==
  /\ At("cli", "off") /\ Goes("cli", "lock")
  /\ UNCHANGED <<flags, stopFn, cancelled, working, lock, probe, journals, told, stopAsked>>

TakeLock(p) ==
  /\ At(p, "lock")
  /\ IF lock = NoApp
       THEN lock' = p /\ Goes(p, "open") /\ UNCHANGED told
       ELSE told' = "another agent is running" /\ Goes(p, "return") /\ UNCHANGED lock
  /\ UNCHANGED <<flags, stopFn, cancelled, working, probe, journals, stopAsked>>

\* Mutant of OpenClients: a journal that cannot be opened is done without.
Mut_OpenClients(p) ==
  /\ At(p, "open") /\ Goes(p, "ready")
  /\ journals' = [w \in Workers |-> IF journals[w] = NoApp THEN p ELSE journals[w]]
  /\ UNCHANGED <<flags, stopFn, cancelled, working, lock, probe, told, stopAsked>>

\* Loading, recovery, and NewClients, which opens the journals one by one and
\* gives up at the first that fails: those opened before it stay open.
OpenClients(p) ==
  /\ At(p, "open")
  /\ \/ /\ \A w \in Workers : journals[w] = NoApp
        /\ journals' = [w \in Workers |-> p] /\ Goes(p, "ready")
     \/ /\ \E opened \in SUBSET {w \in Workers : journals[w] = NoApp} :
             /\ opened # Workers
             /\ journals' = [w \in Workers |-> IF w \in opened THEN p ELSE journals[w]]
        /\ Goes(p, "unlock")
  /\ UNCHANGED <<flags, stopFn, cancelled, working, lock, probe, told, stopAsked>>

SetStop(p) ==
  /\ At(p, "ready")
  /\ stopFn' = [stopFn EXCEPT ![p] = TRUE]
  /\ cancelled' = [cancelled EXCEPT ![p] = FALSE]
  /\ working' = [working EXCEPT ![p] = Workers]
  /\ Goes(p, "work")
  /\ UNCHANGED <<flags, lock, probe, journals, told, stopAsked>>

\* Run returns after StopAll; the journal is closed only when that succeeds.
WorkerEnds(p, w) ==
  /\ w \in working[p] /\ cancelled[p]
  /\ working' = [working EXCEPT ![p] = @ \ {w}]
  /\ journals' \in {journals, [journals EXCEPT ![w] = NoApp]}
  /\ UNCHANGED <<flags, agent, stopFn, cancelled, lock, probe, told, stopAsked>>

\* Mutant of AllEnded: the journals of the workers are waited for.
Mut_AllEnded(p) == working[p] = {} /\ \A w \in Workers : journals[w] # p
AllEnded(p) == working[p] = {}

\* Mutant of WorkersEnded: the cancel function stays.
Mut_WorkersEnded(p) ==
  /\ At(p, "work") /\ AllEnded(p) /\ Goes(p, "unlock")
  /\ UNCHANGED <<flags, stopFn, cancelled, working, lock, probe, journals, told, stopAsked>>

WorkersEnded(p) ==
  /\ At(p, "work") /\ AllEnded(p)
  /\ stopFn' = [stopFn EXCEPT ![p] = FALSE]
  /\ Goes(p, "unlock")
  /\ UNCHANGED <<flags, cancelled, working, lock, probe, journals, told, stopAsked>>

Unlock(p) ==
  /\ At(p, "unlock") /\ Goes(p, "return") /\ lock' = NoApp
  /\ UNCHANGED <<flags, stopFn, cancelled, working, probe, journals, told, stopAsked>>

\* The files a process that ends had open are closed with it.
ClosedBy(p) == [w \in Workers |-> IF journals[w] = p THEN NoApp ELSE journals[w]]

\* Back in startAgent; or the command ends.
Return(p) ==
  /\ At(p, "return") /\ Goes(p, "off")
  /\ IF p = "gui"
       THEN running' = FALSE /\ busy' = "" /\ stopAsked' = FALSE /\ UNCHANGED journals
       ELSE journals' = ClosedBy(p) /\ UNCHANGED <<running, busy, stopAsked>>
  /\ UNCHANGED <<gui, acting, stale, stopFn, cancelled, working, lock, probe, told>>

\* An interrupt of the start command cancels the context once there is one.
Interrupt ==
  /\ At("cli", "work")
  /\ cancelled' = [cancelled EXCEPT !["cli"] = TRUE]
  /\ UNCHANGED <<flags, agent, stopFn, working, lock, probe, journals, told, stopAsked>>

\* A process ends with all it has: the command is killed, or the app, whose
\* window was closed, closes its server.
Exit(p) ==
  /\ IF p = "gui"
       THEN gui = "closing" /\ gui' = "gone" /\ running' = FALSE /\ busy' = "" /\ acting' = "off"
       ELSE ~At("cli", "off") /\ UNCHANGED <<gui, running, busy, acting>>
  /\ agent' = [agent EXCEPT ![p] = "off"]
  /\ stopFn' = [stopFn EXCEPT ![p] = FALSE]
  /\ working' = [working EXCEPT ![p] = {}]
  /\ lock' = IF lock = p \/ (p = "gui" /\ lock = "gui status") THEN NoApp ELSE lock
  /\ journals' = ClosedBy(p)
  /\ UNCHANGED <<stale, cancelled, probe, told, stopAsked>>

(***************************************************************************)
(* agentIsRunning, which tries the lock and lets it go: in the status       *)
(* command and in the status action of the app.                             *)
(***************************************************************************)

Probe(name) ==
  /\ IF name = "gui status" THEN busy = "status" /\ acting = "acting"
                             ELSE probe = "off"
  /\ IF lock = NoApp
       THEN lock' = name /\ UNCHANGED told
       ELSE told' = "process running" /\ UNCHANGED lock
  /\ probe' = IF name = "cli status" /\ lock = NoApp THEN "probing" ELSE probe
  /\ acting' = IF name = "gui status" THEN "probed" ELSE acting
  /\ UNCHANGED <<gui, busy, running, stale, agent, stopFn, cancelled, working, journals, stopAsked>>

ProbeEnds(name) ==
  /\ lock = name /\ lock' = NoApp
  /\ told' = "process not running"
  /\ probe' = IF name = "cli status" THEN "off" ELSE probe
  /\ UNCHANGED <<flags, agent, stopFn, cancelled, working, journals, stopAsked>>

GuiInit ==
  /\ gui = "up" /\ busy = "" /\ running = FALSE /\ acting = "off" /\ stale = FALSE
  /\ agent = [p \in Apps |-> "off"]
  /\ stopFn = [p \in Apps |-> FALSE] /\ cancelled = [p \in Apps |-> FALSE]
  /\ working = [p \in Apps |-> {}]
  /\ lock = NoApp /\ probe = "off" /\ journals = [w \in Workers |-> NoApp]
  /\ told = "nothing" /\ stopAsked = FALSE

Actions == {"enroll", "setup", "status"}
Probes == {"gui status", "cli status"}

Step(p) ==
  \/ TakeLock(p) \/ OpenClients(p) \/ SetStop(p)
  \/ \E w \in Workers : WorkerEnds(p, w)
  \/ WorkersEnded(p) \/ Unlock(p) \/ Return(p)

GuiNext ==
  \/ ApiStart \/ StartAgent \/ ApiStop \/ ActionEnds \/ Ping \/ PingsStop \/ ShouldExit
  \/ \E name \in Actions : RunAction(name)
  \/ CliStart \/ Interrupt
  \/ \E p \in Apps : Step(p) \/ Exit(p)
  \/ \E name \in Probes : Probe(name) \/ ProbeEnds(name)

GuiSpec == GuiInit /\ [][GuiNext]_guiVars

\* A process that was started runs on; users need not do anything.
GuiFairness ==
  /\ WF_guiVars(StartAgent) /\ WF_guiVars(ActionEnds)
  /\ \A p \in Apps : WF_guiVars(Step(p))
  /\ \A name \in Probes : WF_guiVars(ProbeEnds(name))

GuiFairSpec == GuiSpec /\ GuiFairness

(***************************************************************************)
(* Properties.                                                              *)
(***************************************************************************)

Labels == {"off", "spawned", "lock", "open", "ready", "work", "unlock", "return"}
Answers == {"nothing", "stopping", "not running", "another agent is running",
            "process running", "process not running"}

GuiTypeOK ==
  /\ gui \in {"up", "closing", "gone"} /\ busy \in Actions \cup {"", "start"}
  /\ {running, stale, stopAsked} \subseteq BOOLEAN /\ acting \in {"off", "acting", "probed"}
  /\ agent \in [Apps -> Labels]
  /\ stopFn \in [Apps -> BOOLEAN] /\ cancelled \in [Apps -> BOOLEAN]
  /\ working \in [Apps -> SUBSET Workers]
  /\ \A p \in Apps : stopFn[p] => At(p, "work")
  /\ lock \in Apps \cup Probes \cup {NoApp} /\ probe \in {"off", "probing"}
  /\ journals \in [Workers -> Apps \cup {NoApp}]
  /\ told \in Answers

\* Two processes never run workers at once, and none runs beside a worker of the
\* other process whose stop was not verified (client.go:361).
NoAgentBesideAnother ==
  \A p \in Apps : working[p] # {} =>
    \A w \in Workers : journals[w] \in {p, NoApp} /\ (w \in working[p] => journals[w] = p)

\* withOutput puts a pipe in the place of the standard output and puts back what
\* was there: an action and an agent that overlap leave a closed pipe behind.
OutputIsSwappedOnce == ~(acting # "off" /\ running)

\* A stop that reached the agent ends it, in the window too.
CancelEndsAgent == (cancelled["gui"] /\ At("gui", "work")) ~> ~running

\* No action and no start keeps the window busy for ever.
BusyClears == busy # "" ~> busy = ""

\* gui.html:79: "Stop ends the process".
StopEndsTheProcess == stopAsked ~> ~running

\* gui.html:79 again: "Keep this window open", and the agent runs on: the app
\* does not end by itself under an agent.
AppStaysWithItsAgent ==
  [][gui' = "gone" => gui = "gone" \/ At("gui", "off")]_guiVars

\* agent_lock_unix.go:31: "another RunGPU agent is already running".
RefusedForAnAgent ==
  [][told' = "another agent is running" /\ told' # told => lock \in Apps]_guiVars
=============================================================================
