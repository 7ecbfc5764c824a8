---------------------------- MODULE Owner_proofs ----------------------------
(***************************************************************************)
(* Proofs about what the owner of a machine does, for any number of         *)
(* workers, commands, machines and tokens: the processes that run an agent  *)
(* (GuiController), the files that start it (ConfigStore) and the hours it  *)
(* earns in (Schedule).                                                     *)
(***************************************************************************)
EXTENDS Schedule, ConfigStore, GuiController, WellFoundedInduction, TLAPS

(***************************************************************************)
(* The processes that run an agent.                                         *)
(***************************************************************************)

\* From its lock to its unlock a process is alone with the journals.
Locked == {"open", "ready", "work", "unlock"}
LockIsHeld == \A p \in Apps : agent[p] \in Locked => lock = p

\* Workers run only in their place, and there every journal is the process's own
\* or closed.
WorkersInPlace ==
  \A p \in Apps :
    /\ working[p] # {} => At(p, "work")
    /\ At(p, "ready") => \A w \in Workers : journals[w] = p
    /\ At(p, "work") => \A w \in Workers : /\ journals[w] \in {p, NoApp}
                                           /\ w \in working[p] => journals[w] = p

\* The window's flags tell what its process does: busy with a start, or running
\* an agent, or in an action.
FlagsTell ==
  /\ At("gui", "spawned") => busy = "start"
  /\ ~running => agent["gui"] \in {"off", "spawned"}
  /\ busy = "start" => At("gui", "spawned")
  /\ acting # "off" => busy \in Actions /\ ~running

GuiInv == GuiTypeOK /\ LockIsHeld /\ WorkersInPlace /\ FlagsTell

LEMMA GuiInitially == ASSUME GuiInit PROVE GuiInv
BY GuiAssumption DEF GuiInit, GuiInv, GuiTypeOK, LockIsHeld, WorkersInPlace, FlagsTell, At,
   Labels, Answers, Actions, Locked, Probes, Apps

LEMMA ApiStartKeepsGui == ASSUME GuiInv, ApiStart PROVE GuiInv'
<1> USE DEF GuiInv, ApiStart, flags
<1>1. GuiTypeOK'
  BY GuiAssumption
     DEF GuiTypeOK, At, Goes, Labels, Answers, Actions, Probes, Apps, ClosedBy, AllEnded, FlagsTell
<1>2. LockIsHeld'
  BY GuiAssumption DEF GuiTypeOK, LockIsHeld, Locked, At, Goes, Labels, Apps, Probes
<1>3. WorkersInPlace'
  BY GuiAssumption
     DEF GuiTypeOK, LockIsHeld, WorkersInPlace, FlagsTell, Locked, At, Goes, Labels, Apps,
         ClosedBy, AllEnded
<1>4. FlagsTell'
  BY DEF GuiTypeOK, FlagsTell, At, Goes, Labels, Apps, Actions, AllEnded
<1> QED BY <1>1, <1>2, <1>3, <1>4

LEMMA StartAgentKeepsGui == ASSUME GuiInv, StartAgent PROVE GuiInv'
<1>1. /\ agent["gui"] = "spawned" /\ agent' = [agent EXCEPT !["gui"] = "lock"]
      /\ running' = TRUE /\ busy' = ""
      /\ UNCHANGED <<gui, acting, stale, stopFn, cancelled, working, lock, probe, journals,
                     told, stopAsked>>
  BY DEF StartAgent, At, Goes
<1>2. /\ agent' \in [Apps -> Labels] /\ agent'["gui"] = "lock"
      /\ \A q \in Apps : q # "gui" => agent'[q] = agent[q]
  BY <1>1 DEF GuiInv, GuiTypeOK, Labels, Apps
<1>3. GuiTypeOK'
  <2>1. \A q \in Apps : stopFn'[q] => agent'[q] = "work"
    BY <1>1, <1>2 DEF GuiInv, GuiTypeOK, At
  <2> QED BY <1>1, <1>2, <2>1 DEF GuiInv, GuiTypeOK, At
<1>4. LockIsHeld'
  BY <1>1, <1>2 DEF GuiInv, LockIsHeld, Locked
<1>5. WorkersInPlace'
  BY <1>1, <1>2 DEF GuiInv, WorkersInPlace, At
<1>6. FlagsTell'
  BY <1>1, <1>2 DEF GuiInv, FlagsTell, At, Actions
<1> QED BY <1>3, <1>4, <1>5, <1>6 DEF GuiInv

LEMMA ApiStopKeepsGui == ASSUME GuiInv, ApiStop PROVE GuiInv'
<1>1. /\ cancelled' \in [Apps -> BOOLEAN]
      /\ UNCHANGED <<flags, agent, stopFn, working, lock, probe, journals>>
  BY DEF ApiStop, GuiInv, GuiTypeOK, Apps
<1>2. told' \in Answers /\ stopAsked' \in BOOLEAN
  BY DEF ApiStop, GuiInv, GuiTypeOK, Answers
<1>3. GuiTypeOK'
  BY <1>1, <1>2 DEF GuiInv, GuiTypeOK, At, flags
<1>4. LockIsHeld' /\ WorkersInPlace' /\ FlagsTell'
  BY <1>1 DEF GuiInv, LockIsHeld, WorkersInPlace, FlagsTell, At, flags
<1> QED BY <1>3, <1>4 DEF GuiInv

LEMMA RunActionKeepsGui == ASSUME GuiInv, NEW name \in Actions, RunAction(name) PROVE GuiInv'
BY GuiAssumption
   DEF RunAction, GuiInv, GuiTypeOK, LockIsHeld, WorkersInPlace, FlagsTell, flags, Locked, At, Goes,
       Labels, Answers, Actions, Probes, Apps, MayAct

LEMMA ActionEndsKeepsGui == ASSUME GuiInv, ActionEnds PROVE GuiInv'
BY GuiAssumption
   DEF ActionEnds, GuiInv, GuiTypeOK, LockIsHeld, WorkersInPlace, FlagsTell, flags, Locked, At, Goes,
       Labels, Answers, Actions, Probes, Apps, MayAct

LEMMA PingKeepsGui == ASSUME GuiInv, Ping PROVE GuiInv'
<1> USE DEF GuiInv, Ping, flags
<1>1. GuiTypeOK'
  BY GuiAssumption
     DEF GuiTypeOK, At, Goes, Labels, Answers, Actions, Probes, Apps, ClosedBy, AllEnded
<1>2. LockIsHeld'
  BY GuiAssumption DEF GuiTypeOK, LockIsHeld, Locked, At, Goes, Labels, Apps, Probes
<1>3. WorkersInPlace'
  BY GuiAssumption
     DEF GuiTypeOK, LockIsHeld, WorkersInPlace, FlagsTell, Locked, At, Goes, Labels, Apps,
         ClosedBy, AllEnded
<1>4. FlagsTell'
  BY DEF GuiTypeOK, FlagsTell, At, Goes, Labels, Apps, Actions, AllEnded
<1> QED BY <1>1, <1>2, <1>3, <1>4

LEMMA PingsStopKeepsGui == ASSUME GuiInv, PingsStop PROVE GuiInv'
<1> USE DEF GuiInv, PingsStop, flags
<1>1. GuiTypeOK'
  BY GuiAssumption
     DEF GuiTypeOK, At, Goes, Labels, Answers, Actions, Probes, Apps, ClosedBy, AllEnded
<1>2. LockIsHeld'
  BY GuiAssumption DEF GuiTypeOK, LockIsHeld, Locked, At, Goes, Labels, Apps, Probes
<1>3. WorkersInPlace'
  BY GuiAssumption
     DEF GuiTypeOK, LockIsHeld, WorkersInPlace, FlagsTell, Locked, At, Goes, Labels, Apps,
         ClosedBy, AllEnded
<1>4. FlagsTell'
  BY DEF GuiTypeOK, FlagsTell, At, Goes, Labels, Apps, Actions, AllEnded
<1> QED BY <1>1, <1>2, <1>3, <1>4

LEMMA ShouldExitKeepsGui == ASSUME GuiInv, ShouldExit PROVE GuiInv'
BY GuiAssumption
   DEF ShouldExit, GuiInv, GuiTypeOK, LockIsHeld, WorkersInPlace, FlagsTell, flags, Locked, At, Goes,
       Labels, Answers, Actions, Probes, Apps, MayAct

LEMMA CliStartKeepsGui == ASSUME GuiInv, CliStart PROVE GuiInv'
<1> USE DEF GuiInv, CliStart, flags
<1>1. GuiTypeOK'
  BY GuiAssumption
     DEF GuiTypeOK, At, Goes, Labels, Answers, Actions, Probes, Apps, ClosedBy, AllEnded
<1>2. LockIsHeld'
  BY GuiAssumption DEF GuiTypeOK, LockIsHeld, Locked, At, Goes, Labels, Apps, Probes
<1>3. WorkersInPlace'
  BY GuiAssumption
     DEF GuiTypeOK, LockIsHeld, WorkersInPlace, FlagsTell, Locked, At, Goes, Labels, Apps,
         ClosedBy, AllEnded
<1>4. FlagsTell'
  BY DEF GuiTypeOK, FlagsTell, At, Goes, Labels, Apps, Actions, AllEnded
<1> QED BY <1>1, <1>2, <1>3, <1>4

LEMMA TakeLockKeepsGui == ASSUME GuiInv, NEW p \in Apps, TakeLock(p) PROVE GuiInv'
<1>1. \E label \in {"open", "return"} :
        /\ agent' = [agent EXCEPT ![p] = label]
        /\ label = "open" => lock = NoApp /\ lock' = p
        /\ label = "return" => lock' = lock
  BY DEF TakeLock, Goes
<1>2. /\ agent[p] = "lock"
      /\ UNCHANGED <<gui, busy, running, acting, stale, stopFn, cancelled, working, probe,
                     journals, stopAsked>>
      /\ told' \in {told, "another agent is running"}
      /\ lock' \in {lock, p}
  BY DEF TakeLock, At, flags
<1>3. PICK label \in {"open", "return"} :
        /\ agent' = [agent EXCEPT ![p] = label]
        /\ label = "open" => lock = NoApp /\ lock' = p
        /\ label = "return" => lock' = lock
  BY <1>1
<1>4. agent \in [Apps -> Labels] /\ label \in Labels
  BY <1>3 DEF GuiInv, GuiTypeOK, Labels
<1>5. agent'[p] = label /\ \A q \in Apps : q # p => agent'[q] = agent[q]
  BY <1>3, <1>4
<1>6. GuiTypeOK'
  <2>1. agent' \in [Apps -> Labels]
    BY <1>3, <1>4
  <2>2. told' \in Answers /\ lock' \in Apps \cup Probes \cup {NoApp}
    BY <1>2 DEF GuiInv, GuiTypeOK, Answers
  <2>3. \A q \in Apps : stopFn'[q] => agent'[q] = "work"
    BY <1>2, <1>5 DEF GuiInv, GuiTypeOK, At
  <2> QED BY <1>2, <2>1, <2>2, <2>3 DEF GuiInv, GuiTypeOK, At
<1>7. LockIsHeld'
  <2>1. \A q \in Apps : q # p => (agent[q] \in Locked => lock = q)
    BY DEF GuiInv, LockIsHeld
  <2> QED BY <1>3, <1>5, <2>1, GuiAssumption DEF LockIsHeld, Locked
<1>8. WorkersInPlace'
  BY <1>2, <1>3, <1>5 DEF GuiInv, WorkersInPlace, At
<1>9. FlagsTell'
  BY <1>2, <1>3, <1>5 DEF GuiInv, FlagsTell, At, Apps
<1> QED BY <1>6, <1>7, <1>8, <1>9 DEF GuiInv

LEMMA OpenClientsKeepsGui == ASSUME GuiInv, NEW p \in Apps, OpenClients(p) PROVE GuiInv'
<1>1. /\ agent[p] = "open"
      /\ UNCHANGED <<gui, busy, running, acting, stale, stopFn, cancelled, working, lock, probe,
                     told, stopAsked>>
  BY DEF OpenClients, At, flags
<1>2. PICK label \in {"ready", "unlock"} :
        /\ agent' = [agent EXCEPT ![p] = label]
        /\ label = "ready" => journals' = [w \in Workers |-> p]
  BY DEF OpenClients, Goes
<1>3. journals' \in [Workers -> Apps \cup {NoApp}]
  BY DEF OpenClients, GuiInv, GuiTypeOK
<1>4. agent \in [Apps -> Labels] /\ label \in Labels
  BY <1>2 DEF GuiInv, GuiTypeOK, Labels
<1>5. agent'[p] = label /\ \A q \in Apps : q # p => agent'[q] = agent[q]
  BY <1>2, <1>4
\* A process that runs workers has the lock, which p holds.
<1>6. \A q \in Apps : q # p => agent[q] \notin Locked
  BY <1>1 DEF GuiInv, LockIsHeld, Locked
<1>7. GuiTypeOK'
  <2>1. agent' \in [Apps -> Labels]
    BY <1>2, <1>4
  <2>2. \A q \in Apps : stopFn'[q] => agent'[q] = "work"
    BY <1>1, <1>5 DEF GuiInv, GuiTypeOK, At
  <2> QED BY <1>1, <1>3, <2>1, <2>2 DEF GuiInv, GuiTypeOK, At
<1>8. LockIsHeld'
  BY <1>1, <1>2, <1>5 DEF GuiInv, LockIsHeld, Locked
<1>9. WorkersInPlace'
  <2>1. ASSUME NEW q \in Apps
        PROVE  /\ working'[q] # {} => agent'[q] = "work"
               /\ agent'[q] = "ready" => \A w \in Workers : journals'[w] = q
               /\ agent'[q] # "work"
    <3>1. CASE q = p
      BY <1>1, <1>2, <1>5, <3>1 DEF GuiInv, WorkersInPlace, At
    <3>2. CASE q # p
      BY <1>1, <1>5, <1>6, <2>1, <3>2 DEF GuiInv, WorkersInPlace, At, Locked
    <3> QED BY <3>1, <3>2
  <2> QED BY <2>1 DEF WorkersInPlace, At
<1>10. FlagsTell'
  BY <1>1, <1>2, <1>5 DEF GuiInv, FlagsTell, At, Apps
<1> QED BY <1>7, <1>8, <1>9, <1>10 DEF GuiInv

LEMMA SetStopKeepsGui == ASSUME GuiInv, NEW p \in Apps, SetStop(p) PROVE GuiInv'
<1> USE DEF GuiInv, SetStop, flags
<1>1. GuiTypeOK'
  <2>1. /\ agent' = [agent EXCEPT ![p] = "work"]
        /\ stopFn' = [stopFn EXCEPT ![p] = TRUE]
        /\ cancelled' = [cancelled EXCEPT ![p] = FALSE]
        /\ working' = [working EXCEPT ![p] = Workers]
        /\ UNCHANGED <<gui, busy, running, acting, stale, lock, probe, journals, told, stopAsked>>
    BY DEF Goes
  <2> HIDE DEF SetStop
  <2>2. agent' \in [Apps -> Labels]
    BY <2>1 DEF GuiTypeOK, Labels
  <2>3. stopFn' \in [Apps -> BOOLEAN] /\ cancelled' \in [Apps -> BOOLEAN]
    BY <2>1 DEF GuiTypeOK
  <2>4. working' \in [Apps -> SUBSET Workers]
    BY <2>1 DEF GuiTypeOK
  <2>5. \A q \in Apps : stopFn'[q] => agent'[q] = "work"
    BY <2>1 DEF GuiTypeOK, At
  <2> QED BY <2>1, <2>2, <2>3, <2>4, <2>5 DEF GuiTypeOK, At
<1>2. LockIsHeld'
  BY GuiAssumption DEF GuiTypeOK, LockIsHeld, Locked, At, Goes, Labels, Apps, Probes
<1>3. WorkersInPlace'
  BY GuiAssumption
     DEF GuiTypeOK, LockIsHeld, WorkersInPlace, FlagsTell, Locked, At, Goes, Labels, Apps,
         ClosedBy, AllEnded
<1>4. FlagsTell'
  BY DEF GuiTypeOK, FlagsTell, At, Goes, Labels, Apps, Actions, AllEnded
<1> QED BY <1>1, <1>2, <1>3, <1>4

LEMMA WorkerEndsKeepsGui ==
  ASSUME GuiInv, NEW p \in Apps, NEW w \in Workers, WorkerEnds(p, w)
  PROVE  GuiInv'
<1> USE DEF GuiInv, WorkerEnds, flags
<1>1. GuiTypeOK'
  <2>1. journals' \in [Workers -> Apps \cup {NoApp}]
    BY DEF GuiTypeOK, ClosedBy
  <2> QED
    BY <2>1 DEF GuiTypeOK, At, Goes, Labels, Apps
<1>2. LockIsHeld'
  BY GuiAssumption DEF GuiTypeOK, LockIsHeld, Locked, At, Goes, Labels, Apps, Probes
<1>3. WorkersInPlace'
  BY GuiAssumption
     DEF GuiTypeOK, LockIsHeld, WorkersInPlace, FlagsTell, Locked, At, Goes, Labels, Apps,
         ClosedBy, AllEnded
<1>4. FlagsTell'
  BY DEF GuiTypeOK, FlagsTell, At, Goes, Labels, Apps, Actions, AllEnded
<1> QED BY <1>1, <1>2, <1>3, <1>4

LEMMA WorkersEndedKeepsGui == ASSUME GuiInv, NEW p \in Apps, WorkersEnded(p) PROVE GuiInv'
<1> USE DEF GuiInv, WorkersEnded, flags
<1>1. GuiTypeOK'
  <2>1. /\ agent' = [agent EXCEPT ![p] = "unlock"]
        /\ stopFn' = [stopFn EXCEPT ![p] = FALSE]
        /\ UNCHANGED <<flags, cancelled, working, lock, probe, journals, told, stopAsked>>
    BY DEF Goes
  <2> HIDE DEF WorkersEnded
  <2>2. agent' \in [Apps -> Labels] /\ stopFn' \in [Apps -> BOOLEAN]
    BY <2>1 DEF GuiTypeOK, Labels
  <2>3. \A q \in Apps : stopFn'[q] => agent'[q] = "work"
    BY <2>1 DEF GuiTypeOK, At
  <2> QED BY <2>1, <2>2, <2>3 DEF GuiTypeOK, At
<1>2. LockIsHeld'
  BY GuiAssumption DEF GuiTypeOK, LockIsHeld, Locked, At, Goes, Labels, Apps, Probes
<1>3. WorkersInPlace'
  BY GuiAssumption
     DEF GuiTypeOK, LockIsHeld, WorkersInPlace, FlagsTell, Locked, At, Goes, Labels, Apps,
         ClosedBy, AllEnded
<1>4. FlagsTell'
  BY DEF GuiTypeOK, FlagsTell, At, Goes, Labels, Apps, Actions, AllEnded
<1> QED BY <1>1, <1>2, <1>3, <1>4

LEMMA UnlockKeepsGui == ASSUME GuiInv, NEW p \in Apps, Unlock(p) PROVE GuiInv'
<1>1. /\ agent[p] = "unlock" /\ agent' = [agent EXCEPT ![p] = "return"]
      /\ lock' = NoApp
      /\ UNCHANGED <<gui, busy, running, acting, stale, stopFn, cancelled, working, probe,
                     journals, told, stopAsked>>
  BY DEF Unlock, At, Goes, flags
<1>2. /\ agent' \in [Apps -> Labels] /\ agent'[p] = "return"
      /\ \A q \in Apps : q # p => agent'[q] = agent[q]
  BY <1>1 DEF GuiInv, GuiTypeOK, Labels
\* The lock was p's, so that no other process is where it would need it.
<1>3. \A q \in Apps : agent'[q] \notin Locked
  BY <1>1, <1>2 DEF GuiInv, LockIsHeld, Locked
<1>4. GuiTypeOK'
  <2>1. \A q \in Apps : stopFn'[q] => agent'[q] = "work"
    BY <1>1, <1>2 DEF GuiInv, GuiTypeOK, At
  <2> QED BY <1>1, <1>2, <2>1 DEF GuiInv, GuiTypeOK, At
<1>5. WorkersInPlace'
  BY <1>1, <1>2 DEF GuiInv, WorkersInPlace, At
<1>6. FlagsTell'
  BY <1>1, <1>2 DEF GuiInv, FlagsTell, At, Apps
<1> QED BY <1>3, <1>4, <1>5, <1>6 DEF GuiInv, LockIsHeld

LEMMA ReturnKeepsGui == ASSUME GuiInv, NEW p \in Apps, Return(p) PROVE GuiInv'
<1> USE DEF GuiInv, Return, flags
<1>1. GuiTypeOK'
  <2>1. /\ agent[p] = "return" /\ agent' = [agent EXCEPT ![p] = "off"]
        /\ UNCHANGED <<gui, acting, stale, stopFn, cancelled, working, lock, probe, told>>
        /\ running' \in {running, FALSE} /\ busy' \in {busy, ""}
        /\ stopAsked' \in {stopAsked, FALSE}
        /\ journals' \in {journals, ClosedBy(p)}
    BY DEF Goes, At
  <2> HIDE DEF Return
  <2>2. agent' \in [Apps -> Labels]
    BY <2>1 DEF GuiTypeOK, Labels
  <2>3. journals' \in [Workers -> Apps \cup {NoApp}]
    BY <2>1 DEF GuiTypeOK, ClosedBy
  <2>4. busy' \in Actions \cup {"", "start"} /\ {running', stale', stopAsked'} \subseteq BOOLEAN
    BY <2>1 DEF GuiTypeOK
  <2>5. \A q \in Apps : stopFn'[q] => agent'[q] = "work"
    BY <2>1 DEF GuiTypeOK, At
  <2> QED BY <2>1, <2>2, <2>3, <2>4, <2>5 DEF GuiTypeOK, At
<1>2. LockIsHeld'
  BY GuiAssumption DEF GuiTypeOK, LockIsHeld, Locked, At, Goes, Labels, Apps, Probes
<1>3. WorkersInPlace'
  <2>1. CASE p = "gui"
    BY <2>1, GuiAssumption
       DEF GuiTypeOK, LockIsHeld, WorkersInPlace, FlagsTell, Locked, At, Goes, Labels, Apps,
           ClosedBy, AllEnded
  <2>2. CASE ~(p = "gui")
    <3>1. p = "cli" /\ agent' = [agent EXCEPT !["cli"] = "off"] /\ working' = working
      BY <2>2 DEF Goes, Apps
    <3>2. \A w \in Workers : journals'[w] = IF journals[w] = "cli" THEN NoApp ELSE journals[w]
      BY <2>2, <3>1 DEF ClosedBy
    <3> QED
      BY <3>1, <3>2, GuiAssumption DEF GuiTypeOK, WorkersInPlace, At, Apps
  <2> QED BY <2>1, <2>2
<1>4. FlagsTell'
  BY DEF GuiTypeOK, FlagsTell, At, Goes, Labels, Apps, Actions, AllEnded
<1> QED BY <1>1, <1>2, <1>3, <1>4

LEMMA InterruptKeepsGui == ASSUME GuiInv, Interrupt PROVE GuiInv'
<1>1. /\ cancelled' \in [Apps -> BOOLEAN]
      /\ UNCHANGED <<flags, agent, stopFn, working, lock, probe, journals>>
  BY DEF Interrupt, GuiInv, GuiTypeOK, Apps
<1>2. told' \in Answers /\ stopAsked' \in BOOLEAN
  BY DEF Interrupt, GuiInv, GuiTypeOK, Answers
<1>3. GuiTypeOK'
  BY <1>1, <1>2 DEF GuiInv, GuiTypeOK, At, flags
<1>4. LockIsHeld' /\ WorkersInPlace' /\ FlagsTell'
  BY <1>1 DEF GuiInv, LockIsHeld, WorkersInPlace, FlagsTell, At, flags
<1> QED BY <1>3, <1>4 DEF GuiInv

LEMMA ExitKeepsGui == ASSUME GuiInv, NEW p \in Apps, Exit(p) PROVE GuiInv'
<1> USE DEF GuiInv, Exit, flags
<1>1. GuiTypeOK'
  <2>1. /\ agent' = [agent EXCEPT ![p] = "off"]
        /\ stopFn' = [stopFn EXCEPT ![p] = FALSE]
        /\ working' = [working EXCEPT ![p] = {}]
        /\ lock' \in {lock, NoApp} /\ journals' = ClosedBy(p)
        /\ gui' \in {gui, "gone"} /\ running' \in {running, FALSE}
        /\ busy' \in {busy, ""} /\ acting' \in {acting, "off"}
        /\ UNCHANGED <<stale, cancelled, probe, told, stopAsked>>
    OBVIOUS
  <2> HIDE DEF Exit
  <2>2. agent' \in [Apps -> Labels] /\ stopFn' \in [Apps -> BOOLEAN]
    BY <2>1 DEF GuiTypeOK, Labels
  <2>3. working' \in [Apps -> SUBSET Workers]
    BY <2>1 DEF GuiTypeOK
  <2>4. journals' \in [Workers -> Apps \cup {NoApp}]
    BY <2>1 DEF GuiTypeOK, ClosedBy
  <2>5. \A q \in Apps : stopFn'[q] => agent'[q] = "work"
    BY <2>1 DEF GuiTypeOK, At
  <2>6. /\ gui' \in {"up", "closing", "gone"} /\ busy' \in Actions \cup {"", "start"}
        /\ {running', stale', stopAsked'} \subseteq BOOLEAN
        /\ acting' \in {"off", "acting", "probed"}
    BY <2>1 DEF GuiTypeOK
  <2> QED BY <2>1, <2>2, <2>3, <2>4, <2>5, <2>6 DEF GuiTypeOK, At
<1>2. LockIsHeld'
  BY GuiAssumption DEF GuiTypeOK, LockIsHeld, Locked, At, Goes, Labels, Apps, Probes
<1>3. WorkersInPlace'
  BY GuiAssumption
     DEF GuiTypeOK, LockIsHeld, WorkersInPlace, FlagsTell, Locked, At, Goes, Labels, Apps,
         ClosedBy, AllEnded
<1>4. FlagsTell'
  BY DEF GuiTypeOK, FlagsTell, At, Goes, Labels, Apps, Actions, AllEnded
<1> QED BY <1>1, <1>2, <1>3, <1>4

LEMMA ProbeKeepsGui == ASSUME GuiInv, NEW name \in Probes, Probe(name) PROVE GuiInv'
<1> USE DEF GuiInv, Probe, flags
<1>1. GuiTypeOK'
  BY GuiAssumption
     DEF GuiTypeOK, At, Goes, Labels, Answers, Actions, Probes, Apps, ClosedBy, AllEnded
<1>2. LockIsHeld'
  BY GuiAssumption DEF GuiTypeOK, LockIsHeld, Locked, At, Goes, Labels, Apps, Probes
<1>3. WorkersInPlace'
  BY GuiAssumption
     DEF GuiTypeOK, LockIsHeld, WorkersInPlace, FlagsTell, Locked, At, Goes, Labels, Apps,
         ClosedBy, AllEnded
<1>4. FlagsTell'
  BY DEF GuiTypeOK, FlagsTell, At, Goes, Labels, Apps, Actions, AllEnded
<1> QED BY <1>1, <1>2, <1>3, <1>4

LEMMA ProbeEndsKeepsGui == ASSUME GuiInv, NEW name \in Probes, ProbeEnds(name) PROVE GuiInv'
<1>1. /\ lock = name /\ lock' = NoApp
      /\ told' \in Answers /\ probe' \in {probe, "off"}
      /\ UNCHANGED <<flags, agent, stopFn, cancelled, working, journals, stopAsked>>
  BY DEF ProbeEnds, Answers
\* The probe had the lock, so that no process is where it would need it.
<1>2. \A q \in Apps : agent'[q] \notin Locked
  BY <1>1 DEF GuiInv, LockIsHeld, Probes, Apps
<1>3. GuiTypeOK'
  BY <1>1 DEF GuiInv, GuiTypeOK, At, flags
<1>4. WorkersInPlace' /\ FlagsTell'
  BY <1>1 DEF GuiInv, WorkersInPlace, FlagsTell, At, flags
<1> QED BY <1>2, <1>3, <1>4 DEF GuiInv, LockIsHeld

LEMMA GuiStep == ASSUME GuiInv, [GuiNext]_guiVars PROVE GuiInv'
<1>1. CASE UNCHANGED guiVars
  BY <1>1
     DEF guiVars, flags, GuiInv, GuiTypeOK, LockIsHeld, WorkersInPlace, FlagsTell, At, ClosedBy
<1>2. ASSUME NEW p \in Apps, Step(p) PROVE GuiInv'
  BY <1>2, TakeLockKeepsGui, OpenClientsKeepsGui, SetStopKeepsGui, WorkerEndsKeepsGui,
     WorkersEndedKeepsGui, UnlockKeepsGui, ReturnKeepsGui
     DEF Step
<1>3. ASSUME NEW name \in Probes, Probe(name) \/ ProbeEnds(name) PROVE GuiInv'
  BY <1>3, ProbeKeepsGui, ProbeEndsKeepsGui
<1> QED
  BY <1>1, <1>2, <1>3, ApiStartKeepsGui, StartAgentKeepsGui, ApiStopKeepsGui,
     ActionEndsKeepsGui, PingKeepsGui, PingsStopKeepsGui, ShouldExitKeepsGui,
     RunActionKeepsGui, CliStartKeepsGui, InterruptKeepsGui, ExitKeepsGui
     DEF GuiNext

LEMMA GuiInvariant == GuiSpec => []GuiInv
BY GuiInitially, GuiStep, PTL DEF GuiSpec

\* Whatever the app, the start command and the status commands do, the workers of
\* two processes never run at once, and none runs beside a worker of the other
\* process whose journal was not closed (client.go:361).
THEOREM GuiRunsNoAgentBesideAnother == GuiSpec => []NoAgentBesideAnother
<1>1. GuiInv => NoAgentBesideAnother
  BY DEF GuiInv, GuiTypeOK, WorkersInPlace, NoAgentBesideAnother
<1> QED BY <1>1, GuiInvariant, PTL

\* An action of the window and an agent started by it never overlap, so the
\* standard output that withOutput puts back is the one it took (gui.go).
THEOREM GuiSwapsOutputOnce == GuiSpec => []OutputIsSwappedOnce
<1>1. GuiInv => OutputIsSwappedOnce
  BY DEF GuiInv, FlagsTell, OutputIsSwappedOnce
<1> QED BY <1>1, GuiInvariant, PTL

(***************************************************************************)
(* The files that start it.                                                 *)
(***************************************************************************)

Request == [token : Machines, pool : Pools, batch : BOOLEAN, saw : Configs \cup {NoFile}]
Answered == [batch : BOOLEAN, new : Configs]

FilesTyped ==
  /\ config \in Configs \cup {NoFile}
  /\ proof \in 0 .. MaxJournals /\ journal \in 0 .. MaxJournals
  /\ made \in [proofs : 0 .. MaxJournals, journals : 0 .. MaxJournals]
  /\ locked \in BOOLEAN /\ pausedByOwner \in BOOLEAN
  /\ claimed \in [Machines -> 0 .. MaxJournals]

\* What a command has read fits the step it is at.
CommandsTyped ==
  /\ pc \in [Procs -> {"idle", "edit", "request", "response", "save"}]
  /\ local \in [Procs -> {None} \cup Configs \cup Request \cup Answered]
  /\ \A p \in Procs :
       /\ pc[p] = "idle" => local[p] = None
       /\ pc[p] = "edit" => local[p] \in Configs
       /\ pc[p] \in {"request", "response"} => local[p] \in Request
       /\ pc[p] = "save" => local[p] \in Answered

\* A start has read a configuration with an identity before it prepares the
\* journal, and the pin it has is the one it read until the journal is there.
AgentTyped ==
  /\ process \in [pc : {"off", "load", "identity", "prepare", "pin", "run", "stop"},
                  cfg : Configs \cup {NoFile}, loaded : 0 .. MaxJournals]
  /\ process.pc \in {"identity", "prepare", "pin", "run", "stop"} =>
       process.cfg \in Configs /\ process.cfg.machine # None
  /\ process.pc \in {"identity", "prepare"} => process.loaded = process.cfg.pin
  /\ process.pc \in {"pin", "run", "stop"} =>
       process.cfg.pin # 0 /\ process.loaded \in {0, process.cfg.pin}

ConfigInv == FilesTyped /\ CommandsTyped /\ AgentTyped

LEMMA ConfigInitially == ASSUME ConfigInit PROVE ConfigInv
<1>1. config \in Configs \cup {NoFile}
  <2>1. ASSUME NEW m \in Machines, NEW pool \in Pools
        PROVE  [key |-> m, machine |-> None, pool |-> pool, paused |-> FALSE, pin |-> 0,
                price |-> "zero", free |-> FALSE] \in Configs
    BY ConfigAssumption DEF Configs
  <2> QED BY <2>1 DEF ConfigInit
<1>2. CommandsTyped
  BY DEF ConfigInit, CommandsTyped
<1>3. AgentTyped
  BY ConfigAssumption DEF ConfigInit, AgentTyped
<1>4. 0 \in 0 .. MaxJournals
  BY ConfigAssumption
<1> QED
  BY <1>1, <1>2, <1>3, <1>4 DEF ConfigInit, ConfigInv, FilesTyped

\* Saving, defaults and edits give configurations.
LEMMA ConfigsKept ==
  ASSUME NEW c \in Configs
  PROVE  /\ Written(c) \in Configs /\ Written(c).pin = c.pin
         /\ ApplyDefaults(c) \in Configs /\ ApplyDefaults(c).pin = c.pin
         /\ ApplyDefaults(c).machine # None
         /\ \A edit \in Edits : Edited(c, edit) \in Configs
<1>1. Written(c) \in Configs /\ Written(c).pin = c.pin
  BY DEF Written, Configs
<1>2. /\ ApplyDefaults(c) \in Configs /\ ApplyDefaults(c).pin = c.pin
      /\ ApplyDefaults(c).machine # None
  BY ConfigAssumption DEF ApplyDefaults, Configs
<1>3. \A edit \in Edits : Edited(c, edit) \in Configs
  BY DEF Edited, Configs
<1> QED BY <1>1, <1>2, <1>3

\* The commands: none of them touches the agent's process, but for a stop.
LEMMA LoadToEditKeeps ==
  ASSUME ConfigInv, NEW p \in Procs, NEW edit \in Edits, LoadToEdit(p, edit) PROVE ConfigInv'
<1>1. config \in Configs /\ Edited(config, edit) \in Configs
  BY ConfigsKept DEF LoadToEdit, ConfigInv, FilesTyped
<1> QED
  BY <1>1 DEF LoadToEdit, Go, ConfigInv, FilesTyped, CommandsTyped, AgentTyped, files

LEMMA SaveEditKeeps == ASSUME ConfigInv, NEW p \in Procs, SaveEdit(p) PROVE ConfigInv'
<1>1. local[p] \in Configs /\ Written(local[p]) \in Configs
  BY ConfigsKept DEF SaveEdit, ConfigInv, CommandsTyped
<1>2. local[p].paused \in BOOLEAN
  BY <1>1 DEF Configs
<1> QED
  BY <1>1, <1>2
     DEF SaveEdit, Save, Done, Go, ConfigInv, FilesTyped, CommandsTyped, AgentTyped, files

LEMMA UnenrollKeeps ==
  ASSUME ConfigInv, NEW p \in Procs, NEW inAgent \in BOOLEAN, Unenroll(p, inAgent) PROVE ConfigInv'
BY DEF Unenroll, ConfigInv, FilesTyped, CommandsTyped, AgentTyped, files

LEMMA EnrollBeginKeeps ==
  ASSUME ConfigInv, NEW p \in Procs, NEW m \in Machines, NEW pool \in Pools,
         NEW batch \in BOOLEAN, EnrollBegin(p, m, pool, batch)
  PROVE  ConfigInv'
<1>1. FilesTyped'
  BY ConfigAssumption DEF EnrollBegin, LoadOrCreateProof, ConfigInv, FilesTyped
<1>2. [token |-> m, pool |-> pool, batch |-> batch, saw |-> config] \in Request
  BY DEF ConfigInv, FilesTyped, Request
<1> QED
  BY <1>1, <1>2 DEF EnrollBegin, Go, ConfigInv, CommandsTyped, AgentTyped

LEMMA EnrollRequestKeeps == ASSUME ConfigInv, NEW p \in Procs, EnrollRequest(p) PROVE ConfigInv'
<1>1. local[p] \in Request /\ local[p].token \in Machines
  BY DEF EnrollRequest, ConfigInv, CommandsTyped, Request
<1>2. FilesTyped'
  BY <1>1 DEF EnrollRequest, Finish, ConfigInv, FilesTyped
<1>3. \/ pc' = [pc EXCEPT ![p] = "response"] /\ local' = [local EXCEPT ![p] = local[p]]
      \/ pc' = [pc EXCEPT ![p] = "idle"] /\ local' = [local EXCEPT ![p] = None]
  BY DEF EnrollRequest, Finish, Done, Go
<1> QED
  BY <1>1, <1>2, <1>3 DEF EnrollRequest, ConfigInv, CommandsTyped, AgentTyped

LEMMA EnrollRecheckKeeps == ASSUME ConfigInv, NEW p \in Procs, EnrollRecheck(p) PROVE ConfigInv'
<1> DEFINE base == IF config = NoFile \/ local[p].batch THEN Fresh ELSE config
           m == local[p].token
           new == [key |-> m, machine |-> m, pool |-> local[p].pool, paused |-> base.paused,
                   pin |-> base.pin, free |-> m \in FreeOf,
                   price |-> IF m \in FreeOf THEN "zero" ELSE "paid"]
<1>1. local[p] \in Request
  BY DEF EnrollRecheck, ConfigInv, CommandsTyped
<1>2. base.paused \in BOOLEAN /\ base.pin \in 0 .. MaxJournals
  <2>1. Fresh.paused \in BOOLEAN /\ Fresh.pin \in 0 .. MaxJournals
    BY ConfigAssumption DEF Fresh
  <2>2. CASE config \in Configs
    BY <2>1, <2>2 DEF Configs
  <2> QED BY <2>1, <2>2 DEF ConfigInv, FilesTyped
<1>3. [batch |-> local[p].batch, new |-> new] \in Answered
  <2> HIDE DEF base
  <2> QED BY <1>1, <1>2 DEF Request, Configs, Answered
<1>4. \/ pc' = [pc EXCEPT ![p] = "save"]
         /\ local' = [local EXCEPT ![p] = [batch |-> local[p].batch, new |-> new]]
      \/ pc' = [pc EXCEPT ![p] = "idle"] /\ local' = [local EXCEPT ![p] = None]
  BY DEF EnrollRecheck, Finish, Done, Go
<1>5. FilesTyped' /\ AgentTyped'
  BY DEF EnrollRecheck, Finish, ConfigInv, FilesTyped, AgentTyped
<1> HIDE DEF new
<1>6. CommandsTyped'
  BY <1>3, <1>4 DEF ConfigInv, CommandsTyped
<1> QED BY <1>5, <1>6 DEF ConfigInv

LEMMA EnrollSaveKeeps == ASSUME ConfigInv, NEW p \in Procs, EnrollSave(p) PROVE ConfigInv'
<1>1. local[p] \in Answered /\ local[p].new \in Configs
  BY DEF EnrollSave, ConfigInv, CommandsTyped, Answered
<1>2. Written(local[p].new) \in Configs /\ local[p].batch \in BOOLEAN
  BY <1>1, ConfigsKept DEF Answered
<1>3. FilesTyped'
  BY <1>2 DEF EnrollSave, Save, Finish, ConfigInv, FilesTyped
<1> QED
  BY <1>3 DEF EnrollSave, Finish, Done, Go, ConfigInv, CommandsTyped, AgentTyped

LEMMA KillKeeps == ASSUME ConfigInv, NEW p \in Procs, Kill(p) PROVE ConfigInv'
BY DEF Kill, Done, Go, ConfigInv, FilesTyped, CommandsTyped, AgentTyped, files

LEMMA CommandKeeps == ASSUME ConfigInv, NEW p \in Procs, Command(p) PROVE ConfigInv'
<1>1. ASSUME NEW m \in Machines, NEW pool \in Pools, NEW batch \in {FALSE, MayBatch},
             EnrollBegin(p, m, pool, batch)
      PROVE  ConfigInv'
  <2>1. batch \in BOOLEAN
    BY ConfigAssumption
  <2> QED BY <1>1, <2>1, EnrollBeginKeeps
<1>2. ASSUME NEW edit \in Edits, LoadToEdit(p, edit) PROVE ConfigInv'
  BY <1>2, LoadToEditKeeps
<1>3. ASSUME NEW inAgent \in BOOLEAN, Unenroll(p, inAgent) PROVE ConfigInv'
  BY <1>3, UnenrollKeeps
<1> QED
  BY <1>1, <1>2, <1>3, SaveEditKeeps, EnrollRequestKeeps, EnrollRecheckKeeps, EnrollSaveKeeps,
     KillKeeps
     DEF Command

\* The agent's start, step by step.
LEMMA AgentKeeps == ASSUME ConfigInv, Agent PROVE ConfigInv'
<1>1. CASE AgentBegin
  BY <1>1 DEF AgentBegin, AgentGoes, ConfigInv, FilesTyped, CommandsTyped, AgentTyped, files
<1>2. CASE AgentLoad
  <2>1. CASE process' = [pc |-> "off", cfg |-> NoFile, loaded |-> 0]
    BY <1>2, <2>1, ConfigAssumption
       DEF AgentLoad, ConfigInv, FilesTyped, CommandsTyped, AgentTyped, files
  <2>2. CASE /\ config # NoFile
             /\ process' = [pc |-> IF config.machine = None THEN "identity" ELSE "prepare",
                            cfg |-> ApplyDefaults(config), loaded |-> config.pin]
    <3>1. config \in Configs
      BY <2>2 DEF ConfigInv, FilesTyped
    <3>2. config.pin \in 0 .. MaxJournals
      BY <3>1 DEF Configs
    <3> QED
      BY <1>2, <2>2, <3>1, <3>2, ConfigsKept
         DEF AgentLoad, ConfigInv, FilesTyped, CommandsTyped, AgentTyped, files
  <2> QED BY <1>2, <2>1, <2>2 DEF AgentLoad, Refuse
<1>3. CASE AgentSaveIdentity \/ AgentPin
  <2>1. process.cfg \in Configs /\ Written(process.cfg) \in Configs
    BY <1>3, ConfigsKept DEF AgentSaveIdentity, AgentPin, ConfigInv, AgentTyped
  <2> QED
    BY <1>3, <2>1, ConfigAssumption
       DEF AgentSaveIdentity, AgentPin, Save, Refuse, AgentGoes, ConfigInv, FilesTyped,
           CommandsTyped, AgentTyped, files
<1>4. CASE AgentPrepare
  <2>1. CASE RootRefused(process.cfg.pin)
    BY <1>4, <2>1, ConfigAssumption
       DEF AgentPrepare, Refuse, ConfigInv, FilesTyped, CommandsTyped, AgentTyped
  <2>2. CASE ~RootRefused(process.cfg.pin)
    <3>1. FilesTyped' /\ journal' # 0 /\ (journal # 0 => journal' = journal)
      BY <1>4, <2>2, ConfigAssumption DEF AgentPrepare, ConfigInv, FilesTyped
    <3>2. process' = [process EXCEPT
            !.pc = IF process.cfg.pin = journal' THEN "run" ELSE "pin", !.cfg.pin = journal']
      BY <1>4, <2>2 DEF AgentPrepare
    <3>3. process.cfg \in Configs /\ process.loaded = process.cfg.pin
      BY <1>4 DEF AgentPrepare, ConfigInv, AgentTyped
    <3>4. /\ process'.cfg \in Configs /\ process'.cfg.pin = journal'
          /\ process'.cfg.machine # None /\ process'.loaded = process.loaded
          /\ process'.pc \in {"run", "pin"} /\ process' \in
               [pc : {"off", "load", "identity", "prepare", "pin", "run", "stop"},
                cfg : Configs \cup {NoFile}, loaded : 0 .. MaxJournals]
      BY <1>4, <3>1, <3>2, <3>3 DEF AgentPrepare, ConfigInv, AgentTyped, FilesTyped, Configs
    <3>5. process.loaded \in {0, journal'}
      BY <2>2, <3>1, <3>3 DEF RootRefused
    <3> QED
      BY <1>4, <3>1, <3>4, <3>5 DEF AgentPrepare, ConfigInv, CommandsTyped, AgentTyped
  <2> QED BY <2>1, <2>2
<1>5. CASE AgentExit
  BY <1>5, ConfigAssumption
     DEF AgentExit, Refuse, ConfigInv, FilesTyped, CommandsTyped, AgentTyped, files
<1> QED BY <1>1, <1>2, <1>3, <1>4, <1>5 DEF Agent

LEMMA ConfigStep == ASSUME ConfigInv, [ConfigNext]_configVars PROVE ConfigInv'
<1>1. CASE UNCHANGED configVars
  BY <1>1 DEF configVars, ConfigInv, FilesTyped, CommandsTyped, AgentTyped
<1>2. CASE RemoveLock \/ CleanupCache \/ CleanupConfig \/ JournalReplaced
  <2>1. /\ UNCHANGED <<made, claimed, pc, local, process, pausedByOwner>>
        /\ config' \in {config, NoFile} /\ locked' \in {locked, FALSE}
        /\ proof' \in {proof, 0}
    BY <1>2 DEF RemoveLock, CleanupCache, CleanupConfig, JournalReplaced
  <2>2. journal' \in 0 .. MaxJournals
    BY <1>2, ConfigAssumption
       DEF RemoveLock, CleanupCache, CleanupConfig, JournalReplaced, ConfigInv, FilesTyped
  <2>3. proof' \in 0 .. MaxJournals /\ config' \in Configs \cup {NoFile} /\ locked' \in BOOLEAN
    <3>1. 0 \in 0 .. MaxJournals
      BY ConfigAssumption
    <3>2. locked' \in BOOLEAN
      BY <2>1, Zenon DEF ConfigInv, FilesTyped
    <3> QED BY <2>1, <3>1, <3>2 DEF ConfigInv, FilesTyped
  <2>4. CommandsTyped' /\ AgentTyped'
    BY <2>1 DEF ConfigInv, CommandsTyped, AgentTyped
  <2> QED
    BY <2>1, <2>2, <2>3, <2>4 DEF ConfigInv, FilesTyped
<1>3. ASSUME NEW m \in Machines, Restore(m) PROVE ConfigInv'
  <2>1. ASSUME NEW pool \in Pools
        PROVE  [key |-> m, machine |-> m, pool |-> pool, paused |-> FALSE, pin |-> 0,
                price |-> "paid", free |-> FALSE] \in Configs
    BY ConfigAssumption DEF Configs
  <2> QED
    BY <1>3, <2>1 DEF Restore, ConfigInv, FilesTyped, CommandsTyped, AgentTyped, files
<1> QED BY <1>1, <1>2, <1>3, CommandKeeps, AgentKeeps DEF ConfigNext

LEMMA ConfigInvariant == ConfigSpec => []ConfigInv
BY ConfigInitially, ConfigStep, PTL DEF ConfigSpec

\* Every file, and everything a command has read, has the form its readers expect;
\* an agent that goes on past its start has an identity (config.go, main.go).
THEOREM ConfigTypeCorrect == ConfigSpec => []ConfigTypeOK
<1>1. ASSUME ConfigInv PROVE ConfigTypeOK
  <2>1. \A p \in Procs : pc[p] \in {"idle", "edit", "request", "response", "save"}
    BY <1>1 DEF ConfigInv, CommandsTyped
  <2>2. ASSUME NEW p \in Procs
        PROVE  CASE pc[p] = "idle" -> local[p] = None
                 [] pc[p] = "edit" -> local[p] \in Configs
                 [] pc[p] = "save" -> local[p].new \in Configs
                 [] pc[p] \in {"request", "response"} ->
                      /\ local[p].token \in Machines /\ local[p].pool \in Pools
                      /\ local[p].saw = NoFile \/ local[p].saw \in Configs
    BY <1>1, <2>1 DEF ConfigInv, CommandsTyped, Request, Answered
  <2> QED BY <1>1, <2>2 DEF ConfigInv, FilesTyped, AgentTyped, ConfigTypeOK
<1> QED BY <1>1, ConfigInvariant, PTL

\* Lost execution state never becomes a fresh agent: what ran under a pin runs
\* again only under that pin, however commands, crashes and the disk interfere
\* (recovery_startup_test.go:13).
THEOREM ConfigRefusesLostJournal == ConfigSpec => []LostJournalIsRefused
<1>1. ConfigInv => LostJournalIsRefused
  BY DEF ConfigInv, AgentTyped, LostJournalIsRefused
<1> QED BY <1>1, ConfigInvariant, PTL

\* A token that was used is never lost to the machine it was used on, but by the
\* owner who removes its proof (enrollment_test.go:18).
THEOREM ConfigTokenCanBeRetried == ConfigSpec => TokenCanBeRetried
<1>1. ASSUME ConfigInv, [ConfigNext]_configVars, NEW m \in Machines,
             claimed'[m] # 0, claimed[m] \in {0, proof}
      PROVE  proof' = claimed'[m] \/ CleanupConfig
  <2>1. ASSUME NEW p \in Procs, EnrollRequest(p) PROVE proof' = claimed'[m]
    BY <1>1, <2>1 DEF EnrollRequest, ConfigInv, FilesTyped
  <2>2. ASSUME NEW p \in Procs, NEW n \in Machines, NEW pool \in Pools, NEW batch,
               EnrollBegin(p, n, pool, batch)
        PROVE  proof' = claimed'[m]
    BY <1>1, <2>2 DEF EnrollBegin, LoadOrCreateProof
  <2>3. CASE UNCHANGED <<proof, claimed>>
    BY <1>1, <2>3
  <2>4. ASSUME NEW p \in Procs, Command(p),
               ~EnrollRequest(p),
               ~\E n \in Machines, pool \in Pools, batch \in {FALSE, MayBatch} :
                  EnrollBegin(p, n, pool, batch)
        PROVE  UNCHANGED <<proof, claimed>>
    BY <2>4
       DEF Command, LoadToEdit, SaveEdit, Unenroll, EnrollRecheck, EnrollSave, Kill, files
  <2>5. CASE Agent \/ RemoveLock \/ CleanupCache \/ JournalReplaced
             \/ UNCHANGED configVars \/ \E n \in Machines : Restore(n)
    BY <1>1, <2>3, <2>5
       DEF Agent, AgentBegin, AgentLoad, AgentSaveIdentity, AgentPrepare, AgentPin, AgentExit,
           RemoveLock, CleanupCache, JournalReplaced, Restore, configVars, files
  <2> QED BY <1>1, <2>1, <2>2, <2>3, <2>4, <2>5 DEF ConfigNext
<1>2. ConfigInv /\ [ConfigNext]_configVars =>
        [\A m \in Machines :
           claimed'[m] # 0 /\ claimed[m] \in {0, proof} =>
             proof' = claimed'[m] \/ CleanupConfig]_configVars
  BY <1>1
<1> QED BY <1>2, ConfigInvariant, PTL DEF ConfigSpec, TokenCanBeRetried

\* While an agent starts, commands that wait for each other leave it the file.
StartsUndisturbed ==
  /\ Starting => \A p \in Procs : Idle(p)
  /\ process.pc \in {"identity", "prepare"} =>
       config # NoFile /\ config.pin = process.cfg.pin

LEMMA StartsUndisturbedStep ==
  ASSUME ~Overlap, ConfigInv, StartsUndisturbed, [ConfigNext]_configVars
  PROVE  StartsUndisturbed'
<1> USE DEF StartsUndisturbed, Starting, Idle
<1>1. CASE UNCHANGED configVars
  BY <1>1 DEF configVars
<1>2. ASSUME NEW p \in Procs, Command(p) PROVE StartsUndisturbed'
  <2>1. ASSUME NEW edit \in Edits, LoadToEdit(p, edit) PROVE StartsUndisturbed'
    BY <2>1 DEF LoadToEdit, MayBegin, Free
  <2>2. ASSUME NEW inAgent \in BOOLEAN, Unenroll(p, inAgent) PROVE StartsUndisturbed'
    BY <2>2 DEF Unenroll, MayBegin, Free, ConfigInv, AgentTyped
  <2>3. ASSUME NEW m \in Machines, NEW pool \in Pools, NEW batch \in {FALSE, MayBatch},
               EnrollBegin(p, m, pool, batch)
        PROVE  StartsUndisturbed'
    BY <2>3 DEF EnrollBegin, MayBegin, Free
  <2>4. CASE SaveEdit(p) \/ EnrollRequest(p) \/ EnrollRecheck(p) \/ EnrollSave(p) \/ Kill(p)
    <3>1. ~Starting
      BY <2>4 DEF SaveEdit, EnrollRequest, EnrollRecheck, EnrollSave, Kill
    <3> QED
      BY <2>4, <3>1 DEF SaveEdit, EnrollRequest, EnrollRecheck, EnrollSave, Kill
  <2> QED BY <1>2, <2>1, <2>2, <2>3, <2>4 DEF Command
<1>3. CASE AgentLoad
  <2>1. config # NoFile => config \in Configs
    BY DEF ConfigInv, FilesTyped
  <2> QED BY <1>3, <2>1, ConfigsKept DEF AgentLoad, Refuse, files
<1>4. CASE AgentSaveIdentity
  <2>1. process.cfg \in Configs
    BY <1>4 DEF AgentSaveIdentity, ConfigInv, AgentTyped
  <2>2. Written(process.cfg) # NoFile
    BY <2>1, ConfigsKept, ConfigAssumption
  <2> QED
    BY <1>4, <2>1, <2>2, ConfigsKept
       DEF AgentSaveIdentity, Save, Refuse, AgentGoes, ConfigInv, AgentTyped, files
<1>5. CASE AgentBegin \/ AgentPrepare \/ AgentPin \/ AgentExit
  <2>1. process'.pc \notin {"identity", "prepare"}
    <3>1. ASSUME NEW label, AgentGoes(label) PROVE process'.pc = label
      BY <3>1 DEF AgentGoes, ConfigInv, AgentTyped
    <3>2. Refuse => process'.pc = "off"
      BY DEF Refuse
    <3>3. AgentPrepare => process'.pc \in {"off", "run", "pin"}
      BY <3>2 DEF AgentPrepare, ConfigInv, AgentTyped
    <3> QED BY <1>5, <3>1, <3>2, <3>3 DEF AgentBegin, AgentPin, AgentExit
  <2>2. UNCHANGED pc /\ (Starting => process.pc # "off" \/ AgentBegin)
    BY <1>5 DEF AgentBegin, AgentPrepare, AgentPin, AgentExit, files
  <2>3. Starting' => \A p \in Procs : Idle(p)
    BY <1>5
       DEF AgentBegin, AgentPrepare, AgentPin, AgentExit, AgentGoes, Refuse, ConfigInv,
           AgentTyped
  <2> QED BY <2>1, <2>2, <2>3
<1>6. CASE RemoveLock \/ CleanupCache \/ CleanupConfig \/ JournalReplaced
  BY <1>6 DEF RemoveLock, CleanupCache, CleanupConfig, JournalReplaced, Free
<1>7. ASSUME NEW m \in Machines, Restore(m) PROVE StartsUndisturbed'
  BY <1>7 DEF Restore
<1> QED BY <1>1, <1>2, <1>3, <1>4, <1>5, <1>6, <1>7 DEF ConfigNext, Agent

\* When the commands of the owner and a start wait for each other, an agent
\* admits jobs only after the journal they are recorded in is pinned by the
\* configuration on disk: whatever fails, and however the disk changes.
THEOREM ConfigPinnedBeforeAdmission ==
  ASSUME ~Overlap PROVE ConfigSpec => PinnedBeforeAdmission
<1>1. ConfigInit => StartsUndisturbed
  BY DEF ConfigInit, StartsUndisturbed, Starting
<1>2. ASSUME ConfigInv, StartsUndisturbed, [ConfigNext]_configVars,
             process'.pc = "run", process.pc # "run"
      PROVE  config' # NoFile /\ process'.cfg.pin # 0 /\ config'.pin = process'.cfg.pin
  <2>1. AgentPrepare \/ AgentPin
    <3>1. ASSUME NEW p \in Procs, Command(p) PROVE FALSE
      <4>1. ASSUME NEW inAgent \in BOOLEAN, Unenroll(p, inAgent) PROVE FALSE
        BY <1>2, <4>1 DEF Unenroll
      <4>2. process' = process \/ \E inAgent \in BOOLEAN : Unenroll(p, inAgent)
        BY <3>1
           DEF Command, LoadToEdit, SaveEdit, EnrollBegin, EnrollRequest, EnrollRecheck,
               EnrollSave, Kill
      <4> QED BY <1>2, <4>1, <4>2
    <3>2. ~(AgentBegin \/ AgentLoad \/ AgentSaveIdentity \/ AgentExit)
      BY <1>2
         DEF AgentBegin, AgentLoad, AgentSaveIdentity, AgentExit, AgentGoes, Refuse, ConfigInv,
             AgentTyped
    <3>3. ~(RemoveLock \/ CleanupCache \/ CleanupConfig \/ JournalReplaced
             \/ UNCHANGED configVars \/ \E m \in Machines : Restore(m))
      BY <1>2 DEF RemoveLock, CleanupCache, CleanupConfig, JournalReplaced, Restore, configVars
    <3> QED BY <1>2, <3>1, <3>2, <3>3 DEF ConfigNext, Agent
  <2>2. process'.cfg.pin # 0
    BY <1>2, ConfigStep DEF ConfigInv, AgentTyped
  <2>3. CASE AgentPrepare
    <3>1. /\ process' = [process EXCEPT !.pc = IF process.cfg.pin = journal' THEN "run" ELSE "pin",
                                        !.cfg.pin = journal']
          /\ config' = config
      BY <1>2, <2>3 DEF AgentPrepare, Refuse
    <3>2. process.cfg \in Configs
      BY <2>3, <1>2 DEF AgentPrepare, ConfigInv, AgentTyped
    <3>3. process'.cfg.pin = journal' /\ process.cfg.pin = journal'
      BY <1>2, <3>1, <3>2 DEF ConfigInv, AgentTyped, Configs
    <3> QED BY <1>2, <2>2, <2>3, <3>1, <3>3 DEF AgentPrepare, StartsUndisturbed
  <2>4. CASE AgentPin
    <3>1. process.cfg \in Configs
      BY <1>2, <2>4 DEF AgentPin, ConfigInv, AgentTyped
    <3>2. config' = Written(process.cfg) /\ process'.cfg = process.cfg
      BY <1>2, <2>4 DEF AgentPin, Save, Refuse, AgentGoes, ConfigInv, AgentTyped
    <3> QED BY <2>2, <3>1, <3>2, ConfigsKept, ConfigAssumption
  <2> QED BY <2>1, <2>2, <2>3, <2>4
<1>3. ConfigInv /\ StartsUndisturbed /\ [ConfigNext]_configVars =>
        [process'.pc = "run" /\ process.pc # "run" =>
           config' # NoFile /\ process'.cfg.pin # 0 /\ config'.pin = process'.cfg.pin]_configVars
  BY <1>2
<1>4. ConfigInv /\ StartsUndisturbed /\ [ConfigNext]_configVars => StartsUndisturbed'
  BY StartsUndisturbedStep
<1> QED
  BY <1>1, <1>3, <1>4, ConfigInvariant, PTL DEF ConfigSpec, PinnedBeforeAdmission

(***************************************************************************)
(* The hours a schedule is open, for days and weeks of any length.          *)
(***************************************************************************)

\* An hour of the week is an hour of a day.
LEMMA HourAndDay ==
  ASSUME NEW t \in Hours
  PROVE  /\ t \div HoursPerDay \in Day /\ t % HoursPerDay \in HourOfDay
         /\ t = (t \div HoursPerDay) * HoursPerDay + (t % HoursPerDay)
<1>1. /\ t \in Int /\ t = (t \div HoursPerDay) * HoursPerDay + (t % HoursPerDay)
      /\ t % HoursPerDay \in 0 .. HoursPerDay - 1 /\ t \div HoursPerDay \in Int
  BY ScheduleAssumption DEF Hours
<1>2. ASSUME NEW q \in Int, NEW r \in 0 .. HoursPerDay - 1,
             q * HoursPerDay + r \in 0 .. HoursPerDay * WeekDays - 1
      PROVE  q \in 0 .. WeekDays - 1
  BY <1>2, ScheduleAssumption
<1> QED BY <1>1, <1>2 DEF Hours, Day, HourOfDay

LEMMA HourOfDayAndDay ==
  ASSUME NEW d \in Day, NEW h \in HourOfDay
  PROVE  /\ d * HoursPerDay + h \in Hours
         /\ (d * HoursPerDay + h) \div HoursPerDay = d
         /\ (d * HoursPerDay + h) % HoursPerDay = h
<1>1. HoursPerDay \in Nat \ {0} /\ WeekDays \in Nat \ {0}
  BY ScheduleAssumption
<1>2. d \in 0 .. WeekDays - 1 /\ h \in 0 .. HoursPerDay - 1
  BY DEF Day, HourOfDay
<1>3. d * HoursPerDay + h \in 0 .. HoursPerDay * WeekDays - 1
  BY <1>1, <1>2
<1>4. (d * HoursPerDay + h) \div HoursPerDay = d /\ (d * HoursPerDay + h) % HoursPerDay = h
  BY <1>1, <1>2
<1> QED BY <1>3, <1>4 DEF Hours

\* Hours of a day that follow it into the next one, at the end of the week too.
NextDay(d) == IF d = WeekDays - 1 THEN 0 ELSE d + 1

LEMMA Neighbours ==
  ASSUME NEW d \in Day
  PROVE  /\ NextDay(d) \in Day /\ PreviousWeekday(d) \in Day
         /\ PreviousWeekday(NextDay(d)) = d /\ NextDay(PreviousWeekday(d)) = d
<1>1. WeekDays \in Nat \ {0, 1} /\ d \in 0 .. WeekDays - 1
  BY ScheduleAssumption DEF Day
<1>2. ASSUME NEW e \in Day
      PROVE  PreviousWeekday(e) = IF e = 0 THEN WeekDays - 1 ELSE e - 1
  <2>1. e \in 0 .. WeekDays - 1
    BY DEF Day
  <2>2. CASE e = 0
    BY <1>1, <2>1, <2>2 DEF PreviousWeekday
  <2>3. CASE e # 0
    <3>1. e + WeekDays - 1 = 1 * WeekDays + (e - 1) /\ e - 1 \in 0 .. WeekDays - 1
      BY <1>1, <2>1, <2>3
    <3>2. (1 * WeekDays + (e - 1)) % WeekDays = e - 1
      BY <1>1, <3>1
    <3> QED BY <2>3, <3>1, <3>2 DEF PreviousWeekday
  <2> QED BY <2>2, <2>3
<1>3. NextDay(d) \in Day
  BY <1>1 DEF NextDay, Day
<1> QED BY <1>1, <1>2, <1>3 DEF NextDay, Day

LEMMA LaterThatDay ==
  ASSUME NEW d \in Day, NEW h \in Int, NEW k \in Int, h + k \in HourOfDay
  PROVE  Later(d * HoursPerDay + h, k) = d * HoursPerDay + (h + k)
<1>1. d * HoursPerDay + (h + k) \in 0 .. HoursPerDay * WeekDays - 1
  BY HourOfDayAndDay DEF Hours
<1>2. /\ HoursPerDay \in Nat \ {0} /\ WeekDays \in Nat \ {0} /\ d \in Int
      /\ HoursPerDay * WeekDays \in Nat \ {0} /\ d * HoursPerDay \in Int
  BY ScheduleAssumption DEF Day
<1>3. d * HoursPerDay + h + k = d * HoursPerDay + (h + k)
  BY <1>2
<1>4. ASSUME NEW n \in Nat \ {0}, NEW x \in 0 .. n - 1 PROVE x % n = x
  BY <1>4
<1> QED BY <1>1, <1>2, <1>3, <1>4 DEF Later

LEMMA LaterNextDay ==
  ASSUME NEW d \in Day, NEW h \in Int, NEW k \in Int, h + k - HoursPerDay \in HourOfDay
  PROVE  Later(d * HoursPerDay + h, k) = NextDay(d) * HoursPerDay + (h + k - HoursPerDay)
<1> DEFINE n == HoursPerDay * WeekDays
           r == h + k - HoursPerDay
<1>1. /\ HoursPerDay \in Nat \ {0} /\ WeekDays \in Nat \ {0} /\ d \in 0 .. WeekDays - 1
      /\ n \in Nat \ {0} /\ r \in 0 .. HoursPerDay - 1 /\ d * HoursPerDay \in Int
  BY ScheduleAssumption DEF Day, HourOfDay
<1>2. d * HoursPerDay + h + k = (d + 1) * HoursPerDay + r
  BY <1>1
<1>3. ASSUME NEW m \in Nat \ {0}, NEW x \in 0 .. m - 1
      PROVE  x % m = x /\ (m + x) % m = x
  <2>1. (0 * m + x) % m = x /\ (1 * m + x) % m = x
    BY <1>3
  <2> QED BY <2>1, <1>3
<1>4. NextDay(d) * HoursPerDay + r \in 0 .. n - 1
  BY Neighbours, HourOfDayAndDay DEF Hours
<1>5. CASE d = WeekDays - 1
  <2>1. (d + 1) * HoursPerDay + r = n + (NextDay(d) * HoursPerDay + r)
    BY <1>1, <1>5 DEF NextDay
  <2> HIDE DEF n, r
  <2>2. (n + (NextDay(d) * HoursPerDay + r)) % n = NextDay(d) * HoursPerDay + r
    BY <1>1, <1>3, <1>4
  <2> QED BY <1>2, <2>1, <2>2 DEF Later, n, r
<1>6. CASE d # WeekDays - 1
  <2>1. (d + 1) * HoursPerDay + r = NextDay(d) * HoursPerDay + r
    BY <1>6 DEF NextDay
  <2> HIDE DEF n, r
  <2>2. (NextDay(d) * HoursPerDay + r) % n = NextDay(d) * HoursPerDay + r
    BY <1>1, <1>3, <1>4
  <2> QED BY <1>2, <2>1, <2>2 DEF Later, n, r
<1> QED BY <1>5, <1>6

\* The days a list of names means.
DaysIn(days) == IF days \cap Day = {} THEN Day ELSE days \cap Day

LEMMA DaysNormalized ==
  ASSUME NEW days
  PROVE  /\ NormalizeDays(days) \subseteq Day
         /\ NormalizeDays(NormalizeDays(days)) = NormalizeDays(days)
         /\ DaysIn(NormalizeDays(days)) = DaysIn(days) /\ DaysIn(days) \subseteq Day
         /\ \A d \in Day : DayMatches(days, d) <=> d \in DaysIn(days)
<1>1. Day # {}
  BY ScheduleAssumption DEF Day
<1> QED BY <1>1 DEF NormalizeDays, DaysIn, DayMatches

\* A window whose hours were checked.
Checked == [start : HourOfDay, end : HourOfDay, days : SUBSET (Day \cup {NoDay})]

LEMMA HoursOfDay ==
  ASSUME NEW h \in HourOfDay
  PROVE  h \in Int /\ 0 <= h /\ h < HoursPerDay /\ HoursPerDay \in Int /\ ClampHour(h) = h
BY ScheduleAssumption DEF HourOfDay, ClampHour

\* What the clock says of a window are the hours that follow its start on each of
\* its days, until its end: the code's comparisons are right at midnight and at the
\* end of the week.
LEMMA WindowHours ==
  ASSUME NEW w \in Checked, NEW t \in Hours
  PROVE  WindowActive(w, t) <=> t \in HoursOf(w)
<1> DEFINE hour == t % HoursPerDay
           day == t \div HoursPerDay
           days == DaysIn(w.days)
           first == IF w.start = w.end THEN 0 ELSE w.start
           length == IF w.start = w.end THEN HoursPerDay
                     ELSE (w.end - w.start + HoursPerDay) % HoursPerDay
<1>1. day \in Day /\ hour \in HourOfDay /\ t = day * HoursPerDay + hour
  BY HourAndDay
<1>2. w.start \in HourOfDay /\ w.end \in HourOfDay
  BY DEF Checked
<1>3. days \subseteq Day /\ \A d \in Day : DayMatches(w.days, d) <=> d \in days
  BY DaysNormalized
<1>4. t \in HoursOf(w) <=>
        \E d \in days, k \in 0 .. length - 1 : t = Later(d * HoursPerDay + first, k)
  BY DEF HoursOf, DaysIn
<1>5. /\ ClampHour(w.start) = w.start /\ ClampHour(w.end) = w.end
      /\ w.start \in Int /\ 0 <= w.start /\ w.start < HoursPerDay
      /\ w.end \in Int /\ 0 <= w.end /\ w.end < HoursPerDay
      /\ hour \in Int /\ 0 <= hour /\ hour < HoursPerDay /\ HoursPerDay \in Int
  BY <1>1, <1>2, HoursOfDay
<1>6. WindowActive(w, t) <=>
        \/ w.start = w.end /\ day \in days
        \/ w.start < w.end /\ hour >= w.start /\ hour < w.end /\ day \in days
        \/ w.start > w.end /\ hour >= w.start /\ day \in days
        \/ w.start > w.end /\ hour < w.end /\ PreviousWeekday(day) \in days
  BY <1>1, <1>3, <1>5, Neighbours DEF WindowActive
<1>7. ASSUME NEW x \in Int, 0 <= x, x < HoursPerDay PROVE x \in HourOfDay
  BY <1>7, ScheduleAssumption DEF HourOfDay
\* An hour of the week is that of one day and one hour.
<1>8. ASSUME NEW d \in Day, NEW h \in HourOfDay, t = d * HoursPerDay + h
      PROVE  d = day /\ h = hour
  BY <1>8, HourOfDayAndDay
<1> HIDE DEF hour, day, days
<1>9. CASE w.start = w.end
  <2>1. first = 0 /\ length = HoursPerDay
    BY <1>9
  <2> HIDE DEF first, length
  <2>2. ASSUME NEW d \in days, NEW k \in 0 .. length - 1, t = Later(d * HoursPerDay + first, k)
        PROVE  day \in days
    <3>1. k \in HourOfDay /\ d \in Day /\ k \in Int /\ 0 + k = k
      BY <1>3, <1>5, <1>7, <2>1, <2>2
    <3>2. t = d * HoursPerDay + k
      BY <2>1, <2>2, <3>1, LaterThatDay
    <3> QED BY <1>8, <2>2, <3>1, <3>2
  <2>3. ASSUME day \in days
        PROVE  \E d \in days, k \in 0 .. length - 1 : t = Later(d * HoursPerDay + first, k)
    <3>1. hour \in 0 .. length - 1 /\ 0 + hour = hour
      BY <1>5, <2>1
    <3>2. Later(day * HoursPerDay + 0, hour) = day * HoursPerDay + (0 + hour)
      <4>1. 0 \in Int /\ hour \in Int /\ 0 + hour \in HourOfDay
        BY <1>1, <1>5, <3>1
      <4> QED BY <1>1, <4>1, LaterThatDay
    <3>3. t = Later(day * HoursPerDay + first, hour)
      BY <1>1, <2>1, <3>1, <3>2
    <3> QED BY <2>3, <3>1, <3>3
  <2> QED BY <1>4, <1>5, <1>6, <1>9, <2>2, <2>3
<1>10. CASE w.start < w.end
  <2>1. first = w.start /\ length = w.end - w.start
    <3>1. w.end - w.start \in 0 .. HoursPerDay - 1 /\ HoursPerDay \in Nat \ {0}
      BY <1>5, <1>10
    <3>2. (1 * HoursPerDay + (w.end - w.start)) % HoursPerDay = w.end - w.start
      BY <3>1
    <3>3. w.end - w.start + HoursPerDay = 1 * HoursPerDay + (w.end - w.start)
      BY <1>5
    <3> QED BY <1>5, <1>10, <3>2, <3>3
  <2> HIDE DEF first, length
  <2>2. ASSUME NEW d \in days, NEW k \in 0 .. length - 1, t = Later(d * HoursPerDay + first, k)
        PROVE  day \in days /\ hour >= w.start /\ hour < w.end
    <3>1. w.start + k \in HourOfDay /\ d \in Day /\ k \in Int /\ 0 <= k /\ w.start + k < w.end
      BY <1>3, <1>5, <1>7, <2>1, <2>2
    <3>2. t = d * HoursPerDay + (w.start + k)
      BY <1>5, <2>1, <2>2, <3>1, LaterThatDay
    <3>3. d = day /\ w.start + k = hour
      BY <1>8, <3>1, <3>2
    <3> QED BY <1>5, <2>2, <3>1, <3>3
  <2>3. ASSUME day \in days, hour >= w.start, hour < w.end
        PROVE  \E d \in days, k \in 0 .. length - 1 : t = Later(d * HoursPerDay + first, k)
    <3> DEFINE k == hour - w.start
    <3>1. k \in 0 .. length - 1 /\ k \in Int /\ w.start + k = hour
      BY <1>5, <2>1, <2>3
    <3> HIDE DEF k
    <3>2. Later(day * HoursPerDay + w.start, k) = day * HoursPerDay + (w.start + k)
      BY <1>1, <1>5, <3>1, LaterThatDay
    <3>3. t = Later(day * HoursPerDay + first, k)
      BY <1>1, <2>1, <3>1, <3>2
    <3> QED BY <2>3, <3>1, <3>3
  <2> QED BY <1>4, <1>5, <1>6, <1>10, <2>2, <2>3
<1>11. CASE w.start > w.end
  <2>1. first = w.start /\ length = w.end - w.start + HoursPerDay
    <3>1. w.end - w.start + HoursPerDay \in 0 .. HoursPerDay - 1 /\ HoursPerDay \in Nat \ {0}
      BY <1>5, <1>11
    <3>2. (0 * HoursPerDay + (w.end - w.start + HoursPerDay)) % HoursPerDay
            = w.end - w.start + HoursPerDay
      BY <3>1
    <3> QED BY <1>5, <1>11, <3>1, <3>2
  <2> HIDE DEF first, length
  <2>2. ASSUME NEW d \in days, NEW k \in 0 .. length - 1, t = Later(d * HoursPerDay + first, k)
        PROVE  \/ day \in days /\ hour >= w.start
               \/ PreviousWeekday(day) \in days /\ hour < w.end
    <3>1. d \in Day /\ k \in Int /\ 0 <= k /\ w.start + k < w.end + HoursPerDay
      BY <1>3, <1>5, <2>1, <2>2
    <3>2. CASE w.start + k < HoursPerDay
      <4>1. w.start + k \in HourOfDay
        BY <1>5, <1>7, <3>1, <3>2
      <4>2. t = d * HoursPerDay + (w.start + k)
        BY <1>5, <2>1, <2>2, <3>1, <4>1, LaterThatDay
      <4>3. d = day /\ w.start + k = hour
        BY <1>8, <3>1, <4>1, <4>2
      <4> QED BY <1>5, <2>2, <3>1, <4>3
    <3>3. CASE w.start + k >= HoursPerDay
      <4>1. w.start + k - HoursPerDay \in HourOfDay /\ w.start + k - HoursPerDay < w.end
        BY <1>5, <1>7, <3>1, <3>3
      <4>2. t = NextDay(d) * HoursPerDay + (w.start + k - HoursPerDay)
        BY <1>5, <2>1, <2>2, <3>1, <4>1, LaterNextDay
      <4>3. NextDay(d) = day /\ w.start + k - HoursPerDay = hour
        BY <1>8, <3>1, <4>1, <4>2, Neighbours
      <4> QED BY <2>2, <3>1, <4>1, <4>3, Neighbours
    <3> QED BY <1>5, <3>1, <3>2, <3>3
  <2>3. ASSUME day \in days, hour >= w.start
        PROVE  \E d \in days, k \in 0 .. length - 1 : t = Later(d * HoursPerDay + first, k)
    <3> DEFINE k == hour - w.start
    <3>1. k \in 0 .. length - 1 /\ k \in Int /\ w.start + k = hour
      BY <1>5, <2>1, <2>3
    <3> HIDE DEF k
    <3>2. Later(day * HoursPerDay + w.start, k) = day * HoursPerDay + (w.start + k)
      BY <1>1, <1>5, <3>1, LaterThatDay
    <3>3. t = Later(day * HoursPerDay + first, k)
      BY <1>1, <2>1, <3>1, <3>2
    <3> QED BY <2>3, <3>1, <3>3
  <2>4. ASSUME PreviousWeekday(day) \in days, hour < w.end
        PROVE  \E d \in days, k \in 0 .. length - 1 : t = Later(d * HoursPerDay + first, k)
    <3> DEFINE k == hour + HoursPerDay - w.start
               d == PreviousWeekday(day)
    <3>1. /\ k \in 0 .. length - 1 /\ k \in Int /\ w.start + k - HoursPerDay = hour
          /\ d \in Day /\ NextDay(d) = day
      BY <1>1, <1>5, <2>1, <2>4, Neighbours
    <3> HIDE DEF k, d
    <3>2. t = Later(d * HoursPerDay + first, k)
      BY <1>1, <1>5, <2>1, <3>1, LaterNextDay
    <3> QED BY <2>4, <3>1, <3>2 DEF d
  <2> QED BY <1>4, <1>5, <1>6, <1>11, <2>2, <2>3, <2>4
<1> QED BY <1>5, <1>9, <1>10, <1>11

LEMMA HoursOfAreHours == ASSUME NEW w \in Checked PROVE HoursOf(w) \subseteq Hours
<1>1. ASSUME NEW x \in Int, NEW n \in Nat \ {0} PROVE x % n \in 0 .. n - 1
  OBVIOUS
<1>2. HoursPerDay * WeekDays \in Nat \ {0} /\ HoursPerDay \in Int
  BY ScheduleAssumption
<1>3. ASSUME NEW d \in Int, NEW first \in Int, NEW k \in Int
      PROVE  Later(d * HoursPerDay + first, k) \in Hours
  <2>1. d * HoursPerDay + first + k \in Int
    BY <1>2
  <2> QED BY <1>1, <1>2, <2>1 DEF Later, Hours
<1>4. w.start \in Int
  BY HoursOfDay DEF Checked
<1>5. DaysIn(w.days) \subseteq Int
  BY DaysNormalized DEF Day
<1> QED BY <1>3, <1>4, <1>5 DEF HoursOf, DaysIn

\* A schedule as it is saved, by this version or an older one.
Schedules == [enabled : BOOLEAN, start : HourOfDay, end : HourOfDay, windows : SUBSET Checked]

\* The windows a schedule means, and their hours.
Meant(s) == IF s.windows # {} THEN s.windows
            ELSE {[start |-> s.start, end |-> s.end, days |-> {}]}
Covered(s) == UNION {HoursOf(w) : w \in Meant(s)}

LEMMA WindowNormalized ==
  ASSUME NEW w \in Checked
  PROVE  /\ NormalizeWindow(w) \in Checked
         /\ NormalizeWindow(NormalizeWindow(w)) = NormalizeWindow(w)
         /\ HoursOf(NormalizeWindow(w)) = HoursOf(w)
<1>1. w.start \in HourOfDay /\ w.end \in HourOfDay
  BY DEF Checked
<1>2. ClampHour(w.start) = w.start /\ ClampHour(w.end) = w.end
  BY <1>1, HoursOfDay
<1>3. NormalizeWindow(w) = [start |-> w.start, end |-> w.end, days |-> NormalizeDays(w.days)]
  BY <1>2 DEF NormalizeWindow
<1>4. NormalizeWindow(w) \in Checked
  BY <1>1, <1>3, DaysNormalized DEF Checked
<1>5. NormalizeWindow(NormalizeWindow(w)) = NormalizeWindow(w)
  BY <1>2, <1>3, DaysNormalized DEF NormalizeWindow
<1>6. HoursOf(NormalizeWindow(w)) = HoursOf(w)
  <2>1. /\ NormalizeWindow(w).start = w.start /\ NormalizeWindow(w).end = w.end
        /\ DaysIn(NormalizeWindow(w).days) = DaysIn(w.days)
    BY <1>3, DaysNormalized
  <2> QED BY <2>1 DEF HoursOf, DaysIn
<1> QED BY <1>4, <1>5, <1>6

LEMMA MeantAreChecked ==
  ASSUME NEW s \in Schedules PROVE Meant(s) \subseteq Checked /\ Meant(s) # {}
<1>1. /\ s.windows \subseteq Checked
      /\ [start |-> s.start, end |-> s.end, days |-> {}] \in Checked
  BY DEF Schedules, Checked
<1> QED BY <1>1 DEF Meant

\* Normalizing a schedule twice is normalizing it once.
LEMMA WindowsOfNormalized ==
  ASSUME NEW s \in Schedules
  PROVE  ScheduleWindows(NormalizeSchedule(s)) = {NormalizeWindow(w) : w \in Meant(s)}
<1> DEFINE windows == {NormalizeWindow(w) : w \in Meant(s)}
<1>1. ScheduleWindows(s) = windows
  BY DEF ScheduleWindows, Meant
<1>2. NormalizeSchedule(s).windows = windows /\ windows # {}
  BY <1>1, MeantAreChecked DEF NormalizeSchedule, Schedules
<1>3. ScheduleWindows(NormalizeSchedule(s)) = {NormalizeWindow(v) : v \in windows}
  BY <1>2 DEF ScheduleWindows
<1>4. {NormalizeWindow(v) : v \in windows} = windows
  BY MeantAreChecked, WindowNormalized
<1> QED BY <1>3, <1>4

LEMMA OpenIsCovered ==
  ASSUME NEW s \in Schedules PROVE OpenHours(s) = Covered(s)
<1>1. ASSUME NEW t \in Hours, NEW w \in Meant(s)
      PROVE  WindowActive(NormalizeWindow(w), t) <=> t \in HoursOf(w)
  BY MeantAreChecked, WindowNormalized, WindowHours
<1>2. OpenHours(s) = {t \in Hours : \E w \in Meant(s) : WindowActive(NormalizeWindow(w), t)}
  BY WindowsOfNormalized DEF OpenHours, ScheduleOpen
<1>3. Covered(s) \subseteq Hours
  BY MeantAreChecked, HoursOfAreHours DEF Covered
<1> QED BY <1>1, <1>2, <1>3 DEF Covered

\* A file that is saved and read again keeps its hours.
LEMMA SavedIsCovered ==
  ASSUME NEW s \in Schedules
  PROVE  /\ Saved(s) \in Schedules /\ Covered(Saved(s)) = Covered(s)
         /\ Saved(s).enabled = s.enabled
<1> DEFINE windows == {NormalizeWindow(w) : w \in Meant(s)}
<1>1. Saved(s) = [enabled |-> s.enabled, start |-> 0, end |-> 0, windows |-> windows]
  BY WindowsOfNormalized DEF Saved
<1>2. windows \subseteq Checked /\ windows # {}
  BY MeantAreChecked, WindowNormalized
<1>3. 0 \in HourOfDay
  BY ScheduleAssumption DEF HourOfDay
<1>4. Saved(s) \in Schedules
  BY <1>1, <1>2, <1>3 DEF Schedules
<1>5. Meant(Saved(s)) = windows
  BY <1>1, <1>2 DEF Meant
<1>6. \A w \in Meant(s) : HoursOf(NormalizeWindow(w)) = HoursOf(w)
  BY MeantAreChecked, WindowNormalized
<1>7. Covered(Saved(s)) = Covered(s)
  BY <1>5, <1>6 DEF Covered
<1> QED BY <1>1, <1>4, <1>7

ScheduleInv ==
  /\ now \in Hours /\ paused \in BOOLEAN /\ schedule \in Schedules
  /\ hoursAsked = Covered(schedule)

LEMMA ScheduleInitially == ASSUME ScheduleInit PROVE ScheduleInv
<1>1. CASE schedule = Saved(NeverScheduled) /\ hoursAsked = Hours
  <2> DEFINE whole == [start |-> 0, end |-> 0, days |-> {}]
  <2>1. 0 \in HourOfDay
    BY ScheduleAssumption DEF HourOfDay
  <2>2. NeverScheduled \in Schedules /\ whole \in Checked
    BY <2>1 DEF NeverScheduled, Schedules, Checked
  <2>3. Meant(NeverScheduled) = {whole}
    BY DEF Meant, NeverScheduled
  <2>4. Covered(NeverScheduled) = HoursOf(whole)
    BY <2>3 DEF Covered
  <2>5. ASSUME NEW t \in Hours PROVE t \in HoursOf(whole)
    <3>1. WindowActive(whole, t)
      BY HourAndDay, DaysNormalized DEF WindowActive, DaysIn
    <3> QED BY <2>2, <3>1, WindowHours
  <2>6. HoursOf(whole) = Hours
    BY <2>2, <2>5, HoursOfAreHours
  <2> QED BY <1>1, <2>2, <2>4, <2>6, SavedIsCovered DEF ScheduleInit, ScheduleInv
<1>2. ASSUME NEW start \in HourOfDay, NEW end \in HourOfDay,
             schedule = [enabled |-> TRUE, start |-> start, end |-> end, windows |-> {}],
             hoursAsked = HoursOf([start |-> start, end |-> end, days |-> {}])
      PROVE  ScheduleInv
  <2>1. schedule \in Schedules
    BY <1>2 DEF Schedules
  <2>2. Meant(schedule) = {[start |-> start, end |-> end, days |-> {}]}
    BY <1>2 DEF Meant
  <2> QED BY <1>2, <2>1, <2>2 DEF ScheduleInit, ScheduleInv, Covered
<1> QED BY <1>1, <1>2 DEF ScheduleInit

\* A command that stores the windows a schedule means asks for their hours.
LEMMA StoreKeepsHours ==
  ASSUME ScheduleInv, NEW s \in Schedules, NEW hours, Store(s, hours), hours = Covered(s)
  PROVE  ScheduleInv'
<1>1. schedule' = Saved(s) /\ hoursAsked' = hours /\ now' = now /\ paused' = paused
  BY DEF Store
<1> QED BY <1>1, SavedIsCovered DEF ScheduleInv

LEMMA CmdScheduleKeepsHours ==
  ASSUME ScheduleInv, NEW w \in Requests, NEW add \in BOOLEAN, CmdSchedule(w, add)
  PROVE  ScheduleInv'
<1> DEFINE parsed == [w EXCEPT !.days = NormalizeDays(w.days)]
           added == IF add THEN {NormalizeWindow(v) : v \in Meant(schedule)} ELSE {}
           s == [enabled |-> TRUE, start |-> 0, end |-> 0, windows |-> {parsed} \cup added]
           hours == HoursOf(w) \cup (IF add THEN hoursAsked ELSE {})
<1>1. schedule \in Schedules /\ hoursAsked = Covered(schedule)
  BY DEF ScheduleInv
<1>2. w \in [start : Int, end : Int, days : SUBSET (Day \cup {NoDay})]
  BY ScheduleAssumption
<1>3. CASE RefuseWindow(w)
  BY <1>3 DEF RefuseWindow, ScheduleInv
<1>4. CASE w.start \in HourOfDay /\ w.end \in HourOfDay /\ Store(s, hours)
  <2>1. w \in Checked /\ parsed \in Checked
    BY <1>2, <1>4, DaysNormalized DEF Checked
  <2>2. added \subseteq Checked
    BY <1>1, MeantAreChecked, WindowNormalized
  <2>3. 0 \in HourOfDay
    BY ScheduleAssumption DEF HourOfDay
  <2>4. s \in Schedules
    BY <2>1, <2>2, <2>3 DEF Schedules
  <2>5. HoursOf(parsed) = HoursOf(w)
    <3>1. /\ parsed.start = w.start /\ parsed.end = w.end
          /\ DaysIn(parsed.days) = DaysIn(w.days)
      BY <1>2, DaysNormalized
    <3> HIDE DEF parsed
    <3> QED BY <3>1 DEF HoursOf, DaysIn
  <2>6. UNION {HoursOf(v) : v \in added} = IF add THEN hoursAsked ELSE {}
    <3>1. \A v \in Meant(schedule) : HoursOf(NormalizeWindow(v)) = HoursOf(v)
      BY <1>1, MeantAreChecked, WindowNormalized
    <3>2. CASE add
      BY <1>1, <3>1, <3>2 DEF Covered
    <3> QED BY <3>2
  <2>7. Covered(s) = hours
    <3>1. Meant(s) = {parsed} \cup added
      BY DEF Meant
    <3> HIDE DEF s, added, parsed
    <3>2. Covered(s) = HoursOf(parsed) \cup UNION {HoursOf(v) : v \in added}
      BY <3>1 DEF Covered
    <3> QED BY <2>5, <2>6, <3>2
  <2> HIDE DEF s, hours
  <2> QED BY <1>4, <2>4, <2>7, StoreKeepsHours
<1>5. \/ RefuseWindow(w)
      \/ w.start \in HourOfDay /\ w.end \in HourOfDay /\ Store(s, hours)
  <2>1. ScheduleWindows(NormalizeSchedule(schedule)) = {NormalizeWindow(v) : v \in Meant(schedule)}
    BY <1>1, WindowsOfNormalized
  <2> QED BY <2>1 DEF CmdSchedule, InDay
<1> QED BY <1>3, <1>4, <1>5

LEMMA GuiScheduleKeepsHours ==
  ASSUME ScheduleInv, NEW w \in Requests, NEW enabled \in BOOLEAN, GuiSchedule(w, enabled)
  PROVE  ScheduleInv'
<1> DEFINE s == [schedule EXCEPT !.enabled = enabled, !.windows = {w}]
<1>1. schedule \in Schedules
  BY DEF ScheduleInv
<1>2. CASE RefuseWindow(w)
  BY <1>2 DEF RefuseWindow, ScheduleInv
<1>3. CASE ValidateSchedule(s) /\ Store(s, HoursOf(w))
  <2>1. s.windows = {w}
    BY <1>1 DEF Schedules
  <2>2. w.start \in HourOfDay /\ w.end \in HourOfDay
    BY <1>3, <2>1 DEF ValidateSchedule, InDay
  <2>3. w \in [start : Int, end : Int, days : SUBSET (Day \cup {NoDay})]
    BY ScheduleAssumption
  <2>4. w \in Checked
    BY <2>2, <2>3 DEF Checked
  <2>5. s \in Schedules
    BY <1>1, <2>4 DEF Schedules
  <2>6. Covered(s) = HoursOf(w)
    BY <2>1 DEF Covered, Meant
  <2> HIDE DEF s
  <2> QED BY <1>3, <2>5, <2>6, StoreKeepsHours
<1> QED BY <1>2, <1>3 DEF GuiSchedule

LEMMA ScheduleStep ==
  ASSUME ScheduleInv, [ScheduleNext]_scheduleVars
  PROVE  ScheduleInv'
<1>1. /\ schedule \in Schedules /\ hoursAsked = Covered(schedule)
      /\ now \in Hours /\ paused \in BOOLEAN
  BY DEF ScheduleInv
<1>2. Saved(schedule) \in Schedules /\ Covered(Saved(schedule)) = Covered(schedule)
  BY <1>1, SavedIsCovered
<1>3. ASSUME NEW enabled \in BOOLEAN, NEW r \in Schedules
      PROVE  /\ [r EXCEPT !.enabled = enabled] \in Schedules
             /\ Covered([r EXCEPT !.enabled = enabled]) = Covered(r)
  <2>1. [r EXCEPT !.enabled = enabled] \in Schedules
    BY DEF Schedules
  <2>2. Meant([r EXCEPT !.enabled = enabled]) = Meant(r)
    BY DEF Meant, Schedules
  <2> QED BY <2>1, <2>2 DEF Covered
<1>4. CASE UNCHANGED scheduleVars
  BY <1>4 DEF scheduleVars, ScheduleInv
<1>5. CASE Tick
  <2>1. Later(now, 1) \in Hours
    <3>1. ASSUME NEW x \in Int, NEW n \in Nat \ {0} PROVE x % n \in 0 .. n - 1
      OBVIOUS
    <3>2. HoursPerDay * WeekDays \in Nat \ {0} /\ now + 1 \in Int
      BY <1>1, ScheduleAssumption DEF Hours
    <3> QED BY <3>1, <3>2 DEF Later, Hours
  <2> QED BY <1>1, <1>5, <2>1 DEF Tick, ScheduleInv
<1>6. ASSUME NEW p \in BOOLEAN, SetPaused(p) PROVE ScheduleInv'
  BY <1>1, <1>2, <1>6 DEF SetPaused, ScheduleInv
<1>7. CASE CmdScheduleOff
  <2>1. /\ schedule' = [Saved(schedule) EXCEPT !.enabled = FALSE] /\ hoursAsked' = hoursAsked
        /\ now' = now /\ paused' = paused
    BY <1>7 DEF CmdScheduleOff
  <2> QED BY <1>1, <1>2, <1>3, <2>1 DEF ScheduleInv
<1>8. CASE GuiDraft
  <2> DEFINE s == [schedule EXCEPT !.enabled = FALSE]
  <2>1. s \in Schedules /\ Covered(s) = hoursAsked
    BY <1>1, <1>3
  <2>2. Store(s, hoursAsked)
    BY <1>8 DEF GuiDraft
  <2> HIDE DEF s
  <2> QED BY <2>1, <2>2, StoreKeepsHours
<1> QED BY <1>4, <1>5, <1>6, <1>7, <1>8, CmdScheduleKeepsHours, GuiScheduleKeepsHours
        DEF ScheduleNext

LEMMA ScheduleInvariant == ScheduleSpec => []ScheduleInv
BY ScheduleInitially, ScheduleStep, PTL DEF ScheduleSpec

\* The hours the code finds open are the hours the owner asked for, in days and
\* weeks of any length: over midnight and the end of the week, whatever days are
\* listed, after --add, and after any file was saved and read (schedule.go).
THEOREM ScheduleOpensAsAsked == ScheduleSpec => []OpenHoursAreAsked
<1>1. ScheduleInv => OpenHoursAreAsked
  BY OpenIsCovered DEF ScheduleInv, OpenHoursAreAsked
<1> QED BY <1>1, ScheduleInvariant, PTL

(***************************************************************************)
(* The announced transition.                                                *)
(***************************************************************************)

LEMMA LeastOfNats ==
  ASSUME NEW S, S \subseteq Nat, S # {}
  PROVE  Min(S) \in S /\ \A x \in S : Min(S) <= x
<1> DEFINE Less == {ss \in Nat \X Nat : ss[1] < ss[2]}
<1>1. IsWellFoundedOn(Less, Nat)
  BY NatLessThanWellFounded, Zenon DEF OpToRel
<1>2. PICK x \in S : \A y \in S : <<y, x>> \notin Less
  BY <1>1, WFMin
<1>3. ASSUME NEW y \in S PROVE x <= y
  <2>1. x \in Nat /\ y \in Nat
    OBVIOUS
  <2>2. y < x => <<y, x>> \in Less
    BY <2>1
  <2> QED BY <1>2, <2>1, <2>2
<1> QED BY <1>2, <1>3 DEF Min

\* Nothing is smaller than the least element, and there is only one.
LEMMA TheLeast ==
  ASSUME NEW S, S \subseteq Nat, NEW n \in S, \A x \in S : n <= x
  PROVE  Min(S) = n
<1>1. Min(S) \in S /\ n <= Min(S) /\ Min(S) <= n
  BY LeastOfNats
<1>2. Min(S) \in Nat /\ n \in Nat
  BY <1>1
<1> QED BY <1>1, <1>2

\* Every hour of the week comes within a week.
LEMMA LaterReaches ==
  ASSUME NEW t \in Hours, NEW u \in Hours
  PROVE  \E k \in 1 .. HoursPerDay * WeekDays : Later(t, k) = u
<1> DEFINE n == HoursPerDay * WeekDays
<1>1. n \in Nat \ {0} /\ t \in 0 .. n - 1 /\ u \in 0 .. n - 1
  BY ScheduleAssumption DEF Hours
<1> HIDE DEF n
<1>2. CASE u > t
  <2>1. u - t \in 1 .. n /\ t + (u - t) = 0 * n + u /\ (0 * n + u) % n = u
    BY <1>1, <1>2
  <2> QED BY <2>1 DEF Later, n
<1>3. CASE u <= t
  <2>1. u - t + n \in 1 .. n /\ t + (u - t + n) = 1 * n + u /\ (1 * n + u) % n = u
    BY <1>1, <1>3
  <2> QED BY <2>1 DEF Later, n
<1> QED BY <1>1, <1>2, <1>3

\* An hour later every hour is one hour nearer.
LEMMA LaterIsNearer ==
  ASSUME NEW t \in Hours, NEW k \in Nat
  PROVE  Later(Later(t, 1), k) = Later(t, k + 1) /\ Later(t, k) \in Hours
<1> DEFINE n == HoursPerDay * WeekDays
<1>1. n \in Nat \ {0} /\ t \in Int /\ k \in Int
  BY ScheduleAssumption DEF Hours
<1> HIDE DEF n
<1> DEFINE q == (t + 1) \div n
           r == (t + 1) % n
           p == (r + k) \div n
           s == (r + k) % n
<1>2. q \in Int /\ r \in 0 .. n - 1 /\ t + 1 = q * n + r
  BY <1>1
<1>3. p \in Int /\ s \in 0 .. n - 1 /\ r + k = p * n + s
  BY <1>1, <1>2
<1> HIDE DEF q, p
<1>4. t + (k + 1) = (q + p) * n + s
  <2> HIDE DEF r, s
  <2>1. t + (k + 1) = q * n + p * n + s
    BY <1>1, <1>2, <1>3
  <2> QED BY <1>1, <1>2, <1>3, <2>1
<1>5. ((q + p) * n + s) % n = s
  <2> HIDE DEF r, s
  <2>1. ASSUME NEW m \in Nat \ {0}, NEW x \in Int, NEW y \in 0 .. m - 1
        PROVE  (x * m + y) % m = y
    BY <2>1
  <2>2. q + p \in Int
    BY <1>2, <1>3
  <2> QED BY <1>1, <1>3, <2>1, <2>2
<1>6. (t + k) % n \in 0 .. n - 1
  BY <1>1
<1> QED BY <1>4, <1>5, <1>6 DEF Later, Hours, n

\* The hours within the horizon that are open, or closed.
Horizon == HoursPerDay * (WeekDays + 1)
Transitions(ws, t, wantOpen) ==
  {k \in 1 .. Horizon : ScheduleOpen(ws, Later(t, k)) = wantOpen}

LEMMA HorizonIsBeyondTheWeek ==
  Horizon \in Nat /\ Horizon >= 1 /\ HoursPerDay * WeekDays <= Horizon
  /\ HoursPerDay * WeekDays \in Nat
BY ScheduleAssumption DEF Horizon

\* If there is such an hour at all, the horizon is wide enough to find it, and in
\* the next hour it is found an hour nearer.
LEMMA TransitionIsNearer ==
  ASSUME NEW ws, NEW t \in Hours, NEW want \in BOOLEAN,
         NEW u \in Hours, ScheduleOpen(ws, u) = want
  PROVE  LET n == NextTransition(ws, t, want) IN
         /\ n \in 1 .. Horizon /\ ScheduleOpen(ws, Later(t, n)) = want
         /\ n # 1 => /\ ScheduleOpen(ws, Later(t, 1)) # want
                     /\ NextTransition(ws, Later(t, 1), want) = n - 1
<1> DEFINE S == Transitions(ws, t, want)
           T == Transitions(ws, Later(t, 1), want)
           n == Min(S)
<1>1. S \subseteq Nat /\ T \subseteq Nat
  BY HorizonIsBeyondTheWeek DEF Transitions
<1>2. S # {}
  <2>1. PICK k \in 1 .. HoursPerDay * WeekDays : Later(t, k) = u
    BY LaterReaches
  <2>2. k \in 1 .. Horizon
    BY HorizonIsBeyondTheWeek
  <2> QED BY <2>1, <2>2 DEF Transitions
<1>3. n \in S /\ \A x \in S : n <= x
  BY <1>1, <1>2, LeastOfNats
<1>4. NextTransition(ws, t, want) = n
  BY <1>2 DEF NextTransition, Transitions, Horizon
<1>5. n \in 1 .. Horizon /\ ScheduleOpen(ws, Later(t, n)) = want
  BY <1>3 DEF Transitions
<1>6. ASSUME n # 1
      PROVE  /\ ScheduleOpen(ws, Later(t, 1)) # want
             /\ NextTransition(ws, Later(t, 1), want) = n - 1
  <2> HIDE DEF n
  <2>1. 1 \notin S /\ 1 \in 1 .. Horizon /\ n \in Int /\ n > 1
    BY <1>3, <1>5, <1>6, HorizonIsBeyondTheWeek
  <2>2. ScheduleOpen(ws, Later(t, 1)) # want
    BY <2>1 DEF Transitions
  <2>3. n - 1 \in T
    <3>1. n - 1 \in 1 .. Horizon /\ n - 1 \in Nat /\ (n - 1) + 1 = n
      BY <1>5, <2>1, HorizonIsBeyondTheWeek
    <3>2. Later(Later(t, 1), n - 1) = Later(t, n)
      BY <3>1, LaterIsNearer
    <3> QED BY <1>5, <3>1, <3>2 DEF Transitions
  <2>4. ASSUME NEW k \in T PROVE n - 1 <= k
    <3>1. k \in 1 .. Horizon /\ k \in Nat /\ ScheduleOpen(ws, Later(Later(t, 1), k)) = want
      BY <1>1, <2>4 DEF Transitions
    <3>2. ScheduleOpen(ws, Later(t, k + 1)) = want
      BY <3>1, LaterIsNearer
    <3>3. CASE k + 1 \in 1 .. Horizon
      <4>1. k + 1 \in S
        BY <3>2, <3>3 DEF Transitions
      <4>2. n <= k + 1
        BY <1>3, <4>1
      <4> QED BY <2>1, <3>1, <4>2
    <3>4. CASE k + 1 \notin 1 .. Horizon
      BY <1>5, <2>1, <3>1, <3>4, HorizonIsBeyondTheWeek
    <3> QED BY <3>3, <3>4
  <2> HIDE DEF S, T
  <2>5. Min(T) = n - 1 /\ T # {}
    BY <1>1, <2>3, <2>4, TheLeast
  <2> USE DEF T
  <2> QED BY <2>2, <2>5 DEF NextTransition, Transitions, Horizon
<1> QED BY <1>4, <1>5, <1>6

\* What the window announces comes true: an hour later it is an hour nearer, and
\* the schedule opens or closes in the hour it was announced for (NextTransition,
\* EvaluateEarning).
THEOREM ScheduleLabelComesTrue == ScheduleSpec => LabelComesTrue
<1> DEFINE Comes == IF Status.next = 1 THEN Status'.open # Status.open
                    ELSE Status'.open = Status.open /\ Status'.next = Status.next - 1
<1>1. ASSUME ScheduleInv, Tick, Status.next # NoLabel, hoursAsked \notin {Hours, {}}
      PROVE  Comes
  <2> DEFINE ws == ScheduleWindows(NormalizeSchedule(schedule))
             open == ScheduleOpen(ws, now)
             soon == Later(now, 1)
  <2>1. now \in Hours /\ soon \in Hours /\ open \in BOOLEAN /\ (~open) \in BOOLEAN
    <3>1. now \in Hours /\ 1 \in Nat
      BY <1>1 DEF ScheduleInv
    <3>2. open \in BOOLEAN
      BY Zenon DEF ScheduleOpen
    <3> HIDE DEF open
    <3> QED BY <3>1, <3>2, LaterIsNearer
  <2>2. now' = soon /\ paused' = paused /\ schedule' = schedule
    BY <1>1 DEF Tick
  <2>3. ~paused /\ schedule.enabled
    BY <1>1 DEF Status, EvaluateEarning
  <2>4. Status.open = open /\ Status.next = NextTransition(ws, now, ~open)
    BY <2>3 DEF Status, EvaluateEarning
  <2>5. /\ Status'.open = ScheduleOpen(ws, soon)
        /\ Status'.next = NextTransition(ws, soon, ~ScheduleOpen(ws, soon))
    BY <2>2, <2>3 DEF Status, EvaluateEarning
  <2>6. hoursAsked = {t \in Hours : ScheduleOpen(ws, t)}
    BY <1>1, OpenIsCovered DEF ScheduleInv, OpenHours
  <2>7. PICK u \in Hours : ScheduleOpen(ws, u) = ~open
    <3>1. CASE open
      BY <1>1, <2>6, <3>1 DEF ScheduleOpen
    <3>2. CASE ~open
      BY <1>1, <2>6, <3>2 DEF ScheduleOpen
    <3> QED BY <3>1, <3>2
  <2> HIDE DEF ws, open, soon
  <2>8. LET n == NextTransition(ws, now, ~open) IN
        /\ n \in 1 .. Horizon /\ ScheduleOpen(ws, Later(now, n)) = ~open
        /\ n # 1 => /\ ScheduleOpen(ws, Later(now, 1)) # ~open
                    /\ NextTransition(ws, Later(now, 1), ~open) = n - 1
    BY <2>1, <2>7, TransitionIsNearer
  <2>9. CASE Status.next = 1
    <3>1. ScheduleOpen(ws, soon) = ~open
      BY <2>4, <2>8, <2>9 DEF soon
    <3> QED BY <2>1, <2>4, <2>5, <2>9, <3>1
  <2>10. CASE Status.next # 1
    <3>1. ScheduleOpen(ws, soon) = open
      BY <2>1, <2>4, <2>8, <2>10 DEF soon, ScheduleOpen
    <3>2. NextTransition(ws, soon, ~open) = Status.next - 1
      BY <2>4, <2>8, <2>10 DEF soon
    <3> QED BY <2>4, <2>5, <2>10, <3>1, <3>2
  <2> QED BY <2>9, <2>10
<1>2. ScheduleInv =>
        [(Tick /\ Status.next # NoLabel /\ hoursAsked \notin {Hours, {}}) => Comes]_scheduleVars
  BY <1>1
<1> QED BY <1>2, ScheduleInvariant, PTL DEF ScheduleSpec, LabelComesTrue

\* Pausing and resuming write the whole file and leave the hours as they were, also
\* when the file was an older version's.
THEOREM SchedulePauseKeepsHours == ScheduleSpec => OtherCommandsKeepHours
<1>1. ASSUME ScheduleInv, ScheduleNext, paused' # paused
      PROVE  OpenHours(schedule') = OpenHours(schedule) /\ schedule'.enabled = schedule.enabled
  <2>1. schedule \in Schedules
    BY <1>1 DEF ScheduleInv
  <2>2. schedule' = Saved(schedule)
    BY <1>1 DEF ScheduleNext, Tick, SetPaused, CmdSchedule, CmdScheduleOff, GuiSchedule, GuiDraft,
       Store, RefuseWindow
  <2> QED BY <2>1, <2>2, SavedIsCovered, OpenIsCovered
<1>2. ScheduleInv /\ [ScheduleNext]_scheduleVars =>
        [paused' # paused => /\ OpenHours(schedule') = OpenHours(schedule)
                             /\ schedule'.enabled = schedule.enabled]_scheduleVars
  BY <1>1 DEF scheduleVars
<1> QED BY <1>2, ScheduleInvariant, PTL DEF ScheduleSpec, OtherCommandsKeepHours
=============================================================================
