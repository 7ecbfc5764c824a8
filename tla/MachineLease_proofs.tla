----------------------- MODULE MachineLease_proofs -----------------------
(***************************************************************************)
(* Proofs about MachineLease, for any number of GPUs, agents and crashes:   *)
(* the types, native Ollama alone and cleanups with nothing, and locks held *)
(* for every unresolved attempt and for nothing that could not go on.       *)
(***************************************************************************)
EXTENDS MachineLease, TLAPS

\* A backend belongs to the unresolved attempt of its GPU.
LiveIsEntered ==
  \A g \in Gpus : live[g] # Nobody => entered[g] /\ attempt[g] = live[g]

\* A journal is open only in its own agent, and that agent serves jobs only once
\* it has every journal of its GPUs open.
OwnersServe ==
  /\ \A g \in Gpus : owner[g] \in {Nobody, Home[g]}
  /\ \A g \in Gpus :
       owner[g] # Nobody => up[Home[g]] # "down" /\ g \notin todo[Home[g]]
  /\ \A g \in Gpus :
       up[Home[g]] # "down" /\ g \notin todo[Home[g]] => owner[g] = Home[g]
  /\ \A p \in Agents : up[p] = "up" => todo[p] = {}

\* A goroutine runs an unresolved attempt of an agent that serves jobs.
RunningIsServed ==
  \A g \in Gpus : running[g] => up[Home[g]] = "up" /\ attempt[g] # Nobody
                                /\ lease[Home[g]][g] = attempt[g]

\* The locks an agent holds for an attempt are those of its runtime, and it holds
\* them for one that was entered or that it runs itself; with the journal open it
\* holds them for every attempt that was entered.
HeldForTheAttempt ==
  /\ \A p \in Agents, g \in Gpus :
       lease[p][g] # Nobody =>
         lease[p][g] = attempt[g] /\ (entered[g] \/ (running[g] /\ p = Home[g]))
  /\ \A g \in Gpus : owner[g] = Home[g] /\ entered[g] => lease[Home[g]][g] = attempt[g]

\* The file lock: exclusive means that nobody else has it, and nobody has kept it.
Exclusive ==
  \A p, q \in Agents, g, h \in Gpus :
    lease[p][g] = "ollama" => ~stale[q] /\ (p # q \/ g # h => lease[q][h] = Nobody)

\* Two unresolved attempts that may both have a backend are containers.
Together ==
  \A g, h \in Gpus :
    entered[g] /\ entered[h] /\ g # h /\ (Home[g] = Home[h] \/ crashes = 0)
      => attempt[g] = "docker" /\ attempt[h] = "docker"

\* Before any agent ends, an unresolved attempt is one of an agent that serves jobs.
NoneAbandoned ==
  crashes = 0 => \A g \in Gpus : attempt[g] # Nobody => up[Home[g]] = "up"

\* A cleanup runs in an agent without locks.
QuietMaintenance ==
  \A p \in Agents : maintenance[p] => up[p] = "up" /\ \A g \in Gpus : lease[p][g] = Nobody

\* The inductive invariant.
LeaseInv ==
  /\ LeaseTypeOK /\ LiveIsEntered /\ OwnersServe /\ RunningIsServed
  /\ HeldForTheAttempt /\ Exclusive /\ Together /\ NoneAbandoned /\ QuietMaintenance

\* The locks for a GPU are let go, or kept without an attempt.
Cleared(g) ==
  /\ \A q \in Agents : lease'[q][g] = Nobody
  /\ \A q \in Agents, h \in Gpus \ {g} : lease'[q][h] = lease[q][h]
  /\ \A q \in Agents : stale'[q] => stale[q] \/ lease[q][g] # Nobody

\* An agent has the locks for a GPU that the runtime asks for.
Taken(p, g, runtime) ==
  /\ lease'[p][g] = runtime /\ stale' = stale
  /\ \A q \in Agents, h \in Gpus : q # p \/ h # g => lease'[q][h] = lease[q][h]

\* The verified end of an attempt, GPU by GPU.
OverEffect(g) ==
  /\ attempt' \in [Gpus -> Runtimes \cup {Nobody}] /\ entered' \in [Gpus -> BOOLEAN]
  /\ lease' \in [Agents -> [Gpus -> Runtimes \cup {Nobody}]]
  /\ stale' \in [Agents -> BOOLEAN]
  /\ attempt'[g] = Nobody /\ ~entered'[g] /\ Cleared(g)
  /\ \A h \in Gpus \ {g} : attempt'[h] = attempt[h] /\ entered'[h] = entered[h]

\* Over has this effect.
LEMMA OverFacts ==
  ASSUME LeaseTypeOK, NEW p \in Agents, NEW g \in Gpus, Over(p, g)
  PROVE  OverEffect(g)
<1>1. lease' = [q \in Agents |-> [lease[q] EXCEPT ![g] = Nobody]]
  BY DEF Over
<1>2. ASSUME NEW q \in Agents
      PROVE  /\ lease'[q] \in [Gpus -> Runtimes \cup {Nobody}]
             /\ lease'[q][g] = Nobody
             /\ \A h \in Gpus \ {g} : lease'[q][h] = lease[q][h]
  <2>1. PICK f \in [Gpus -> Runtimes \cup {Nobody}] : f = lease[q]
    BY DEF LeaseTypeOK
  <2>2. lease'[q] = [f EXCEPT ![g] = Nobody]
    BY <1>1, <2>1
  <2> QED BY <2>1, <2>2
<1>3. lease' \in [Agents -> [Gpus -> Runtimes \cup {Nobody}]]
  <2>1. lease' = [q \in Agents |-> lease'[q]]
    BY <1>1
  <2> QED BY <1>2, <2>1
<1>4. stale' = [q \in Agents |-> stale[q] \/ (q # p /\ lease[q][g] # Nobody)]
  BY DEF Over
<1>5. stale' \in [Agents -> BOOLEAN]
  BY <1>4
<1>6. \A q \in Agents : stale'[q] => stale[q] \/ lease[q][g] # Nobody
  BY <1>4
<1>7. /\ attempt' \in [Gpus -> Runtimes \cup {Nobody}] /\ entered' \in [Gpus -> BOOLEAN]
      /\ attempt'[g] = Nobody /\ ~entered'[g]
      /\ \A h \in Gpus \ {g} : attempt'[h] = attempt[h] /\ entered'[h] = entered[h]
  BY DEF Over, LeaseTypeOK
<1> QED BY <1>2, <1>3, <1>5, <1>6, <1>7 DEF OverEffect, Cleared

\* A lock is taken beside those that are held, at any level of the nesting.
LEMMA TakenFacts ==
  ASSUME LeaseTypeOK, NEW p \in Agents, NEW g \in Gpus, NEW runtime \in Runtimes,
         lease' = [lease EXCEPT ![p][g] = runtime], stale' = stale
  PROVE  Taken(p, g, runtime) /\ lease' \in [Agents -> [Gpus -> Runtimes \cup {Nobody}]]
<1>1. PICK f \in [Gpus -> Runtimes \cup {Nobody}] : f = lease[p]
  BY DEF LeaseTypeOK
<1>2. lease' = [lease EXCEPT ![p] = [f EXCEPT ![g] = runtime]]
  BY <1>1
<1>3. [f EXCEPT ![g] = runtime] \in [Gpus -> Runtimes \cup {Nobody}]
  OBVIOUS
<1>4. lease' \in [Agents -> [Gpus -> Runtimes \cup {Nobody}]]
  BY <1>2, <1>3 DEF LeaseTypeOK
<1>5. /\ lease'[p][g] = runtime
      /\ \A q \in Agents \ {p} : lease'[q] = lease[q]
      /\ \A h \in Gpus \ {g} : lease'[p][h] = lease[p][h]
  BY <1>1, <1>2 DEF LeaseTypeOK
<1> QED BY <1>4, <1>5 DEF Taken

\* The restoration of an attempt, GPU by GPU: it is over, or holds its locks.
RecoverEffect(p, g) ==
  /\ attempt' \in [Gpus -> Runtimes \cup {Nobody}] /\ entered' \in [Gpus -> BOOLEAN]
  /\ lease' \in [Agents -> [Gpus -> Runtimes \cup {Nobody}]]
  /\ stale' \in [Agents -> BOOLEAN]
  /\ live' \in [Gpus -> Runtimes \cup {Nobody}] /\ blocked' \in [Agents -> BOOLEAN]
  /\ \A h \in Gpus \ {g} :
       attempt'[h] = attempt[h] /\ entered'[h] = entered[h] /\ live'[h] = live[h]
  /\ \/ attempt'[g] = Nobody /\ ~entered'[g] /\ live'[g] = Nobody /\ Cleared(g)
     \/ /\ attempt'[g] = attempt[g] /\ entered'[g] /\ entered[g] /\ live'[g] = live[g]
        /\ attempt[g] # Nobody /\ Taken(p, g, attempt[g])
        /\ lease[p][g] = attempt[g] \/ FileFree(attempt[g])

\* Recover has this effect on a journal that nobody has open.
LEMMA RecoverFacts ==
  ASSUME LeaseInv, NEW p \in Agents, NEW g \in Gpus, owner[g] = Nobody, Recover(p, g)
  PROVE  RecoverEffect(p, g)
<1> USE LeaseAssumption DEF LeaseInv
<1>1. CASE PassOver(g)
  <2>1. ~entered[g] /\ ~running[g]
    <3>1. Home[g] \in Agents /\ Home[g] # Nobody
      OBVIOUS
    <3>2. ~running[g]
      BY <3>1 DEF RunningIsServed, OwnersServe
    <3> QED BY <1>1, <3>2 DEF PassOver, LeaseTypeOK
  <2>2. live[g] = Nobody
    BY <2>1 DEF LiveIsEntered
  <2>3. \A q \in Agents : lease[q][g] = Nobody
    BY <2>1 DEF HeldForTheAttempt
  <2>4. Cleared(g)
    BY <1>1, <2>3 DEF PassOver, Cleared, locks
  <2>5. /\ attempt' \in [Gpus -> Runtimes \cup {Nobody}] /\ attempt'[g] = Nobody
        /\ \A h \in Gpus \ {g} : attempt'[h] = attempt[h]
    BY <1>1 DEF PassOver, LeaseTypeOK
  <2>6. UNCHANGED <<entered, live, lease, stale, blocked>>
    BY <1>1 DEF PassOver, locks
  <2> QED BY <2>1, <2>2, <2>4, <2>5, <2>6 DEF RecoverEffect, LeaseTypeOK
<1>2. CASE Reserve(p, g) /\ Over(p, g) /\ live' = [live EXCEPT ![g] = Nobody]
  <2>1. blocked' \in [Agents -> BOOLEAN]
    BY <1>2 DEF Reserve, LeaseTypeOK, Runtimes
  <2>2. /\ live' \in [Gpus -> Runtimes \cup {Nobody}] /\ live'[g] = Nobody
        /\ \A h \in Gpus \ {g} : live'[h] = live[h]
    BY <1>2 DEF LeaseTypeOK
  <2>3. OverEffect(g)
    BY <1>2, OverFacts
  <2> QED BY <2>1, <2>2, <2>3 DEF OverEffect, RecoverEffect
<1>3. CASE /\ Reserve(p, g) /\ UNCHANGED <<attempt, entered, live, stale>>
           /\ lease' = [lease EXCEPT ![p][g] = attempt[g]]
  <2>1. blocked' \in [Agents -> BOOLEAN]
    BY <1>3 DEF Reserve, LeaseTypeOK, Runtimes
  <2>2. attempt[g] \in Runtimes /\ attempt[g] # Nobody /\ entered[g]
    BY <1>3 DEF Reserve, LeaseTypeOK
  <2>3. Taken(p, g, attempt[g]) /\ lease' \in [Agents -> [Gpus -> Runtimes \cup {Nobody}]]
    BY <1>3, <2>2, TakenFacts
  <2>4. lease[p][g] = attempt[g] \/ FileFree(attempt[g])
    BY <1>3 DEF Reserve, HeldForTheAttempt
  <2> QED BY <1>3, <2>1, <2>2, <2>3, <2>4 DEF RecoverEffect, LeaseTypeOK
<1> QED BY <1>1, <1>2, <1>3 DEF Recover, Reserve

\* Locks that are let go keep the others exclusive: an agent that keeps one held it
\* before, beside no exclusive one.
LEMMA ClearedExclusive ==
  ASSUME LeaseInv, NEW g \in Gpus, Cleared(g)
  PROVE  Exclusive'
<1> SUFFICES ASSUME NEW q \in Agents, NEW s \in Agents, NEW h \in Gpus, NEW k \in Gpus,
                    lease'[q][h] = "ollama"
             PROVE  ~stale'[s] /\ (q # s \/ h # k => lease'[s][k] = Nobody)
  BY DEF Exclusive
<1>1. h # g /\ lease[q][h] = "ollama"
  BY LeaseAssumption DEF Cleared, Runtimes
<1>2. ~stale[s] /\ lease[s][g] = Nobody
  BY <1>1 DEF LeaseInv, Exclusive
<1>3. q # s \/ h # k => lease[s][k] = Nobody
  BY <1>1 DEF LeaseInv, Exclusive
<1> QED BY <1>2, <1>3 DEF Cleared

\* Locks that the others leave room for, or that are held already, keep them exclusive.
LEMMA TakenExclusive ==
  ASSUME LeaseInv, NEW p \in Agents, NEW g \in Gpus, NEW runtime \in Runtimes,
         Taken(p, g, runtime), lease[p][g] = runtime \/ FileFree(runtime)
  PROVE  Exclusive'
<1> USE LeaseAssumption
<1> SUFFICES ASSUME NEW q \in Agents, NEW s \in Agents, NEW h \in Gpus, NEW k \in Gpus,
                    lease'[q][h] = "ollama"
             PROVE  ~stale'[s] /\ (q # s \/ h # k => lease'[s][k] = Nobody)
  BY DEF Exclusive
<1>1. CASE lease[p][g] = runtime
  <2>1. \A a \in Agents, x \in Gpus : lease'[a][x] = lease[a][x]
    BY <1>1 DEF Taken
  <2> QED BY <2>1 DEF Taken, LeaseInv, Exclusive
<1>2. CASE FileFree(runtime)
  <2>1. CASE q = p /\ h = g
    <3>1. runtime = "ollama"
      BY <2>1 DEF Taken
    <3>2. ~stale[s] /\ lease[s][k] = Nobody
      BY <1>2, <3>1 DEF FileFree, Compatible
    <3> QED BY <2>1, <3>2 DEF Taken
  <2>2. CASE ~(q = p /\ h = g)
    <3>1. lease[q][h] = "ollama"
      BY <2>2 DEF Taken
    <3> QED BY <1>2, <3>1 DEF FileFree, Compatible, Runtimes
  <2> QED BY <2>1, <2>2
<1> QED BY <1>1, <1>2

\* What is not about the GPU, as it was.
Elsewhere(g) ==
  \A h \in Gpus \ {g} : /\ attempt'[h] = attempt[h] /\ entered'[h] = entered[h]
                        /\ running'[h] = running[h] /\ owner'[h] = owner[h]

\* With the end of an attempt nobody holds locks for it.
LEMMA ClearedHeld ==
  ASSUME LeaseInv, NEW g \in Gpus, Cleared(g), Elsewhere(g), ~entered'[g]
  PROVE  HeldForTheAttempt'
<1>1. ASSUME NEW q \in Agents, NEW h \in Gpus, lease'[q][h] # Nobody
      PROVE  lease'[q][h] = attempt'[h] /\ (entered'[h] \/ (running'[h] /\ q = Home[h]))
  <2>1. h # g
    BY <1>1 DEF Cleared
  <2>2. lease'[q][h] = lease[q][h]
    BY <2>1 DEF Cleared
  <2>3. lease[q][h] = attempt[h] /\ (entered[h] \/ (running[h] /\ q = Home[h]))
    BY <1>1, <2>2 DEF LeaseInv, HeldForTheAttempt
  <2> QED BY <2>1, <2>2, <2>3 DEF Elsewhere
<1>2. ASSUME NEW h \in Gpus, owner'[h] = Home[h], entered'[h]
      PROVE  lease'[Home[h]][h] = attempt'[h]
  <2>1. h # g /\ Home[h] \in Agents
    BY <1>2, LeaseAssumption
  <2>2. lease'[Home[h]][h] = lease[Home[h]][h]
    BY <2>1 DEF Cleared
  <2>3. lease[Home[h]][h] = attempt[h]
    BY <1>2, <2>1 DEF LeaseInv, HeldForTheAttempt, Elsewhere
  <2> QED BY <2>1, <2>2, <2>3 DEF Elsewhere
<1> QED BY <1>1, <1>2 DEF HeldForTheAttempt

\* Locks that are taken are those of an attempt that was entered, or begins here.
LEMMA TakenHeld ==
  ASSUME LeaseInv, NEW p \in Agents, NEW g \in Gpus, NEW runtime \in Runtimes,
         Taken(p, g, runtime), Elsewhere(g), attempt'[g] = runtime,
         entered'[g] \/ (running'[g] /\ p = Home[g]),
         attempt[g] = Nobody \/ (attempt[g] = runtime /\ entered'[g]),
         owner'[g] = Home[g] => p = Home[g]
  PROVE  HeldForTheAttempt'
<1>1. ASSUME NEW q \in Agents, NEW h \in Gpus, lease'[q][h] # Nobody
      PROVE  lease'[q][h] = attempt'[h] /\ (entered'[h] \/ (running'[h] /\ q = Home[h]))
  <2>1. CASE h # g
    <3>1. lease'[q][h] = lease[q][h]
      BY <2>1 DEF Taken
    <3>2. lease[q][h] = attempt[h] /\ (entered[h] \/ (running[h] /\ q = Home[h]))
      BY <1>1, <3>1 DEF LeaseInv, HeldForTheAttempt
    <3> QED BY <2>1, <3>1, <3>2 DEF Elsewhere
  <2>2. CASE h = g /\ q = p
    BY <2>2 DEF Taken
  <2>3. CASE h = g /\ q # p
    <3>1. lease'[q][g] = lease[q][g]
      BY <2>3 DEF Taken
    <3>2. lease[q][g] = attempt[g]
      BY <1>1, <2>3, <3>1 DEF LeaseInv, HeldForTheAttempt
    <3> QED BY <1>1, <2>3, <3>1, <3>2
  <2> QED BY <2>1, <2>2, <2>3
<1>2. ASSUME NEW h \in Gpus, owner'[h] = Home[h], entered'[h]
      PROVE  lease'[Home[h]][h] = attempt'[h]
  <2>1. CASE h # g
    <3>1. Home[h] \in Agents
      BY LeaseAssumption
    <3>2. lease'[Home[h]][h] = lease[Home[h]][h]
      BY <2>1, <3>1 DEF Taken
    <3>3. lease[Home[h]][h] = attempt[h]
      BY <1>2, <2>1 DEF LeaseInv, HeldForTheAttempt, Elsewhere
    <3> QED BY <2>1, <3>2, <3>3 DEF Elsewhere
  <2>2. CASE h = g
    BY <1>2, <2>2 DEF Taken
  <2> QED BY <2>1, <2>2
<1> QED BY <1>1, <1>2 DEF HeldForTheAttempt

\* An agent that takes no lock itself cleans on without any.
LEMMA QuietKept ==
  ASSUME LeaseInv, UNCHANGED <<up, maintenance>>, NEW g \in Gpus,
         \/ Cleared(g)
         \/ \E p \in Agents, runtime \in Runtimes :
              Taken(p, g, runtime) /\ ~maintenance[p]
  PROVE  QuietMaintenance'
<1> SUFFICES ASSUME NEW q \in Agents, maintenance[q], NEW h \in Gpus
             PROVE  up[q] = "up" /\ lease'[q][h] = Nobody
  BY DEF QuietMaintenance
<1>1. up[q] = "up" /\ lease[q][h] = Nobody
  BY DEF LeaseInv, QuietMaintenance
<1>2. CASE Cleared(g)
  BY <1>1, <1>2 DEF Cleared
<1>3. CASE \E p \in Agents, runtime \in Runtimes : Taken(p, g, runtime) /\ ~maintenance[p]
  <2>1. lease'[q][h] = lease[q][h]
    BY <1>3 DEF Taken
  <2> QED BY <1>1, <2>1
<1> QED BY <1>2, <1>3

\* Exclusive, of two GPUs.
LEMMA ExclusiveOf ==
  ASSUME Exclusive, NEW p \in Agents, NEW q \in Agents, NEW g \in Gpus, NEW h \in Gpus,
         g # h, lease[p][g] = "ollama"
  PROVE  lease[q][h] = Nobody
BY DEF Exclusive

\* It holds of a machine on which no agent has started.
LEMMA InitLease == LeaseInit => LeaseInv
BY LeaseAssumption, SMT
   DEF LeaseInit, LeaseInv, Free, Runtimes, LeaseTypeOK, LiveIsEntered, OwnersServe,
       RunningIsServed, HeldForTheAttempt, Exclusive, Together, NoneAbandoned, QuietMaintenance

\* BeginStart keeps the invariant.
LEMMA BeginStartKeeps ==
  ASSUME LeaseInv, NEW p \in Agents, BeginStart(p)
  PROVE  LeaseInv'
<1> USE LeaseAssumption DEF LeaseInv, LeaseTypeOK, BeginStart, locks
<1>1. LeaseTypeOK'
  BY SMTT(20) DEF Runtimes
<1>2. LiveIsEntered'
  BY SMTT(20) DEF LiveIsEntered
<1>3. OwnersServe'
  BY SMTT(20) DEF OwnersServe
<1>4. RunningIsServed'
  BY SMTT(20) DEF RunningIsServed, OwnersServe
<1>5. HeldForTheAttempt'
  BY SMTT(20) DEF HeldForTheAttempt, OwnersServe, RunningIsServed
<1>6. Exclusive'
  BY SMTT(20) DEF Exclusive, Runtimes
<1>7. Together'
  BY SMTT(20) DEF Together
<1>8. NoneAbandoned'
  BY SMTT(20) DEF NoneAbandoned
<1>9. QuietMaintenance'
  BY SMTT(20) DEF QuietMaintenance, OwnersServe
<1> QED BY <1>1, <1>2, <1>3, <1>4, <1>5, <1>6, <1>7, <1>8, <1>9

\* Ready keeps the invariant.
LEMMA ReadyKeeps ==
  ASSUME LeaseInv, NEW p \in Agents, Ready(p)
  PROVE  LeaseInv'
<1> USE LeaseAssumption DEF LeaseInv, LeaseTypeOK, Ready, locks
<1>1. LeaseTypeOK'
  BY SMTT(20) DEF Runtimes
<1>2. LiveIsEntered'
  BY SMTT(20) DEF LiveIsEntered
<1>3. OwnersServe'
  BY SMTT(20) DEF OwnersServe
<1>4. RunningIsServed'
  BY SMTT(20) DEF RunningIsServed, OwnersServe
<1>5. HeldForTheAttempt'
  BY SMTT(20) DEF HeldForTheAttempt, OwnersServe, RunningIsServed
<1>6. Exclusive'
  BY SMTT(20) DEF Exclusive, Runtimes
<1>7. Together'
  BY SMTT(20) DEF Together
<1>8. NoneAbandoned'
  BY SMTT(20) DEF NoneAbandoned
<1>9. QuietMaintenance'
  BY SMTT(20) DEF QuietMaintenance, OwnersServe
<1> QED BY <1>1, <1>2, <1>3, <1>4, <1>5, <1>6, <1>7, <1>8, <1>9

\* End keeps the invariant.
LEMMA EndKeeps ==
  ASSUME LeaseInv, NEW p \in Agents, End(p)
  PROVE  LeaseInv'
<1> USE LeaseAssumption DEF LeaseInv, LeaseTypeOK, End, Down, Free
<1>1. LeaseTypeOK'
  BY SMTT(20) DEF Runtimes
<1>2. LiveIsEntered'
  BY SMTT(20) DEF LiveIsEntered
<1>3. OwnersServe'
  BY SMTT(20) DEF OwnersServe
<1>4. RunningIsServed'
  <2> SUFFICES ASSUME NEW h \in Gpus, running'[h]
               PROVE  up'[Home[h]] = "up" /\ attempt'[h] # Nobody
                      /\ lease'[Home[h]][h] = attempt'[h]
    BY DEF RunningIsServed
  <2>1. running[h] /\ owner[h] # p
    OBVIOUS
  <2>2. owner[h] = Home[h] /\ Home[h] \in Agents
    BY <2>1 DEF RunningIsServed, OwnersServe
  <2> QED BY <2>1, <2>2 DEF RunningIsServed
<1>5. HeldForTheAttempt'
  BY SMTT(20) DEF HeldForTheAttempt, OwnersServe, RunningIsServed
<1>6. Exclusive'
  BY SMTT(20) DEF Exclusive, Runtimes
<1>7. Together'
  BY SMTT(20) DEF Together
<1>8. NoneAbandoned'
  BY SMTT(20) DEF NoneAbandoned
<1>9. QuietMaintenance'
  BY SMTT(20) DEF QuietMaintenance, OwnersServe
<1> QED BY <1>1, <1>2, <1>3, <1>4, <1>5, <1>6, <1>7, <1>8, <1>9

\* Maintain keeps the invariant.
LEMMA MaintainKeeps ==
  ASSUME LeaseInv, NEW p \in Agents, Maintain(p)
  PROVE  LeaseInv'
<1> USE LeaseAssumption DEF LeaseInv, LeaseTypeOK, Maintain, Quiet, Free, locks
<1>1. LeaseTypeOK'
  BY SMTT(20) DEF Runtimes
<1>2. LiveIsEntered'
  BY SMTT(20) DEF LiveIsEntered
<1>3. OwnersServe'
  BY SMTT(20) DEF OwnersServe
<1>4. RunningIsServed'
  BY SMTT(20) DEF RunningIsServed, OwnersServe
<1>5. HeldForTheAttempt'
  BY SMTT(20) DEF HeldForTheAttempt, OwnersServe, RunningIsServed
<1>6. Exclusive'
  BY SMTT(20) DEF Exclusive, Runtimes
<1>7. Together'
  BY SMTT(20) DEF Together
<1>8. NoneAbandoned'
  BY SMTT(20) DEF NoneAbandoned
<1>9. QuietMaintenance'
  BY SMTT(20) DEF QuietMaintenance, OwnersServe
<1> QED BY <1>1, <1>2, <1>3, <1>4, <1>5, <1>6, <1>7, <1>8, <1>9

\* MaintainEnds keeps the invariant.
LEMMA MaintainEndsKeeps ==
  ASSUME LeaseInv, NEW p \in Agents, MaintainEnds(p)
  PROVE  LeaseInv'
<1> USE LeaseAssumption DEF LeaseInv, LeaseTypeOK, MaintainEnds, locks
<1>1. LeaseTypeOK'
  BY SMTT(20) DEF Runtimes
<1>2. LiveIsEntered'
  BY SMTT(20) DEF LiveIsEntered
<1>3. OwnersServe'
  BY SMTT(20) DEF OwnersServe
<1>4. RunningIsServed'
  BY SMTT(20) DEF RunningIsServed, OwnersServe
<1>5. HeldForTheAttempt'
  BY SMTT(20) DEF HeldForTheAttempt, OwnersServe, RunningIsServed
<1>6. Exclusive'
  BY SMTT(20) DEF Exclusive, Runtimes
<1>7. Together'
  BY SMTT(20) DEF Together
<1>8. NoneAbandoned'
  BY SMTT(20) DEF NoneAbandoned
<1>9. QuietMaintenance'
  BY SMTT(20) DEF QuietMaintenance, OwnersServe
<1> QED BY <1>1, <1>2, <1>3, <1>4, <1>5, <1>6, <1>7, <1>8, <1>9

\* Enter keeps the invariant.
LEMMA EnterKeeps ==
  ASSUME LeaseInv, NEW g \in Gpus, Enter(g)
  PROVE  LeaseInv'
<1> USE LeaseAssumption DEF LeaseInv, LeaseTypeOK, Enter, agents, locks
<1>1. LeaseTypeOK'
  BY SMTT(20) DEF RunningIsServed, Runtimes
<1>2. LiveIsEntered'
  BY SMTT(20) DEF LiveIsEntered
<1>3. OwnersServe'
  BY SMTT(20) DEF OwnersServe
<1>4. RunningIsServed'
  BY SMTT(20) DEF RunningIsServed, OwnersServe
<1>5. HeldForTheAttempt'
  BY SMTT(20) DEF HeldForTheAttempt, OwnersServe, RunningIsServed
<1>6. Exclusive'
  BY SMTT(20) DEF Exclusive, Runtimes
<1>7. Together'
  <2> SUFFICES ASSUME NEW h \in Gpus, NEW k \in Gpus, h # k, entered'[h], entered'[k],
                      Home[h] = Home[k] \/ crashes = 0
               PROVE  attempt[h] = "docker" /\ attempt[k] = "docker"
    BY DEF Together
  <2>1. \A i \in {h, k} : attempt[i] \in Runtimes /\ (i = g \/ entered[i])
    BY DEF RunningIsServed
  <2>2. CASE entered[h] /\ entered[k]
    BY <2>2 DEF Together
  <2>3. CASE ~(entered[h] /\ entered[k])
    <3>1. up[Home[g]] = "up" /\ lease[Home[g]][g] = attempt[g]
      BY DEF RunningIsServed
    <3>2. \A i \in {h, k} : up[Home[i]] = "up"
      BY <2>1, <2>3, <3>1 DEF NoneAbandoned, Runtimes
    <3>3. ASSUME NEW i \in {h, k} PROVE lease[Home[i]][i] = attempt[i]
      <4>1. CASE i = g
        BY <3>1, <4>1
      <4>2. CASE i # g
        <5>1. entered[i] /\ owner[i] = Home[i]
          BY <2>1, <3>2, <4>2 DEF OwnersServe
        <5> QED BY <5>1 DEF HeldForTheAttempt
      <4> QED BY <4>1, <4>2
    <3>4. ASSUME NEW i \in {h, k}, NEW j \in {h, k}, i # j PROVE attempt[i] # "ollama"
      <4>1. lease[Home[i]][i] = attempt[i] /\ lease[Home[j]][j] = attempt[j]
        BY <3>3
      <4>2. attempt[j] # Nobody
        BY <2>1 DEF Runtimes
      <4>3. i \in Gpus /\ j \in Gpus /\ Home[i] \in Agents /\ Home[j] \in Agents
        OBVIOUS
      <4>4. Exclusive
        OBVIOUS
      <4>5. lease[Home[i]][i] = "ollama" => lease[Home[j]][j] = Nobody
        BY <3>4, <4>3, <4>4, ExclusiveOf
      <4> QED BY <4>1, <4>2, <4>5
    <3> QED BY <2>1, <3>4 DEF Runtimes
  <2> QED BY <2>2, <2>3
<1>8. NoneAbandoned'
  BY SMTT(20) DEF NoneAbandoned
<1>9. QuietMaintenance'
  BY SMTT(20) DEF QuietMaintenance, OwnersServe
<1> QED BY <1>1, <1>2, <1>3, <1>4, <1>5, <1>6, <1>7, <1>8, <1>9

\* BackendStarts keeps the invariant.
LEMMA BackendStartsKeeps ==
  ASSUME LeaseInv, NEW g \in Gpus, BackendStarts(g)
  PROVE  LeaseInv'
<1> USE LeaseAssumption DEF LeaseInv, LeaseTypeOK, BackendStarts, agents, locks
<1>1. LeaseTypeOK'
  BY SMTT(20) DEF Runtimes
<1>2. LiveIsEntered'
  BY SMTT(20) DEF LiveIsEntered, RunningIsServed
<1>3. OwnersServe'
  BY SMTT(20) DEF OwnersServe
<1>4. RunningIsServed'
  BY SMTT(20) DEF RunningIsServed, OwnersServe
<1>5. HeldForTheAttempt'
  BY SMTT(20) DEF HeldForTheAttempt, OwnersServe, RunningIsServed
<1>6. Exclusive'
  BY SMTT(20) DEF Exclusive, Runtimes
<1>7. Together'
  BY SMTT(20) DEF Together
<1>8. NoneAbandoned'
  BY SMTT(20) DEF NoneAbandoned
<1>9. QuietMaintenance'
  BY SMTT(20) DEF QuietMaintenance, OwnersServe
<1> QED BY <1>1, <1>2, <1>3, <1>4, <1>5, <1>6, <1>7, <1>8, <1>9

\* BackendEnds keeps the invariant.
LEMMA BackendEndsKeeps ==
  ASSUME LeaseInv, NEW g \in Gpus, BackendEnds(g)
  PROVE  LeaseInv'
<1> USE LeaseAssumption DEF LeaseInv, LeaseTypeOK, BackendEnds, agents, locks
<1>1. LeaseTypeOK'
  BY SMTT(20) DEF Runtimes
<1>2. LiveIsEntered'
  BY SMTT(20) DEF LiveIsEntered
<1>3. OwnersServe'
  BY SMTT(20) DEF OwnersServe
<1>4. RunningIsServed'
  BY SMTT(20) DEF RunningIsServed, OwnersServe
<1>5. HeldForTheAttempt'
  BY SMTT(20) DEF HeldForTheAttempt, OwnersServe, RunningIsServed
<1>6. Exclusive'
  BY SMTT(20) DEF Exclusive, Runtimes
<1>7. Together'
  BY SMTT(20) DEF Together
<1>8. NoneAbandoned'
  BY SMTT(20) DEF NoneAbandoned
<1>9. QuietMaintenance'
  BY SMTT(20) DEF QuietMaintenance, OwnersServe
<1> QED BY <1>1, <1>2, <1>3, <1>4, <1>5, <1>6, <1>7, <1>8, <1>9

\* EndsUnverified keeps the invariant.
LEMMA EndsUnverifiedKeeps ==
  ASSUME LeaseInv, NEW g \in Gpus, EndsUnverified(g)
  PROVE  LeaseInv'
<1> USE LeaseAssumption DEF LeaseInv, LeaseTypeOK, EndsUnverified, agents, locks
<1>1. LeaseTypeOK'
  BY SMTT(20) DEF Runtimes
<1>2. LiveIsEntered'
  BY SMTT(20) DEF LiveIsEntered
<1>3. OwnersServe'
  BY SMTT(20) DEF OwnersServe
<1>4. RunningIsServed'
  BY SMTT(20) DEF RunningIsServed, OwnersServe
<1>5. HeldForTheAttempt'
  BY SMTT(20) DEF HeldForTheAttempt, OwnersServe, RunningIsServed
<1>6. Exclusive'
  BY SMTT(20) DEF Exclusive, Runtimes
<1>7. Together'
  BY SMTT(20) DEF Together
<1>8. NoneAbandoned'
  BY SMTT(20) DEF NoneAbandoned
<1>9. QuietMaintenance'
  BY SMTT(20) DEF QuietMaintenance, OwnersServe
<1> QED BY <1>1, <1>2, <1>3, <1>4, <1>5, <1>6, <1>7, <1>8, <1>9

\* RestoreOwn keeps the invariant.
LEMMA RestoreOwnKeeps ==
  ASSUME LeaseInv, NEW p \in Agents, NEW g \in Gpus, RestoreOwn(p, g)
  PROVE  LeaseInv'
<1> USE LeaseAssumption DEF LeaseInv
<1>1. RecoverEffect(p, g)
  BY RecoverFacts DEF RestoreOwn
<1>2. /\ up[p] = "starting" /\ g \in todo[p] /\ Home[g] = p /\ owner[g] = Nobody
      /\ UNCHANGED <<up, running, maintenance, crashes>>
      /\ owner' \in [Gpus -> Agents \cup {Nobody}] /\ owner'[g] = p
      /\ \A h \in Gpus \ {g} : owner'[h] = owner[h]
      /\ todo' \in [Agents -> SUBSET Gpus] /\ todo'[p] = todo[p] \ {g}
      /\ \A q \in Agents \ {p} : todo'[q] = todo[q]
  BY DEF RestoreOwn, Restored, LeaseTypeOK
<1>3. LeaseTypeOK'
  <2>1. \A h \in Gpus : entered'[h] => attempt'[h] # Nobody
    BY <1>1, <1>2 DEF LeaseTypeOK, RecoverEffect
  <2>2. /\ up' \in [Agents -> {"down", "starting", "up"}]
        /\ todo' \in [Agents -> SUBSET Gpus] /\ owner' \in [Gpus -> Agents \cup {Nobody}]
        /\ running' \in [Gpus -> BOOLEAN] /\ maintenance' \in [Agents -> BOOLEAN]
        /\ crashes' \in 0 .. MaxCrashes
    BY <1>2 DEF LeaseTypeOK
  <2>3. /\ attempt' \in [Gpus -> Runtimes \cup {Nobody}] /\ entered' \in [Gpus -> BOOLEAN]
        /\ live' \in [Gpus -> Runtimes \cup {Nobody}] /\ blocked' \in [Agents -> BOOLEAN]
        /\ lease' \in [Agents -> [Gpus -> Runtimes \cup {Nobody}]]
        /\ stale' \in [Agents -> BOOLEAN]
    BY <1>1, <1>2 DEF LeaseTypeOK, RecoverEffect
  <2> QED BY <2>1, <2>2, <2>3 DEF LeaseTypeOK
<1>4. LiveIsEntered'
  BY <1>1, <1>2, SMTT(20) DEF LiveIsEntered, RecoverEffect
<1>5. OwnersServe'
  <2>1. \A h \in Gpus : owner'[h] \in {Nobody, Home[h]}
    BY <1>2 DEF OwnersServe
  <2>2. ASSUME NEW h \in Gpus, owner'[h] # Nobody
        PROVE  up'[Home[h]] # "down" /\ h \notin todo'[Home[h]]
    <3>1. CASE h = g
      BY <1>2, <2>2, <3>1 DEF OwnersServe
    <3>2. CASE h # g
      <4>1. up[Home[h]] # "down" /\ h \notin todo[Home[h]]
        BY <1>2, <2>2, <3>2 DEF OwnersServe
      <4> QED BY <1>2, <4>1
    <3> QED BY <3>1, <3>2
  <2>3. ASSUME NEW h \in Gpus, up'[Home[h]] # "down", h \notin todo'[Home[h]]
        PROVE  owner'[h] = Home[h]
    <3>1. CASE h = g
      BY <1>2, <2>3, <3>1 DEF OwnersServe
    <3>2. CASE h # g
      <4>1. up[Home[h]] # "down" /\ h \notin todo[Home[h]]
        BY <1>2, <2>3, <3>2
      <4> QED BY <1>2, <3>2, <4>1 DEF OwnersServe
    <3> QED BY <3>1, <3>2
  <2>4. ASSUME NEW q \in Agents, up'[q] = "up"
        PROVE  todo'[q] = {}
    BY <1>2, <2>4 DEF OwnersServe
  <2> QED BY <2>1, <2>2, <2>3, <2>4 DEF OwnersServe
<1>6. RunningIsServed'
  BY <1>1, <1>2, SMTT(20) DEF RunningIsServed, RecoverEffect, Cleared, Taken
<1>7. HeldForTheAttempt'
  <2>3. Elsewhere(g)
    BY <1>1, <1>2 DEF RecoverEffect, Elsewhere
  <2>1. CASE Cleared(g) /\ ~entered'[g]
    BY <2>1, <2>3, ClearedHeld
  <2>2. CASE Taken(p, g, attempt[g]) /\ attempt'[g] = attempt[g] /\ attempt[g] # Nobody
             /\ entered'[g]
    <3>1. attempt[g] \in Runtimes
      BY <2>2 DEF LeaseTypeOK
    <3>2. owner'[g] = Home[g] => p = Home[g]
      BY <1>2
    <3> QED BY <2>2, <2>3, <3>1, <3>2, TakenHeld
  <2> QED BY <1>1, <2>1, <2>2 DEF RecoverEffect
<1>8. Exclusive'
  <2>1. CASE Cleared(g)
    BY <2>1, ClearedExclusive
  <2>2. CASE Taken(p, g, attempt[g]) /\ attempt[g] # Nobody
             /\ (lease[p][g] = attempt[g] \/ FileFree(attempt[g]))
    <3>1. attempt[g] \in Runtimes
      BY <2>2 DEF LeaseTypeOK
    <3> QED BY <2>2, <3>1, TakenExclusive
  <2> QED BY <1>1, <2>1, <2>2 DEF RecoverEffect
<1>9. Together'
  BY <1>1, <1>2, SMTT(20) DEF Together, RecoverEffect
<1>10. NoneAbandoned'
  BY <1>1, <1>2, SMTT(20) DEF NoneAbandoned, RecoverEffect
<1>11. QuietMaintenance'
  <2>1. ~maintenance[p]
    BY <1>2 DEF QuietMaintenance
  <2>2. CASE Cleared(g)
    BY <1>2, <2>2, QuietKept
  <2>3. CASE Taken(p, g, attempt[g]) /\ attempt[g] # Nobody
    <3>1. attempt[g] \in Runtimes
      BY <2>3 DEF LeaseTypeOK
    <3> QED BY <1>2, <2>1, <2>3, <3>1, QuietKept
  <2> QED BY <1>1, <2>2, <2>3 DEF RecoverEffect
<1> QED BY <1>3, <1>4, <1>5, <1>6, <1>7, <1>8, <1>9, <1>10, <1>11

\* RestorePeer keeps the invariant.
LEMMA RestorePeerKeeps ==
  ASSUME LeaseInv, NEW p \in Agents, NEW g \in Gpus, RestorePeer(p, g)
  PROVE  LeaseInv'
<1> USE LeaseAssumption DEF LeaseInv
<1>1. RecoverEffect(p, g) \/ UNCHANGED <<attempt, entered, live, lease, stale, blocked>>
  BY RecoverFacts DEF RestorePeer, locks
<1>2. /\ up[p] = "starting"
      /\ owner[g] = Nobody \/ UNCHANGED <<attempt, entered, live, lease, stale, blocked>>
      /\ UNCHANGED <<up, owner, running, maintenance, crashes>>
      /\ todo' \in [Agents -> SUBSET Gpus]
      /\ todo'[p] = todo[p] \/ (Home[g] # p /\ todo'[p] = todo[p] \ {g})
      /\ \A q \in Agents \ {p} : todo'[q] = todo[q]
  <2>1. CASE Home[g] = p
    BY <2>1 DEF RestorePeer, LeaseTypeOK, locks
  <2>2. CASE Home[g] # p
    <3>1. todo' = [todo EXCEPT ![p] = @ \ {g}]
      BY <2>2 DEF RestorePeer, Restored
    <3>2. todo' \in [Agents -> SUBSET Gpus] /\ todo'[p] = todo[p] \ {g}
          /\ \A q \in Agents \ {p} : todo'[q] = todo[q]
      BY <3>1 DEF LeaseTypeOK
    <3> QED BY <2>2, <3>2 DEF RestorePeer, locks
  <2> QED BY <2>1, <2>2
<1>3. LeaseTypeOK'
  <2>1. \A h \in Gpus : entered'[h] => attempt'[h] # Nobody
    BY <1>1, <1>2 DEF LeaseTypeOK, RecoverEffect
  <2>2. /\ up' \in [Agents -> {"down", "starting", "up"}]
        /\ todo' \in [Agents -> SUBSET Gpus] /\ owner' \in [Gpus -> Agents \cup {Nobody}]
        /\ running' \in [Gpus -> BOOLEAN] /\ maintenance' \in [Agents -> BOOLEAN]
        /\ crashes' \in 0 .. MaxCrashes
    BY <1>2 DEF LeaseTypeOK
  <2>3. /\ attempt' \in [Gpus -> Runtimes \cup {Nobody}] /\ entered' \in [Gpus -> BOOLEAN]
        /\ live' \in [Gpus -> Runtimes \cup {Nobody}] /\ blocked' \in [Agents -> BOOLEAN]
        /\ lease' \in [Agents -> [Gpus -> Runtimes \cup {Nobody}]]
        /\ stale' \in [Agents -> BOOLEAN]
    BY <1>1, <1>2 DEF LeaseTypeOK, RecoverEffect
  <2> QED BY <2>1, <2>2, <2>3 DEF LeaseTypeOK
<1>4. LiveIsEntered'
  BY <1>1, <1>2, SMTT(20) DEF LiveIsEntered, RecoverEffect
<1>5. OwnersServe'
  <2>1. \A h \in Gpus : owner'[h] \in {Nobody, Home[h]}
    BY <1>2 DEF OwnersServe
  <2>2. ASSUME NEW h \in Gpus, owner'[h] # Nobody
        PROVE  up'[Home[h]] # "down" /\ h \notin todo'[Home[h]]
    <3>1. CASE h = g
      BY <1>2, <2>2, <3>1 DEF OwnersServe
    <3>2. CASE h # g
      <4>1. up[Home[h]] # "down" /\ h \notin todo[Home[h]]
        BY <1>2, <2>2, <3>2 DEF OwnersServe
      <4> QED BY <1>2, <4>1
    <3> QED BY <3>1, <3>2
  <2>3. ASSUME NEW h \in Gpus, up'[Home[h]] # "down", h \notin todo'[Home[h]]
        PROVE  owner'[h] = Home[h]
    <3>1. CASE h = g
      BY <1>2, <2>3, <3>1 DEF OwnersServe
    <3>2. CASE h # g
      <4>1. up[Home[h]] # "down" /\ h \notin todo[Home[h]]
        BY <1>2, <2>3, <3>2
      <4> QED BY <1>2, <3>2, <4>1 DEF OwnersServe
    <3> QED BY <3>1, <3>2
  <2>4. ASSUME NEW q \in Agents, up'[q] = "up"
        PROVE  todo'[q] = {}
    BY <1>2, <2>4 DEF OwnersServe
  <2> QED BY <2>1, <2>2, <2>3, <2>4 DEF OwnersServe
<1>6. RunningIsServed'
  <2> SUFFICES ASSUME NEW h \in Gpus, running[h]
               PROVE  up[Home[h]] = "up" /\ attempt'[h] # Nobody
                      /\ lease'[Home[h]][h] = attempt'[h]
    BY <1>2 DEF RunningIsServed
  <2>1. up[Home[h]] = "up" /\ attempt[h] # Nobody /\ lease[Home[h]][h] = attempt[h]
    BY DEF RunningIsServed
  <2>2. owner[h] = Home[h] /\ owner[h] # Nobody
    BY <2>1 DEF OwnersServe
  <2> QED BY <1>1, <1>2, <2>1, <2>2 DEF RecoverEffect, Cleared, Taken
<1>7. HeldForTheAttempt'
  <2>1. CASE UNCHANGED <<attempt, entered, live, lease, stale, blocked>>
    <3>1. UNCHANGED <<owner, running>>
      BY <1>2
    <3> QED BY <2>1, <3>1 DEF HeldForTheAttempt
  <2>2. CASE RecoverEffect(p, g) /\ owner[g] = Nobody
    <3>1. Elsewhere(g)
      BY <1>2, <2>2 DEF RecoverEffect, Elsewhere
    <3>2. CASE Cleared(g) /\ ~entered'[g]
      BY <3>1, <3>2, ClearedHeld
    <3>3. CASE Taken(p, g, attempt[g]) /\ attempt'[g] = attempt[g] /\ attempt[g] # Nobody
               /\ entered'[g]
      <4>1. attempt[g] \in Runtimes
        BY <3>3 DEF LeaseTypeOK
      <4>2. owner'[g] # Home[g]
        <5>1. owner'[g] = Nobody /\ Home[g] \in Agents
          BY <1>2, <2>2
        <5> QED BY <5>1
      <4> QED BY <3>1, <3>3, <4>1, <4>2, TakenHeld
    <3> QED BY <2>2, <3>2, <3>3 DEF RecoverEffect
  <2> QED BY <1>1, <1>2, <2>1, <2>2
<1>8. Exclusive'
  <2>1. CASE Cleared(g)
    BY <2>1, ClearedExclusive
  <2>2. CASE Taken(p, g, attempt[g]) /\ attempt[g] # Nobody
             /\ (lease[p][g] = attempt[g] \/ FileFree(attempt[g]))
    <3>1. attempt[g] \in Runtimes
      BY <2>2 DEF LeaseTypeOK
    <3> QED BY <2>2, <3>1, TakenExclusive
  <2>3. CASE UNCHANGED <<lease, stale>>
    BY <2>3 DEF Exclusive
  <2> QED BY <1>1, <2>1, <2>2, <2>3 DEF RecoverEffect
<1>9. Together'
  BY <1>1, <1>2, SMTT(20) DEF Together, RecoverEffect
<1>10. NoneAbandoned'
  BY <1>1, <1>2, SMTT(20) DEF NoneAbandoned, RecoverEffect
<1>11. QuietMaintenance'
  <2>1. ~maintenance[p]
    BY <1>2 DEF QuietMaintenance
  <2>2. CASE Cleared(g)
    BY <1>2, <2>2, QuietKept
  <2>3. CASE Taken(p, g, attempt[g]) /\ attempt[g] # Nobody
    <3>1. attempt[g] \in Runtimes
      BY <2>3 DEF LeaseTypeOK
    <3> QED BY <1>2, <2>1, <2>3, <3>1, QuietKept
  <2>4. CASE UNCHANGED lease
    BY <1>2, <2>4 DEF QuietMaintenance
  <2> QED BY <1>1, <2>2, <2>3, <2>4 DEF RecoverEffect
<1> QED BY <1>3, <1>4, <1>5, <1>6, <1>7, <1>8, <1>9, <1>10, <1>11

\* Start keeps the invariant.
LEMMA StartKeeps ==
  ASSUME LeaseInv, NEW g \in Gpus, NEW r \in Runtimes, Start(g, r)
  PROVE  LeaseInv'
<1> USE LeaseAssumption DEF LeaseInv
<1>1. /\ up[Home[g]] = "up" /\ attempt[g] = Nobody /\ ~maintenance[Home[g]] /\ FileFree(r)
      /\ UNCHANGED <<up, todo, owner, maintenance, blocked, crashes, entered, live>>
      /\ Home[g] \in Agents
  BY DEF Start, agents, GateFree
<1>2. /\ attempt' \in [Gpus -> Runtimes \cup {Nobody}] /\ attempt'[g] = r
      /\ \A h \in Gpus \ {g} : attempt'[h] = attempt[h]
      /\ running' \in [Gpus -> BOOLEAN]
      /\ \A h \in Gpus \ {g} : running'[h] = running[h]
      /\ lease' \in [Agents -> [Gpus -> Runtimes \cup {Nobody}]] /\ Taken(Home[g], g, r)
  <2>1. lease' = [lease EXCEPT ![Home[g]][g] = r] /\ stale' = stale
    BY DEF Start
  <2>2. Taken(Home[g], g, r) /\ lease' \in [Agents -> [Gpus -> Runtimes \cup {Nobody}]]
    BY <1>1, <2>1, TakenFacts
  <2> QED BY <2>2 DEF Start, LeaseTypeOK
<1>3. LeaseTypeOK'
  BY <1>1, <1>2, SMTT(20) DEF LeaseTypeOK, Runtimes, Taken
<1>4. LiveIsEntered'
  BY <1>1, <1>2, SMTT(20) DEF LiveIsEntered, LeaseTypeOK
<1>5. OwnersServe'
  BY <1>1, <1>2, SMTT(20) DEF LeaseTypeOK, OwnersServe
<1>6. RunningIsServed'
  BY <1>1, <1>2, SMTT(20) DEF RunningIsServed, Runtimes, Taken
<1>7. HeldForTheAttempt'
  <2>1. Elsewhere(g)
    BY <1>1, <1>2 DEF Elsewhere
  <2>2. running'[g]
    BY DEF Start, LeaseTypeOK
  <2> QED BY <1>1, <1>2, <2>1, <2>2, TakenHeld
<1>8. Exclusive'
  BY <1>1, <1>2, TakenExclusive
<1>9. Together'
  BY <1>1, <1>2, SMTT(20) DEF Together, LeaseTypeOK
<1>10. NoneAbandoned'
  BY <1>1, <1>2, SMTT(20) DEF NoneAbandoned
<1>11. QuietMaintenance'
  BY <1>1, <1>2, QuietKept
<1> QED BY <1>3, <1>4, <1>5, <1>6, <1>7, <1>8, <1>9, <1>10, <1>11

\* EndsStopped keeps the invariant.
LEMMA EndsStoppedKeeps ==
  ASSUME LeaseInv, NEW g \in Gpus, EndsStopped(g)
  PROVE  LeaseInv'
<1> USE LeaseAssumption DEF LeaseInv
<1>1. OverEffect(g)
  BY OverFacts DEF EndsStopped
<1>2. /\ Home[g] \in Agents /\ running[g]
      /\ UNCHANGED <<up, todo, owner, maintenance, blocked, crashes>>
      /\ live' \in [Gpus -> Runtimes \cup {Nobody}] /\ live'[g] = Nobody
      /\ \A h \in Gpus \ {g} : live'[h] = live[h]
      /\ running' \in [Gpus -> BOOLEAN] /\ ~running'[g]
      /\ \A h \in Gpus \ {g} : running'[h] = running[h]
  BY DEF EndsStopped, agents, LeaseTypeOK
<1>3. LeaseTypeOK'
  <2>1. \A h \in Gpus : entered'[h] => attempt'[h] # Nobody
    BY <1>1, <1>2 DEF LeaseTypeOK, OverEffect
  <2>2. /\ up' \in [Agents -> {"down", "starting", "up"}]
        /\ todo' \in [Agents -> SUBSET Gpus] /\ owner' \in [Gpus -> Agents \cup {Nobody}]
        /\ running' \in [Gpus -> BOOLEAN] /\ maintenance' \in [Agents -> BOOLEAN]
        /\ crashes' \in 0 .. MaxCrashes
    BY <1>2 DEF LeaseTypeOK
  <2>3. /\ attempt' \in [Gpus -> Runtimes \cup {Nobody}] /\ entered' \in [Gpus -> BOOLEAN]
        /\ live' \in [Gpus -> Runtimes \cup {Nobody}] /\ blocked' \in [Agents -> BOOLEAN]
        /\ lease' \in [Agents -> [Gpus -> Runtimes \cup {Nobody}]]
        /\ stale' \in [Agents -> BOOLEAN]
    BY <1>1, <1>2 DEF LeaseTypeOK, OverEffect
  <2> QED BY <2>1, <2>2, <2>3 DEF LeaseTypeOK
<1>4. LiveIsEntered'
  BY <1>1, <1>2, SMTT(20) DEF LiveIsEntered, OverEffect
<1>5. OwnersServe'
  BY <1>2, SMTT(20) DEF OwnersServe
<1>6. RunningIsServed'
  BY <1>1, <1>2, SMTT(20) DEF RunningIsServed, LeaseTypeOK, OverEffect, Cleared
<1>7. HeldForTheAttempt'
  <2>1. Elsewhere(g)
    BY <1>1, <1>2 DEF OverEffect, Elsewhere
  <2> QED BY <1>1, <2>1, ClearedHeld DEF OverEffect
<1>8. Exclusive'
  BY <1>1, ClearedExclusive DEF OverEffect
<1>9. Together'
  BY <1>1, <1>2, SMTT(20) DEF Together, OverEffect
<1>10. NoneAbandoned'
  BY <1>1, <1>2, SMTT(20) DEF NoneAbandoned, OverEffect
<1>11. QuietMaintenance'
  BY <1>1, <1>2, QuietKept DEF OverEffect
<1> QED BY <1>3, <1>4, <1>5, <1>6, <1>7, <1>8, <1>9, <1>10, <1>11

\* Cancel keeps the invariant.
LEMMA CancelKeeps ==
  ASSUME LeaseInv, NEW g \in Gpus, Cancel(g)
  PROVE  LeaseInv'
<1> USE LeaseAssumption DEF LeaseInv
<1>1. OverEffect(g)
  BY OverFacts DEF Cancel
<1>2. /\ Home[g] \in Agents /\ ~running[g] /\ lease[Home[g]][g] # Nobody /\ running' = running
      /\ UNCHANGED <<up, todo, owner, maintenance, blocked, crashes>>
      /\ live' \in [Gpus -> Runtimes \cup {Nobody}] /\ live'[g] = Nobody
      /\ \A h \in Gpus \ {g} : live'[h] = live[h]
  BY DEF Cancel, agents, LeaseTypeOK
<1>3. LeaseTypeOK'
  <2>1. \A h \in Gpus : entered'[h] => attempt'[h] # Nobody
    BY <1>1, <1>2 DEF LeaseTypeOK, OverEffect
  <2>2. /\ up' \in [Agents -> {"down", "starting", "up"}]
        /\ todo' \in [Agents -> SUBSET Gpus] /\ owner' \in [Gpus -> Agents \cup {Nobody}]
        /\ running' \in [Gpus -> BOOLEAN] /\ maintenance' \in [Agents -> BOOLEAN]
        /\ crashes' \in 0 .. MaxCrashes
    BY <1>2 DEF LeaseTypeOK
  <2>3. /\ attempt' \in [Gpus -> Runtimes \cup {Nobody}] /\ entered' \in [Gpus -> BOOLEAN]
        /\ live' \in [Gpus -> Runtimes \cup {Nobody}] /\ blocked' \in [Agents -> BOOLEAN]
        /\ lease' \in [Agents -> [Gpus -> Runtimes \cup {Nobody}]]
        /\ stale' \in [Agents -> BOOLEAN]
    BY <1>1, <1>2 DEF LeaseTypeOK, OverEffect
  <2> QED BY <2>1, <2>2, <2>3 DEF LeaseTypeOK
<1>4. LiveIsEntered'
  BY <1>1, <1>2, SMTT(20) DEF LiveIsEntered, OverEffect
<1>5. OwnersServe'
  BY <1>2, SMTT(20) DEF OwnersServe
<1>6. RunningIsServed'
  <2> SUFFICES ASSUME NEW h \in Gpus, running[h]
               PROVE  up[Home[h]] = "up" /\ attempt'[h] # Nobody
                      /\ lease'[Home[h]][h] = attempt'[h]
    BY <1>2 DEF RunningIsServed
  <2>1. h # g /\ Home[h] \in Agents
    BY <1>2
  <2>2. attempt'[h] = attempt[h] /\ lease'[Home[h]][h] = lease[Home[h]][h]
    BY <1>1, <2>1 DEF OverEffect, Cleared
  <2> QED BY <2>2 DEF RunningIsServed
<1>7. HeldForTheAttempt'
  <2>1. Elsewhere(g)
    BY <1>1, <1>2 DEF OverEffect, Elsewhere
  <2> QED BY <1>1, <2>1, ClearedHeld DEF OverEffect
<1>8. Exclusive'
  BY <1>1, ClearedExclusive DEF OverEffect
<1>9. Together'
  BY <1>1, <1>2, SMTT(20) DEF Together, OverEffect
<1>10. NoneAbandoned'
  BY <1>1, <1>2, SMTT(20) DEF NoneAbandoned, OverEffect
<1>11. QuietMaintenance'
  BY <1>1, <1>2, QuietKept DEF OverEffect
<1> QED BY <1>3, <1>4, <1>5, <1>6, <1>7, <1>8, <1>9, <1>10, <1>11

\* Every step keeps the invariant.
LEMMA NextLease ==
  LeaseInv /\ [LeaseNext]_leaseVars => LeaseInv'
<1> SUFFICES ASSUME LeaseInv, [LeaseNext]_leaseVars PROVE LeaseInv'
  OBVIOUS
<1>1. ASSUME NEW p \in Agents, Agent(p) PROVE LeaseInv'
  BY <1>1, BeginStartKeeps, ReadyKeeps, EndKeeps, MaintainKeeps, MaintainEndsKeeps,
     RestoreOwnKeeps, RestorePeerKeeps DEF Agent
<1>2. ASSUME NEW g \in Gpus, Job(g) PROVE LeaseInv'
  BY <1>2, StartKeeps, EnterKeeps, BackendStartsKeeps, BackendEndsKeeps, EndsStoppedKeeps,
     EndsUnverifiedKeeps, CancelKeeps DEF Job
<1>3. CASE UNCHANGED leaseVars
  BY <1>3 DEF leaseVars, LeaseInv, LeaseTypeOK, LiveIsEntered, OwnersServe, RunningIsServed,
     HeldForTheAttempt, Exclusive, Together, NoneAbandoned, QuietMaintenance
<1> QED BY <1>1, <1>2, <1>3 DEF LeaseNext

\* The invariant holds in every behaviour.
THEOREM LeaseInvariant == LeaseSpec => []LeaseInv
BY InitLease, NextLease, PTL DEF LeaseSpec

\* The variables hold what they are declared for, and only an unresolved attempt
\* may have a backend (MachineLease.LeaseTypeOK).
THEOREM LeaseTypeCorrect == LeaseSpec => []LeaseTypeOK
<1>1. LeaseInv => LeaseTypeOK
  BY DEF LeaseInv
<1> QED BY <1>1, LeaseInvariant, PTL

\* executor.go:207, client.go:797: native Ollama runs alone on the GPUs of its
\* agent, and on those of all agents until one ends; a cleanup runs with nothing.
THEOREM LeaseRunsAlone == LeaseSpec => []RunsAlone
<1>1. LeaseInv => NativeRunsAlone
  <2> SUFFICES ASSUME LeaseInv, NEW g \in Gpus, NEW h \in Gpus, live[g] = "ollama", g # h,
                      Home[g] = Home[h] \/ crashes = 0, live[h] # Nobody
               PROVE  FALSE
    BY DEF NativeRunsAlone
  <2>1. entered[g] /\ attempt[g] = "ollama" /\ entered[h]
    BY LeaseAssumption DEF LeaseInv, LiveIsEntered, Runtimes
  <2> QED BY <2>1 DEF LeaseInv, Together
<1>2. LeaseInv => MaintenanceRunsAlone
  <2> SUFFICES ASSUME LeaseInv, NEW g \in Gpus, maintenance[Home[g]], live[g] # Nobody,
                      Home[g] \in Agents
               PROVE  FALSE
    BY DEF MaintenanceRunsAlone
  <2>1. up[Home[g]] = "up" /\ lease[Home[g]][g] = Nobody
    BY DEF LeaseInv, QuietMaintenance, Free
  <2>2. owner[g] = Home[g] /\ entered[g] /\ attempt[g] # Nobody
    BY <2>1 DEF LeaseInv, OwnersServe, LiveIsEntered
  <2> QED BY <2>1, <2>2 DEF LeaseInv, HeldForTheAttempt
<1> QED BY <1>1, <1>2, LeaseInvariant, PTL DEF RunsAlone

\* journal_test.go:351: an agent that serves jobs holds the locks of every attempt
\* of its GPUs that may have a backend.
THEOREM LeaseReservesUnresolved == LeaseSpec => []UnresolvedIsReserved
<1>1. LeaseInv => UnresolvedIsReserved
  <2> SUFFICES ASSUME LeaseInv, NEW g \in Gpus, up[Home[g]] = "up", entered[g],
                      Home[g] \in Agents
               PROVE  lease[Home[g]][g] # Nobody
    BY DEF UnresolvedIsReserved
  <2>1. owner[g] = Home[g] /\ attempt[g] # Nobody
    BY DEF LeaseInv, OwnersServe, LeaseTypeOK
  <2> QED BY <2>1 DEF LeaseInv, HeldForTheAttempt
<1> QED BY <1>1, LeaseInvariant, PTL

(***************************************************************************)
(* The other direction: nothing but unresolved attempts, and the shared     *)
(* locks kept for some that another agent settled, keeps the GPUs of an     *)
(* agent from working.                                                      *)
(***************************************************************************)

\* An agent that restored the native attempt of a GPU holds its locks for it.
Native(p, g) == lease[p][g] = "ollama" /\ attempt[g] = "ollama" /\ entered[g]

\* The flag of an agent stands for a native attempt it restored, and keeps it from
\* running any other.  Inductive with LeaseInv.
BlockedByNative ==
  \A p \in Agents :
    blocked[p] => (\A g \in Gpus : Home[g] = p => ~running[g]) /\ \E g \in Gpus : Native(p, g)

\* The restoration of an attempt nobody has open keeps BlockedByNative.
LEMMA RecoverHolds ==
  ASSUME LeaseInv, BlockedByNative, NEW p \in Agents, NEW g \in Gpus, Recover(p, g),
         up[p] = "starting", owner[g] = Nobody, UNCHANGED running
  PROVE  BlockedByNative'
<1> USE LeaseAssumption
<1>1. RecoverEffect(p, g)
  BY RecoverFacts
<1>2. ASSUME NEW q \in Agents, NEW k \in Gpus, Native(q, k)
      PROVE  Native(q, k)'
  <2>1. CASE k # g
    <3>1. attempt'[k] = attempt[k] /\ entered'[k] = entered[k] /\ lease'[q][k] = lease[q][k]
      BY <1>1, <2>1 DEF RecoverEffect, Cleared, Taken
    <3> QED BY <1>2, <3>1 DEF Native
  <2>2. CASE k = g
    <3>1. attempt[g] = "ollama" /\ entered[g] /\ lease[q][g] = "ollama"
      BY <1>2, <2>2 DEF Native
    <3>2. Reserve(p, g) /\ UNCHANGED <<attempt, entered>>
      BY <3>1 DEF Recover, PassOver, Reserve, Runtimes
    <3>3. Taken(p, g, "ollama")
      BY <1>1, <3>1, <3>2 DEF RecoverEffect, Runtimes
    <3>4. lease'[q][g] = "ollama"
      BY <3>1, <3>3 DEF Taken
    <3> QED BY <2>2, <3>1, <3>2, <3>4 DEF Native
  <2> QED BY <2>1, <2>2
<1>3. SUFFICES ASSUME NEW q \in Agents, blocked'[q]
               PROVE  /\ \A h \in Gpus : Home[h] = q => ~running[h]
                      /\ \E h \in Gpus : Native(q, h)'
  BY DEF BlockedByNative
<1>4. CASE blocked[q]
  BY <1>2, <1>4 DEF BlockedByNative
<1>5. CASE ~blocked[q]
  <2>1. Reserve(p, g) /\ q = p /\ attempt[g] = "ollama"
    <3>1. blocked' # blocked
      BY <1>3, <1>5
    <3>2. Reserve(p, g)
      BY <3>1 DEF Recover, PassOver
    <3>3. blocked' = [blocked EXCEPT ![p] = @ \/ attempt[g] = "ollama"]
      BY <3>2 DEF Reserve
    <3>4. blocked \in [Agents -> BOOLEAN]
      BY DEF LeaseInv, LeaseTypeOK
    <3>5. q = p
      BY <1>3, <1>5, <3>3, <3>4
    <3>6. blocked'[p] = (blocked[p] \/ attempt[g] = "ollama")
      BY <3>3, <3>4
    <3> QED BY <1>3, <1>5, <3>2, <3>5, <3>6
  <2>2. UNCHANGED <<attempt, entered>> /\ entered[g]
    BY <2>1 DEF Reserve, Runtimes
  <2>3. Taken(p, g, "ollama")
    BY <1>1, <2>1, <2>2 DEF RecoverEffect, Runtimes
  <2>4. Native(q, g)'
    BY <2>1, <2>2, <2>3 DEF Native, Taken
  <2>5. \A h \in Gpus : Home[h] = q => ~running[h]
    BY <2>1 DEF LeaseInv, RunningIsServed
  <2> QED BY <2>4, <2>5
<1> QED BY <1>4, <1>5

\* RestoreOwn and RestorePeer keep it.
LEMMA RestoreHolds ==
  ASSUME LeaseInv, BlockedByNative, NEW p \in Agents, NEW g \in Gpus,
         RestoreOwn(p, g) \/ RestorePeer(p, g)
  PROVE  BlockedByNative'
<1>1. CASE RestoreOwn(p, g)
  BY <1>1, RecoverHolds DEF RestoreOwn
<1>2. CASE RestorePeer(p, g) /\ owner[g] = Nobody /\ Recover(p, g)
  BY <1>2, RecoverHolds DEF RestorePeer
<1>3. CASE RestorePeer(p, g) /\ UNCHANGED <<attempt, entered, live, locks, blocked>>
  <2>1. UNCHANGED <<attempt, entered, lease, blocked, running>>
    BY <1>3 DEF RestorePeer, locks
  <2> QED BY <2>1 DEF BlockedByNative, Native
<1> QED BY <1>1, <1>2, <1>3 DEF RestorePeer

\* EndsStopped and Cancel keep it: the first ends an attempt of an agent without the
\* flag, whose locks no other agent shares, and the second ends a container.
LEMMA EndsHolds ==
  ASSUME LeaseInv, BlockedByNative, NEW g \in Gpus, EndsStopped(g) \/ Cancel(g)
  PROVE  BlockedByNative'
<1> USE LeaseAssumption
<1>1. OverEffect(g) /\ UNCHANGED blocked /\ Home[g] \in Agents
  BY OverFacts DEF EndsStopped, Cancel, agents, LeaseInv
<1>2. \A h \in Gpus : running'[h] => running[h]
  <2>1. CASE EndsStopped(g)
    BY <2>1 DEF EndsStopped, LeaseInv, LeaseTypeOK
  <2>2. CASE Cancel(g)
    BY <2>2 DEF Cancel
  <2> QED BY <2>1, <2>2
<1>3. ASSUME NEW q \in Agents, blocked[q], Native(q, g) PROVE FALSE
  <2>1. CASE EndsStopped(g)
    <3>1. running[g] /\ lease[Home[g]][g] = attempt[g] /\ attempt[g] # Nobody
      BY <2>1 DEF EndsStopped, LeaseInv, RunningIsServed
    <3>2. Home[g] = q
      BY <1>1, <1>3, <3>1 DEF Native, LeaseInv, Exclusive
    <3> QED BY <1>3, <3>1, <3>2 DEF BlockedByNative
  <2>2. CASE Cancel(g)
    BY <1>3, <2>2 DEF Cancel, Native
  <2> QED BY <2>1, <2>2
<1>4. SUFFICES ASSUME NEW q \in Agents, blocked[q]
               PROVE  /\ \A h \in Gpus : Home[h] = q => ~running'[h]
                      /\ \E h \in Gpus : Native(q, h)'
  BY <1>1 DEF BlockedByNative
<1>5. PICK k \in Gpus : Native(q, k)
  BY <1>4 DEF BlockedByNative
<1>6. k # g
  BY <1>3, <1>4, <1>5
<1>7. Native(q, k)'
  BY <1>1, <1>5, <1>6 DEF Native, OverEffect, Cleared
<1>8. \A h \in Gpus : Home[h] = q => ~running[h]
  BY <1>4 DEF BlockedByNative
<1> QED BY <1>2, <1>7, <1>8

\* Start keeps it.
LEMMA StartHolds ==
  ASSUME LeaseInv, BlockedByNative, NEW g \in Gpus, NEW r \in Runtimes, Start(g, r)
  PROVE  BlockedByNative'
<1> USE LeaseAssumption
<1>1. Home[g] \in Agents /\ attempt[g] = Nobody /\ ~blocked[Home[g]] /\ UNCHANGED <<blocked, entered>>
  BY DEF Start, agents
<1>2. /\ attempt'[g] = r
      /\ \A h \in Gpus \ {g} : attempt'[h] = attempt[h] /\ running'[h] = running[h]
  BY DEF Start, LeaseInv, LeaseTypeOK
<1>3. Taken(Home[g], g, r)
  <2>1. lease' = [lease EXCEPT ![Home[g]][g] = r] /\ stale' = stale
    BY DEF Start
  <2> QED BY <1>1, <2>1, TakenFacts DEF LeaseInv
<1>4. SUFFICES ASSUME NEW q \in Agents, blocked[q]
               PROVE  /\ \A h \in Gpus : Home[h] = q => ~running'[h]
                      /\ \E h \in Gpus : Native(q, h)'
  BY <1>1 DEF BlockedByNative
<1>5. PICK k \in Gpus : Native(q, k)
  BY <1>4 DEF BlockedByNative
<1>6. k # g
  BY <1>1, <1>5 DEF Native, Runtimes
<1>7. Native(q, k)'
  BY <1>1, <1>2, <1>3, <1>5, <1>6 DEF Native, Taken
<1>8. \A h \in Gpus : Home[h] = q => ~running[h] /\ h # g
  BY <1>1, <1>4 DEF BlockedByNative
<1> QED BY <1>2, <1>7, <1>8

\* Enter and EndsUnverified keep it.
LEMMA RunnerHolds ==
  ASSUME LeaseInv, BlockedByNative, NEW g \in Gpus, Enter(g) \/ EndsUnverified(g)
  PROVE  BlockedByNative'
<1>1. /\ UNCHANGED <<blocked, attempt, lease>>
      /\ \A h \in Gpus : entered[h] => entered'[h]
      /\ \A h \in Gpus : running'[h] => running[h]
  BY DEF Enter, EndsUnverified, agents, locks, LeaseInv, LeaseTypeOK
<1>2. \A q \in Agents, h \in Gpus : Native(q, h) => Native(q, h)'
  BY <1>1 DEF Native
<1> QED BY <1>1, <1>2 DEF BlockedByNative

\* End keeps it: the locks and the flag of an agent go together.
LEMMA EndHolds ==
  ASSUME LeaseInv, BlockedByNative, NEW p \in Agents, End(p)
  PROVE  BlockedByNative'
<1>1. /\ UNCHANGED <<attempt, entered>>
      /\ \A q \in Agents \ {p} : lease'[q] = lease[q]
      /\ ~blocked'[p] /\ \A q \in Agents \ {p} : blocked'[q] = blocked[q]
  BY DEF End, Down, LeaseInv, LeaseTypeOK
<1>2. \A h \in Gpus : running'[h] => running[h]
  BY DEF End, Down
<1>3. SUFFICES ASSUME NEW q \in Agents, blocked'[q]
               PROVE  /\ \A h \in Gpus : Home[h] = q => ~running'[h]
                      /\ \E h \in Gpus : Native(q, h)'
  BY DEF BlockedByNative
<1>4. q # p /\ blocked[q] /\ lease'[q] = lease[q]
  BY <1>1, <1>3
<1>5. PICK k \in Gpus : Native(q, k)
  BY <1>4 DEF BlockedByNative
<1>6. Native(q, k)'
  BY <1>1, <1>4, <1>5 DEF Native
<1>7. \A h \in Gpus : Home[h] = q => ~running[h]
  BY <1>4 DEF BlockedByNative
<1> QED BY <1>2, <1>6, <1>7

\* Every step keeps it.
LEMMA NextHolds ==
  ASSUME LeaseInv, BlockedByNative, [LeaseNext]_leaseVars
  PROVE  BlockedByNative'
<1> USE DEF BlockedByNative, Native, locks
<1>1. ASSUME NEW p \in Agents, BeginStart(p) \/ Ready(p) \/ Maintain(p) \/ MaintainEnds(p)
      PROVE  BlockedByNative'
  BY <1>1 DEF BeginStart, Ready, Maintain, MaintainEnds
<1>2. ASSUME NEW g \in Gpus, BackendStarts(g) \/ BackendEnds(g)
      PROVE  BlockedByNative'
  BY <1>2 DEF BackendStarts, BackendEnds, agents
<1>3. CASE UNCHANGED leaseVars
  BY <1>3 DEF leaseVars
<1> HIDE DEF BlockedByNative
<1>4. ASSUME NEW p \in Agents, Agent(p) PROVE BlockedByNative'
  BY <1>1, <1>4, EndHolds, RestoreHolds DEF Agent
<1>5. ASSUME NEW g \in Gpus, Job(g) PROVE BlockedByNative'
  BY <1>2, <1>5, StartHolds, RunnerHolds, EndsHolds DEF Job
<1> QED BY <1>3, <1>4, <1>5 DEF LeaseNext

\* executor.go:207, recovery.go: an agent is kept from taking containers only by an
\* unresolved native attempt, and from native work, beyond the shared locks it kept
\* for attempts another agent settled, only by unresolved ones
\* (MachineLease.ReservedForAnAttempt).
THEOREM LeaseReservesNothingElse == LeaseSpec => []ReservedForAnAttempt
<1>1. LeaseInv /\ BlockedByNative => ReservedForAnAttempt
  <2> SUFFICES ASSUME LeaseInv, BlockedByNative, NEW p \in Agents
               PROVE  /\ blocked[p] \/ ~FileFree("docker") =>
                           \E g \in Gpus : attempt[g] = "ollama" /\ (entered[g] \/ running[g])
                      /\ ~Compatible(p, "ollama") /\ ~stale[p] =>
                           \E g \in Gpus : attempt[g] # Nobody /\ (entered[g] \/ running[g])
    BY DEF ReservedForAnAttempt
  <2>1. ASSUME NEW q \in Agents, NEW g \in Gpus, lease[q][g] # Nobody
        PROVE  attempt[g] = lease[q][g] /\ (entered[g] \/ running[g])
    BY <2>1 DEF LeaseInv, HeldForTheAttempt
  <2>2. ASSUME blocked[p]
        PROVE  \E g \in Gpus : attempt[g] = "ollama" /\ (entered[g] \/ running[g])
    BY <2>2 DEF BlockedByNative, Native
  <2>3. ASSUME ~FileFree("docker")
        PROVE  \E g \in Gpus : attempt[g] = "ollama" /\ (entered[g] \/ running[g])
    <3>1. PICK q \in Agents, g \in Gpus : lease[q][g] # Nobody /\ lease[q][g] # "docker"
      BY <2>3 DEF FileFree, Compatible
    <3>2. lease[q][g] = "ollama"
      BY <3>1 DEF LeaseInv, LeaseTypeOK, Runtimes
    <3> QED BY <2>1, <3>1, <3>2
  <2>4. ASSUME ~Compatible(p, "ollama"), ~stale[p]
        PROVE  \E g \in Gpus : attempt[g] # Nobody /\ (entered[g] \/ running[g])
    <3>1. PICK g \in Gpus : lease[p][g] # Nobody
      BY <2>4 DEF Compatible
    <3> QED BY <2>1, <3>1
  <2> QED BY <2>2, <2>3, <2>4
<1>2. LeaseInv /\ BlockedByNative /\ [LeaseNext]_leaseVars => BlockedByNative'
  BY NextHolds
<1>3. LeaseInit => BlockedByNative
  BY DEF LeaseInit, BlockedByNative
<1> QED BY <1>1, <1>2, <1>3, LeaseInvariant, PTL DEF LeaseSpec
=============================================================================
