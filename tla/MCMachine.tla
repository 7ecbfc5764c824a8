----------------------------- MODULE MCMachine -----------------------------
(* TLC instances of what an agent keeps on its machine: MachineLease,        *)
(* JournalRoot, AssetCache and Containers.  They share no variable, and no   *)
(* property relates two of them, so a behaviour explores one of them and     *)
(* leaves the others where they begin, instead of all their interleavings.   *)
EXTENDS MachineLease, JournalRoot, AssetCache, Containers

CONSTANTS Parts, g1, g2, g3, a, b, j1, j2, f1, f2, f3, a1, a2, d1, d2, i1, i2, m1, m2

VARIABLE explored

OneAgent == [g \in Gpus |-> a]
EachItsAgent == [g \in Gpus |-> IF g = g1 THEN a ELSE b]
LastOfOther == [g \in Gpus |-> IF g = g3 THEN b ELSE a]

TwoGpus == {0, 1}
ThreeGpus == {0, 1, 2}

\* Two jobs that share a file, or one whose three files do not all fit.
SharedFile == (j1 :> <<f1, f2>>) @@ (j2 :> <<f1>>)
OneJob == j1 :> <<f1, f2, f3>>
Sizes == [f \in Files |-> IF f = f2 THEN 2 ELSE 1]

\* Parts are cleaned in the order of cmdCleanup.
All == {<<"containers", "images", "ollama">>}
AnyPart == {<<"containers">>, <<"images">>, <<"ollama">>}
NoCommand == {}

\* The daemons are interchangeable: docker's context begins with the first.
Init ==
  /\ explored \in Parts
  /\ LeaseInit /\ RootInit /\ CacheInit
  /\ BoxesInit /\ context = d1

Next ==
  \/ /\ explored = "lease" /\ LeaseNext
     /\ UNCHANGED <<explored, rootVars, cacheVars, boxesVars>>
  \/ /\ explored = "root" /\ RootNext
     /\ UNCHANGED <<explored, leaseVars, cacheVars, boxesVars>>
  \/ /\ explored = "cache" /\ CacheNext
     /\ UNCHANGED <<explored, leaseVars, rootVars, boxesVars>>
  \/ /\ explored = "boxes" /\ BoxesNext
     /\ UNCHANGED <<explored, leaseVars, rootVars, cacheVars>>

Spec == Init /\ [][Next]_<<explored, leaseVars, rootVars, cacheVars, boxesVars>>

\* The cache alone, with the fairness of its jobs and sweeps.
FairSpec == Spec /\ CacheFairness
=============================================================================
