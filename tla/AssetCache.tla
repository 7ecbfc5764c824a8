---------------------------- MODULE AssetCache ----------------------------
(***************************************************************************)
(* The files a job needs: downloaded once into the shared asset cache,      *)
(* staged for the job by a hard link or a copy, and removed by the periodic *)
(* cleanup or the pool's (internal/job/pipeline.go, cleanup.go,             *)
(* internal/pool/client.go).                                                *)
(*                                                                          *)
(* A file is named by its SHA-256, so its content is either good or bad.    *)
(* Jobs stage files in parallel; every cleanup holds the maintenance gate,  *)
(* which a job holds from its start to its verified end (MachineLease), and *)
(* so works alone.  The lock between cleanups and staging, customAssetCache-*)
(* Mu, is inside the gate and adds nothing to it.                           *)
(***************************************************************************)
EXTENDS Integers, FiniteSets, FiniteSetsExt, Sequences, SequencesExt

CONSTANTS
  Jobs, Files,
  Wants,      \* the files of each job, in the order of its assignment
  Size,       \* the size of each file
  Ttl,        \* CustomAssetTTLDays; 0 and less disables it
  Budget,     \* MaxCustomAssetCacheGB; 0 and less disables it
  NoJob,
  MaxTime,    \* bound: the clock
  MaxRots,    \* bound: files that go bad on the disk
  MaxKills    \* bound: agents that end

ASSUME CacheAssumption ==
  /\ Wants \in [Jobs -> Seq(Files)] /\ Size \in [Files -> Nat \ {0}] /\ NoJob \notin Jobs
  /\ Ttl \in Int /\ Budget \in Int /\ {MaxTime, MaxRots, MaxKills} \subseteq Nat

VARIABLES
  asset,    \* the files of the cache
  part,     \* the temporary files a crash left beside them
  used,     \* the times of both
  now,
  staged,   \* the staging directory of each job
  stagedAt, \* when it was last written
  stage,    \* each job: idle, staging, running; "running" is its container
  next,     \* the file it is at
  pc,       \* what it does with that file
  lock,     \* customAssetDownloadLocks
  sweep,    \* what the cleanup does, while it holds the gate
  rots, kills

cache == <<asset, part, used>>
staging == <<staged, stagedAt>>
jobs == <<stage, next, pc, lock>>
cacheVars == <<cache, now, staging, jobs, sweep, rots, kills>>

Content == {"none", "good", "bad"}
Kinds == {"asset", "part"}
Steps == {"dest", "lock", "cached", "fetch", "keep", "link", "copy", "check"}

(***************************************************************************)
(* Staging: DownloadCustomFilesCached, one job among others.                *)
(***************************************************************************)

File(j) == Wants[j][next[j]]
At(j, step) == stage[j] = "staging" /\ next[j] <= Len(Wants[j]) /\ pc[j] = step
Goto(j, step) == pc' = [pc EXCEPT ![j] = step] /\ UNCHANGED <<stage, next>>
Unlock(j) == lock' = [f \in Files |-> IF lock[f] = j THEN NoJob ELSE lock[f]]
Place(j, content) ==
  /\ staged' = [staged EXCEPT ![j][File(j)] = content]
  /\ stagedAt' = [stagedAt EXCEPT ![j] = now]

\* The next file, or the container once all are staged.
Advance(j) ==
  /\ next' = [next EXCEPT ![j] = @ + 1]
  /\ pc' = [pc EXCEPT ![j] = "dest"]
  /\ stage' = [stage EXCEPT ![j] = IF next[j] = Len(Wants[j]) THEN "running" ELSE @]

\* Mutant of Abort: the lock of the file is only released on success.
Mut_Abort(j) ==
  /\ stage' = [stage EXCEPT ![j] = "idle"]
  /\ pc' = [pc EXCEPT ![j] = "dest"]
  /\ UNCHANGED <<lock, next>>

\* An error ends the job; the deferred calls let its lock go.
Abort(j) ==
  /\ stage' = [stage EXCEPT ![j] = "idle"]
  /\ pc' = [pc EXCEPT ![j] = "dest"]
  /\ Unlock(j) /\ UNCHANGED next

Begin(j) ==
  /\ stage[j] = "idle" /\ sweep = "none"
  /\ stage' = [stage EXCEPT ![j] = IF Wants[j] = <<>> THEN "running" ELSE "staging"]
  /\ next' = [next EXCEPT ![j] = 1] /\ pc' = [pc EXCEPT ![j] = "dest"]
  /\ UNCHANGED <<cache, now, staging, lock, sweep, rots, kills>>

\* A cancellation or the job's timeout, noticed before a file.
Stop(j) ==
  /\ At(j, "dest") /\ Abort(j)
  /\ UNCHANGED <<cache, now, staging, sweep, rots, kills>>

\* A file of an earlier attempt of the job is used again if it is good.
SeeDest(j) ==
  /\ At(j, "dest")
  /\ IF staged[j][File(j)] = "good"
       THEN Advance(j) /\ UNCHANGED staging
       ELSE Goto(j, "lock") /\ Place(j, "none")
  /\ UNCHANGED <<cache, now, lock, sweep, rots, kills>>

\* Mutant of LockFree: jobs do not wait for each other.
Mut_LockFree(j) == TRUE
LockFree(j) == lock[File(j)] = NoJob

Lock(j) ==
  /\ At(j, "lock") /\ LockFree(j)
  /\ lock' = [lock EXCEPT ![File(j)] = j] /\ Goto(j, "cached")
  /\ UNCHANGED <<cache, now, staging, sweep, rots, kills>>

SeeCached(j) ==
  /\ At(j, "cached")
  /\ IF asset[File(j)] = "good"
       THEN Goto(j, "keep") /\ UNCHANGED asset
       ELSE Goto(j, "fetch") /\ asset' = [asset EXCEPT ![File(j)] = "none"]
  /\ UNCHANGED <<part, used, now, staging, lock, sweep, rots, kills>>

\* Mutant of Touch: the file is given the time it expires at.
Mut_Touch(f) == used' = [used EXCEPT !["asset"][f] = now + Ttl]
Touch(f) == used' = [used EXCEPT !["asset"][f] = now]

\* The temporary file is complete and renamed, or the download fails or is
\* cancelled and the file removed.
Fetched(j) ==
  /\ At(j, "fetch")
  /\ \/ \E content \in {"good", "bad"} :
          /\ asset' = [asset EXCEPT ![File(j)] = content]
          /\ Touch(File(j))
          /\ Goto(j, "keep") /\ UNCHANGED lock
     \/ Abort(j) /\ UNCHANGED <<asset, used>>
  /\ UNCHANGED <<part, now, staging, sweep, rots, kills>>

\* Verified again, whether it was found or downloaded; its time is refreshed, or
\* that fails and is ignored.
Keep(j) ==
  /\ At(j, "keep")
  /\ IF asset[File(j)] = "good"
       THEN /\ Touch(File(j)) \/ UNCHANGED used
            /\ Unlock(j) /\ Goto(j, "link") /\ UNCHANGED asset
       ELSE /\ asset' = [asset EXCEPT ![File(j)] = "none"]
            /\ Abort(j) /\ UNCHANGED used
  /\ UNCHANGED <<part, now, staging, sweep, rots, kills>>

\* stageCachedFile: a link, or a copy where the file systems differ.
Link(j) ==
  /\ At(j, "link")
  /\ IF asset[File(j)] = "none"
       THEN Abort(j) /\ UNCHANGED staging
       ELSE /\ \/ Place(j, asset[File(j)]) /\ Goto(j, "check")
               \/ Place(j, "bad") /\ Goto(j, "copy")
            /\ UNCHANGED lock
  /\ UNCHANGED <<cache, now, sweep, rots, kills>>

Copied(j) ==
  /\ At(j, "copy")
  /\ \/ /\ \E content \in {asset[File(j)], "bad"} \ {"none"} : Place(j, content)
        /\ Goto(j, "check") /\ UNCHANGED lock
     \/ Place(j, "none") /\ Abort(j)
  /\ UNCHANGED <<cache, now, sweep, rots, kills>>

Check(j) ==
  /\ At(j, "check")
  /\ IF staged[j][File(j)] = "good"
       THEN Advance(j) /\ UNCHANGED <<staging, lock>>
       ELSE Place(j, "none") /\ Abort(j)
  /\ UNCHANGED <<cache, now, sweep, rots, kills>>

\* The verified end of a container, of this agent or of one that crashed.
JobOver(j) ==
  /\ stage[j] = "running"
  /\ stage' = [stage EXCEPT ![j] = "idle"]
  /\ UNCHANGED <<cache, now, staging, next, pc, lock, sweep, rots, kills>>

(***************************************************************************)
(* Cleanups, with the gate held.                                            *)
(***************************************************************************)

Sweep(step) == sweep' = step /\ UNCHANGED <<now, jobs, rots, kills>>

\* Mutant of MaintenanceFree: a job gives the gate back once its container runs.
Mut_MaintenanceFree == \A j \in Jobs : stage[j] # "staging"
MaintenanceFree == \A j \in Jobs : stage[j] = "idle"

\* pruneCustomAssetsIfIdle starts with the staging directories, the execution of
\* an asset_cleanup does what it was asked for.  TryLock fails beside a job.
BeginSweep ==
  /\ sweep = "none" /\ MaintenanceFree
  /\ \E step \in {"staging", "remove"} : Sweep(step)
  /\ UNCHANGED <<cache, staging>>

\* PruneBatchStaging: the first directory that cannot be removed is an error.
PruneBatchStaging ==
  /\ sweep = "staging"
  /\ \E gone \in SUBSET Jobs :
       /\ staged' = [j \in Jobs |-> IF j \in gone THEN [f \in Files |-> "none"] ELSE staged[j]]
       /\ Sweep(IF gone = Jobs THEN "assets" ELSE "none")
  /\ UNCHANGED <<cache, stagedAt>>

\* What PruneCustomAssets walks over: the files, and what is left of downloads.
Present == {e \in Kinds \X Files :
              IF e[1] = "asset" THEN asset[e[2]] # "none" ELSE e[2] \in part}
LastUsed(e) == used[e[1]][e[2]]
Bytes(entries) == FoldSet(LAMBDA e, total : total + Size[e[2]], 0, entries)
Expired(e) == Ttl > 0 /\ LastUsed(e) < now - Ttl

\* Mutant of Evicted: the total is the one it started with.
Mut_Evicted(candidates) ==
  SelectSeq(candidates, LAMBDA e : Expired(e) \/ (Budget > 0 /\ Bytes(Present) > Budget))

\* The entries it evicts, in the order it meets them.
Evicted(candidates) ==
  FoldLeft(LAMBDA done, e :
             IF Expired(e) \/ (Budget > 0 /\ done.total > Budget)
               THEN [total |-> done.total - Size[e[2]], out |-> Append(done.out, e)]
               ELSE done,
           [total |-> Bytes(Present), out |-> <<>>], candidates).out

Oldest(candidates) ==
  \A i, k \in DOMAIN candidates : i < k => LastUsed(candidates[i]) <= LastUsed(candidates[k])
Candidates == {order \in SetToSeqs(Present) : Oldest(order)}

Removed(entries) ==
  /\ asset' = [f \in Files |-> IF <<"asset", f>> \in entries THEN "none" ELSE asset[f]]
  /\ part' = {f \in part : <<"part", f>> \notin entries}
  /\ UNCHANGED used

PruneCustomAssets ==
  /\ sweep = "assets" /\ Sweep("none")
  /\ IF Ttl <= 0 /\ Budget <= 0 THEN UNCHANGED cache
     ELSE \E order \in Candidates : Removed(Range(Evicted(order)))
  /\ UNCHANGED staging

\* ... or it stops at a file it cannot remove.
PruneFails ==
  /\ sweep = "assets" /\ Sweep("none")
  /\ \E order \in Candidates : \E n \in 0 .. Len(Evicted(order)) - 1 :
       Removed(Range(SubSeq(Evicted(order), 1, n)))
  /\ UNCHANGED staging

\* ExecuteCleanup with custom_assets, job_files or both; RemoveAll may fail
\* after some files.
ExecuteCleanup ==
  /\ sweep = "remove" /\ Sweep("none")
  /\ \E entries \in SUBSET Present : Removed(entries)
  /\ \E gone \in SUBSET Jobs :
       staged' = [j \in Jobs |-> IF j \in gone THEN [f \in Files |-> "none"] ELSE staged[j]]
  /\ UNCHANGED stagedAt

(***************************************************************************)
(* The rest of the machine.                                                 *)
(***************************************************************************)

Tick ==
  /\ now < MaxTime /\ now' = now + 1
  /\ UNCHANGED <<cache, staging, jobs, sweep, rots, kills>>

\* A file of the cache goes bad while no staging directory links it.
Rot ==
  /\ rots < MaxRots /\ rots' = rots + 1
  /\ \E f \in Files :
       /\ asset[f] = "good" /\ \A j \in Jobs : staged[j][f] = "none"
       /\ asset' = [asset EXCEPT ![f] = "bad"]
  /\ UNCHANGED <<part, used, now, staging, jobs, sweep, kills>>

\* The agent ends: downloads leave their temporary files, containers go on and
\* are reserved again before anything else is done.
Crash ==
  /\ kills < MaxKills /\ kills' = kills + 1
  /\ LET left == {File(j) : j \in {j \in Jobs : At(j, "fetch")}} IN
       /\ part' = part \cup left
       /\ used' = [used EXCEPT !["part"] = [f \in Files |-> IF f \in left THEN now ELSE @[f]]]
  /\ stage' = [j \in Jobs |-> IF stage[j] = "running" THEN "running" ELSE "idle"]
  /\ pc' = [j \in Jobs |-> "dest"]
  /\ lock' = [f \in Files |-> NoJob]
  /\ sweep' = "none"
  /\ UNCHANGED <<asset, now, staging, next, rots>>

CacheInit ==
  /\ asset = [f \in Files |-> "none"] /\ part = {}
  /\ used = [k \in Kinds |-> [f \in Files |-> 0]] /\ now = 0
  /\ staged = [j \in Jobs |-> [f \in Files |-> "none"]] /\ stagedAt = [j \in Jobs |-> 0]
  /\ stage = [j \in Jobs |-> "idle"] /\ next = [j \in Jobs |-> 1]
  /\ pc = [j \in Jobs |-> "dest"] /\ lock = [f \in Files |-> NoJob]
  /\ sweep = "none" /\ rots = 0 /\ kills = 0

Stage(j) ==
  \/ SeeDest(j) \/ Lock(j) \/ SeeCached(j) \/ Fetched(j) \/ Keep(j) \/ Link(j)
  \/ Copied(j) \/ Check(j)

Sweeping == BeginSweep \/ PruneBatchStaging \/ PruneCustomAssets \/ PruneFails \/ ExecuteCleanup

CacheNext ==
  \/ \E j \in Jobs : Begin(j) \/ Stop(j) \/ Stage(j) \/ JobOver(j)
  \/ Sweeping \/ Tick \/ Rot \/ Crash

CacheSpec == CacheInit /\ [][CacheNext]_cacheVars

\* A Go mutex is handed to a waiter in the end; nothing else waits for another.
CacheFairness == \A j \in Jobs : SF_cacheVars(Lock(j)) /\ WF_cacheVars(Stage(j))
CacheFairSpec == CacheSpec /\ CacheFairness

(***************************************************************************)
(* Properties.                                                              *)
(***************************************************************************)

CacheTypeOK ==
  /\ asset \in [Files -> Content] /\ part \subseteq Files
  /\ used \in [Kinds -> [Files -> 0 .. MaxTime]] /\ now \in 0 .. MaxTime
  /\ staged \in [Jobs -> [Files -> Content]] /\ stagedAt \in [Jobs -> 0 .. MaxTime]
  /\ stage \in [Jobs -> {"idle", "staging", "running"}]
  /\ \A j \in Jobs : next[j] \in 1 .. Len(Wants[j]) + 1
  /\ pc \in [Jobs -> Steps] /\ lock \in [Files -> Jobs \cup {NoJob}]
  /\ sweep \in {"none", "staging", "assets", "remove"}

\* A container has all its files, verified, as long as it runs: whatever the
\* downloads, the other jobs, the cleanups and the crashes did (pipeline.go:268).
RunningHasItsFiles ==
  \A j \in Jobs : stage[j] = "running" => \A f \in Range(Wants[j]) : staged[j][f] = "good"

\* pipeline_test.go:205, TestEnsureCachedFileDownloadsOnceConcurrently: jobs that
\* need the same file never download it at the same time.
DownloadsOnce ==
  \A i, j \in Jobs : At(i, "fetch") /\ At(j, "fetch") /\ File(i) = File(j) => i = j

\* config.go:338: least-recently-used assets are removed first, no more than the
\* budget asks for, and what stays is neither expired nor over the budget.
PrunesLeastRecentlyUsed ==
  [][PruneCustomAssets =>
       LET out == Present \ Present'
           kept == Present \cap Present'
       IN /\ \A e \in out, r \in kept : LastUsed(e) <= LastUsed(r)
          /\ \A r \in kept : ~Expired(r)
          /\ Budget > 0 => Bytes(kept) <= Budget
          /\ \A e \in out : Expired(e) \/
               (Budget > 0 /\ Bytes(kept \cup {o \in out : LastUsed(o) >= LastUsed(e)}) > Budget)]_cacheVars

\* No staging waits for ever, on a file's lock or on another job.
StagingEnds == \A j \in Jobs : stage[j] = "staging" ~> stage[j] # "staging"

\* config.go:333: "Remove cached safe model assets, workflows, and stale job
\* staging after this many days without use."
StagingOutlivesItsJob ==
  [][\A j \in Jobs :
       sweep = "staging" /\ (\E f \in Files : staged[j][f] # "none" /\ staged'[j][f] = "none")
       => Ttl > 0 /\ stagedAt[j] < now - Ttl]_cacheVars
=============================================================================
