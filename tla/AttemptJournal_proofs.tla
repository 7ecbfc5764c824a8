------------------------ MODULE AttemptJournal_proofs ------------------------
(***************************************************************************)
(* What the execution journal guarantees for every set of attempts, every   *)
(* capacity and any sequence of calls, failed writes and crashes.           *)
(***************************************************************************)
EXTENDS AttemptJournal, FiniteSetTheorems, TLAPS

JournalInv ==
  /\ JournalTypeOK
  /\ Openable
  /\ InSync
  /\ AbsentIsFresh

\* A record may be stored for the first time only in a phase that a crash
\* before the catalog write can explain, and only if there is room for it.
MayStore(a, r) ==
  Present(rec[a]) \/ /\ HasRoom
                     /\ r.phase \in {"unstarted", "unknown"}
                     /\ ~r.stopVerified /\ ~r.accepted

LEMMA NoRecordType == NoRecord \in Record
  BY DEF NoRecord, Record

LEMMA AddWithinCapacity ==
  ASSUME NEW S, IsFiniteSet(S), NEW x, NEW m \in Nat, Cardinality(S) < m
  PROVE  Cardinality(S \cup {x}) <= m
<1>1. Cardinality(S) \in Nat
  BY FS_CardinalityType
<1>2. Cardinality(S \cup {x}) \in {Cardinality(S), Cardinality(S) + 1}
  BY FS_AddElement
<1> QED BY <1>1, <1>2

LEMMA SubsetWithinCapacity ==
  ASSUME NEW S, IsFiniteSet(S), NEW T \in SUBSET S, NEW m \in Nat,
         Cardinality(S) <= m
  PROVE  Cardinality(T) <= m
<1>1. Cardinality(S) \in Nat /\ Cardinality(T) \in Nat
  BY FS_CardinalityType, FS_Subset
<1>2. Cardinality(T) <= Cardinality(S)
  BY FS_Subset
<1> QED BY <1>1, <1>2

\* Writing record r of attempt a, and listing it or not, keeps the files
\* within capacity and openable.
LEMMA WriteKeepsOpenable ==
  ASSUME JournalInv, ~fault,
         NEW a \in Attempts, NEW r \in Record, Valid(r), MayStore(a, r),
         disk' = [disk EXCEPT ![a] = r],
         catalog' \in {catalog, catalog \cup {a}}
  PROVE  Openable' /\ Recorded(disk') = Recorded(disk) \cup {a}
<1> USE JournalAssumption
<1>1. Recorded(disk') = Recorded(disk) \cup {a}
  BY DEF Recorded, Valid, Present, JournalInv, JournalTypeOK
<1>2. IsFiniteSet(Recorded(disk)) /\ IsFiniteSet(Recorded(disk'))
  BY FS_Subset DEF Recorded
<1>3. Recorded(disk) = Recorded(rec) /\ catalog = Recorded(disk)
  BY DEF JournalInv, InSync
<1>4. Cardinality(Recorded(disk')) <= MaxJournalAttempts
  <2>1. CASE Present(rec[a])
    BY <1>1, <1>3, <2>1 DEF Recorded, JournalInv, Openable
  <2>2. CASE HasRoom
    <3>1. Cardinality(Recorded(disk)) < MaxJournalAttempts
      BY <1>3, <2>2 DEF HasRoom
    <3> QED BY <1>1, <1>2, <3>1, AddWithinCapacity
  <2> QED BY <2>1, <2>2 DEF MayStore
<1>5. catalog' \subseteq Recorded(disk')
  BY <1>1, <1>3
<1>6. Cardinality(catalog') <= MaxJournalAttempts
  BY <1>2, <1>4, <1>5, SubsetWithinCapacity
<1>7. \A b \in Recorded(disk') : Valid(disk'[b])
  BY DEF JournalInv, JournalTypeOK, Openable, Recorded
<1>8. \A b \in Recorded(disk') \ catalog' :
        /\ disk'[b].phase \in {"unstarted", "unknown"}
        /\ ~disk'[b].stopVerified /\ ~disk'[b].accepted
  BY <1>1, <1>3 DEF MayStore, JournalInv, JournalTypeOK, Recorded, InSync
<1> QED BY <1>1, <1>4, <1>5, <1>6, <1>7, <1>8 DEF Openable, Recorded

LEMMA StoreKeepsInv ==
  ASSUME JournalInv,
         NEW a \in Attempts, NEW r \in Record, NEW ok \in BOOLEAN,
         MayStore(a, r), Store(a, r, ok)
  PROVE  JournalInv'
<1>1. CASE ~fault /\ ok /\ Written(a, r)
  <2>1. Openable' /\ Recorded(disk') = Recorded(disk) \cup {a}
    BY <1>1, WriteKeepsOpenable DEF Written
  <2>2. JournalTypeOK'
    BY <1>1 DEF Written, JournalInv, JournalTypeOK
  <2>3. InSync'
    BY <1>1, <2>1 DEF Written, JournalInv, InSync, Recorded
  <2>4. AbsentIsFresh'
    BY <1>1 DEF Written, Valid, Present, JournalInv, JournalTypeOK, AbsentIsFresh
  <2> QED BY <2>1, <2>2, <2>3, <2>4 DEF JournalInv
<1>2. CASE ~fault /\ ~ok /\ Fenced(a, r)
  <2>1. CASE UNCHANGED <<disk, catalog>>
    BY <1>2, <2>1 DEF Fenced, JournalInv, JournalTypeOK, Openable, InSync,
                        AbsentIsFresh, Recorded
  <2>2. CASE /\ Valid(r)
             /\ disk' = [disk EXCEPT ![a] = r]
             /\ catalog' \in {catalog, catalog \cup {a}}
    <3>1. Openable'
      BY <1>2, <2>2, WriteKeepsOpenable
    <3>2. JournalTypeOK' /\ InSync' /\ AbsentIsFresh'
      BY <1>2, <2>2 DEF Fenced, Valid, Present, JournalInv, JournalTypeOK, InSync,
                        AbsentIsFresh
    <3> QED BY <3>1, <3>2 DEF JournalInv
  <2> QED BY <1>2, <2>1, <2>2 DEF Fenced
<1>3. CASE fault /\ ~ok /\ UNCHANGED jvars
  BY <1>3 DEF jvars, JournalInv, JournalTypeOK, Openable, InSync, AbsentIsFresh, Recorded
<1> QED BY <1>1, <1>2, <1>3 DEF Store

LEMMA UnchangedKeepsInv ==
  ASSUME JournalInv, UNCHANGED jvars
  PROVE  JournalInv'
BY DEF jvars, JournalInv, JournalTypeOK, Openable, InSync, AbsentIsFresh, Recorded

LEMMA RecordsTyped ==
  ASSUME JournalInv, NEW a \in Attempts
  PROVE  /\ rec[a] \in Record
         /\ ~Present(rec[a]) =>
              /\ ~rec[a].stopVerified /\ ~rec[a].accepted
              /\ ~rec[a].knownUnstarted /\ rec[a].runtime = "none"
<1>1. rec[a] \in Record
  BY DEF JournalInv, JournalTypeOK
<1>2. ~Present(rec[a]) => rec[a] = NoRecord
  BY DEF JournalInv, AbsentIsFresh
<1>3. /\ NoRecord.stopVerified = FALSE /\ NoRecord.accepted = FALSE
      /\ NoRecord.knownUnstarted = FALSE /\ NoRecord.runtime = "none"
  BY DEF NoRecord
<1> QED BY <1>1, <1>2, <1>3, Zenon

\* Every operation that writes, writes a typed record it may store.
LEMMA AdmitKeepsInv ==
  ASSUME JournalInv, NEW a \in Attempts, NEW ok \in BOOLEAN, Admit(a, ok)
  PROVE  JournalInv'
<1>1. CASE Admissible(a) /\ Store(a, Admitted(a), ok)
  <2>1. Admitted(a) \in Record
    BY RecordsTyped, JournalAssumption DEF Admitted, Record
  <2>2. MayStore(a, Admitted(a))
    BY <1>1, RecordsTyped DEF MayStore, Admissible, Admitted, Record
  <2> QED BY <1>1, <2>1, <2>2, StoreKeepsInv
<1>2. CASE Refused(ok)
  BY <1>2, UnchangedKeepsInv DEF Refused
<1> QED BY <1>1, <1>2 DEF Admit

LEMMA RunningKeepsInv ==
  ASSUME JournalInv, NEW a \in Attempts, NEW ok \in BOOLEAN, Running(a, ok)
  PROVE  JournalInv'
<1> DEFINE r == [rec[a] EXCEPT !.phase = "running", !.knownUnstarted = FALSE]
<1>1. CASE rec[a].knownUnstarted /\ Store(a, r, ok)
  <2>1. Present(rec[a])
    BY <1>1, RecordsTyped
  <2>2. r \in Record
    BY RecordsTyped DEF Record
  <2> HIDE DEF r
  <2> QED BY <1>1, <2>1, <2>2, StoreKeepsInv DEF MayStore
<1>2. CASE Refused(ok)
  BY <1>2, UnchangedKeepsInv DEF Refused
<1> QED BY <1>1, <1>2 DEF Running

LEMMA AssignDockerDaemonKeepsInv ==
  ASSUME JournalInv, NEW a \in Attempts, NEW ok \in BOOLEAN,
         AssignDockerDaemon(a, ok)
  PROVE  JournalInv'
<1> DEFINE r == [rec[a] EXCEPT !.daemon = TRUE]
<1>1. CASE rec[a].phase = "running" /\ Store(a, r, ok)
  <2>1. Present(rec[a])
    BY <1>1 DEF Present
  <2>2. r \in Record
    BY RecordsTyped DEF Record
  <2> HIDE DEF r
  <2> QED BY <1>1, <2>1, <2>2, StoreKeepsInv DEF MayStore
<1>2. CASE Refused(ok)
  BY <1>2, UnchangedKeepsInv DEF Refused
<1> QED BY <1>1, <1>2 DEF AssignDockerDaemon

LEMMA CompleteKeepsInv ==
  ASSUME JournalInv, NEW a \in Attempts, NEW ok \in BOOLEAN,
         NEW result \in Results \cup {"none"}, NEW stopped \in BOOLEAN,
         Complete(a, result, stopped, ok)
  PROVE  JournalInv'
<1>1. CASE Present(rec[a]) /\ Store(a, Completed(a, result, stopped), ok)
  <2>1. Completed(a, result, stopped) \in Record
    <3> DEFINE kept == IF result = "none" THEN rec[a].result ELSE result
               blocked == /\ ~stopped
                          /\ ~(rec[a].runtime = "workspace" /\ kept = "success")
                          /\ ~rec[a].knownUnstarted
    <3>1. kept \in Results \cup {"none"} /\ blocked \in BOOLEAN
      BY RecordsTyped DEF Record
    <3>2. Completed(a, result, stopped) =
            [rec[a] EXCEPT !.phase = "finished", !.stopVerified = stopped,
                           !.result = kept, !.replayBlocked = blocked]
      BY DEF Completed
    <3> HIDE DEF kept, blocked
    <3> QED BY <3>1, <3>2, RecordsTyped DEF Record
  <2> QED BY <1>1, <2>1, StoreKeepsInv DEF MayStore
<1>2. CASE Refused(ok)
  BY <1>2, UnchangedKeepsInv DEF Refused
<1> QED BY <1>1, <1>2 DEF Complete

LEMMA RememberCancellationKeepsInv ==
  ASSUME JournalInv, NEW a \in Attempts, NEW ok \in BOOLEAN,
         RememberCancellation(a, ok)
  PROVE  JournalInv'
<1>1. CASE (Present(rec[a]) \/ HasRoom) /\ Store(a, Cancelled(a), ok)
  <2>1. Cancelled(a) \in Record
    <3> DEFINE never == /\ Docker(rec[a].runtime) /\ ~rec[a].daemon
                        /\ rec[a].phase = "running"
               phase == IF ~Present(rec[a]) THEN "unknown"
                        ELSE IF never THEN "unstarted" ELSE rec[a].phase
               known == rec[a].knownUnstarted \/ never
    <3>1. known \in BOOLEAN
      OBVIOUS
    <3>2. phase \in {"absent", "unknown", "unstarted", "running", "finished"}
      BY RecordsTyped DEF Record
    <3>3. Cancelled(a) = [rec[a] EXCEPT !.cancelRequested = TRUE,
                            !.phase = phase, !.knownUnstarted = known]
      BY DEF Cancelled
    <3> HIDE DEF phase, known
    <3> QED BY <3>1, <3>2, <3>3, RecordsTyped DEF Record
  <2>2. MayStore(a, Cancelled(a))
    BY <1>1, RecordsTyped DEF MayStore, Cancelled, Record
  <2> QED BY <1>1, <2>1, <2>2, StoreKeepsInv
<1>2. CASE Refused(ok)
  BY <1>2, UnchangedKeepsInv DEF Refused
<1> QED BY <1>1, <1>2 DEF RememberCancellation

LEMMA RememberResultKeepsInv ==
  ASSUME JournalInv, NEW a \in Attempts, NEW ok \in BOOLEAN,
         NEW result \in Results, RememberResult(a, result, ok)
  PROVE  JournalInv'
<1>1. CASE UNCHANGED jvars
  BY <1>1, UnchangedKeepsInv
<1>2. CASE (Present(rec[a]) \/ HasRoom) /\ Store(a, ResultRemembered(a, result), ok)
  <2>1. ResultRemembered(a, result) \in Record
    <3> DEFINE blocked == \/ rec[a].replayBlocked
                          \/ rec[a].phase = "unknown" /\ ~rec[a].stopVerified
    <3>1. CASE Present(rec[a])
      <4>1. ResultRemembered(a, result) =
              [rec[a] EXCEPT !.result = result, !.replayBlocked = blocked]
        BY <3>1 DEF ResultRemembered
      <4>2. blocked \in BOOLEAN
        OBVIOUS
      <4> HIDE DEF blocked
      <4> QED BY <4>1, <4>2, RecordsTyped DEF Record
    <3>2. CASE ~Present(rec[a])
      BY <3>2, RecordsTyped DEF ResultRemembered, Record
    <3> QED BY <3>1, <3>2
  <2>2. MayStore(a, ResultRemembered(a, result))
    BY <1>2, RecordsTyped DEF MayStore, ResultRemembered, Record
  <2> QED BY <1>2, <2>1, <2>2, StoreKeepsInv
<1> QED BY <1>1, <1>2 DEF RememberResult, Refused

LEMMA RememberLegacyResultKeepsInv ==
  ASSUME JournalInv, NEW a \in Attempts, NEW ok \in BOOLEAN,
         NEW result \in Results, RememberLegacyResult(a, result, ok)
  PROVE  JournalInv'
<1> DEFINE r == [rec[a] EXCEPT !.phase = "unknown", !.legacy = TRUE,
                               !.result = result, !.replayBlocked = TRUE]
<1>1. CASE UNCHANGED jvars
  BY <1>1, UnchangedKeepsInv
<1>2. CASE ~Present(rec[a]) /\ HasRoom /\ Store(a, r, ok)
  <2>1. r \in Record
    BY RecordsTyped DEF Record
  <2>2. MayStore(a, r)
    BY <1>2, RecordsTyped DEF MayStore, Record
  <2> HIDE DEF r
  <2> QED BY <1>2, <2>1, <2>2, StoreKeepsInv
<1> QED BY <1>1, <1>2 DEF RememberLegacyResult, Refused

LEMMA BlockReplayKeepsInv ==
  ASSUME JournalInv, NEW a \in Attempts, NEW ok \in BOOLEAN,
         NEW blocked \in BOOLEAN, BlockReplay(a, blocked, ok)
  PROVE  JournalInv'
<1> DEFINE r == [rec[a] EXCEPT !.replayBlocked = blocked]
<1>1. CASE UNCHANGED jvars
  BY <1>1, UnchangedKeepsInv
<1>2. CASE Present(rec[a]) /\ Store(a, r, ok)
  <2>1. r \in Record
    BY RecordsTyped DEF Record
  <2> HIDE DEF r
  <2> QED BY <1>2, <2>1, StoreKeepsInv DEF MayStore
<1> QED BY <1>1, <1>2 DEF BlockReplay, Refused

LEMMA AcceptKeepsInv ==
  ASSUME JournalInv, NEW a \in Attempts, NEW ok \in BOOLEAN, Accept(a, ok)
  PROVE  JournalInv'
<1> DEFINE r == [rec[a] EXCEPT !.accepted = TRUE]
<1>1. CASE UNCHANGED jvars
  BY <1>1, UnchangedKeepsInv
<1>2. CASE Present(rec[a]) /\ Store(a, r, ok)
  <2>1. r \in Record
    BY RecordsTyped DEF Record
  <2> HIDE DEF r
  <2> QED BY <1>2, <2>1, StoreKeepsInv DEF MayStore
<1> QED BY <1>1, <1>2 DEF Accept

LEMMA RecoverUnstartedKeepsInv ==
  ASSUME JournalInv, NEW a \in Attempts, NEW ok \in BOOLEAN,
         RecoverUnstarted(a, ok)
  PROVE  JournalInv'
<1> DEFINE r == [rec[a] EXCEPT
                   !.knownUnstarted = TRUE, !.stopVerified = TRUE,
                   !.replayBlocked = FALSE, !.phase = "finished",
                   !.result = IF @ = "none" THEN "failure" ELSE @]
<1>1. CASE NeverEntered(rec[a]) /\ Store(a, r, ok)
  <2>1. Present(rec[a])
    BY <1>1, RecordsTyped DEF NeverEntered, Docker
  <2>2. r \in Record
    BY RecordsTyped DEF Record, Results
  <2> HIDE DEF r
  <2> QED BY <1>1, <2>1, <2>2, StoreKeepsInv DEF MayStore
<1>2. CASE Refused(ok)
  BY <1>2, UnchangedKeepsInv DEF Refused
<1> QED BY <1>1, <1>2 DEF RecoverUnstarted

LEMMA ReopenKeepsInv ==
  ASSUME JournalInv, Reopen
  PROVE  JournalInv'
<1>1. JournalTypeOK' /\ InSync' /\ AbsentIsFresh'
  BY DEF JournalInv, JournalTypeOK, InSync, AbsentIsFresh, Reopen, Recorded
<1>2. Openable'
  BY DEF Reopen, Openable, Recorded
<1> QED BY <1>1, <1>2 DEF JournalInv

LEMMA InitInv == JournalInit => JournalInv
<1> SUFFICES ASSUME JournalInit PROVE JournalInv
  OBVIOUS
<1>1. Recorded(disk) = {} /\ Recorded(rec) = {}
  BY DEF JournalInit, Recorded, Present, NoRecord
<1>2. JournalTypeOK
  BY NoRecordType DEF JournalInit, JournalTypeOK
<1>3. Openable
  BY <1>1, FS_EmptySet, JournalAssumption DEF JournalInit, Openable
<1>4. InSync /\ AbsentIsFresh
  BY <1>1 DEF JournalInit, InSync, AbsentIsFresh
<1> QED BY <1>2, <1>3, <1>4 DEF JournalInv

LEMMA NextKeepsInv == JournalInv /\ [JournalNext]_jvars => JournalInv'
<1> SUFFICES ASSUME JournalInv, [JournalNext]_jvars PROVE JournalInv'
  OBVIOUS
<1>1. CASE UNCHANGED jvars
  BY <1>1, UnchangedKeepsInv
<1>2. CASE Reopen
  BY <1>2, ReopenKeepsInv
<1>3. CASE Close
  BY <1>3 DEF Close, JournalInv, JournalTypeOK, Openable, InSync,
              AbsentIsFresh, Recorded
<1>4. ASSUME NEW a \in Attempts, NEW ok \in BOOLEAN,
             \/ Admit(a, ok)
             \/ Running(a, ok)
             \/ AssignDockerDaemon(a, ok)
             \/ RememberCancellation(a, ok)
             \/ Accept(a, ok)
             \/ RecoverUnstarted(a, ok)
             \/ \E stopped \in BOOLEAN, result \in Results \cup {"none"} :
                  Complete(a, result, stopped, ok)
             \/ \E result \in Results : RememberResult(a, result, ok)
             \/ \E result \in Results : RememberLegacyResult(a, result, ok)
             \/ \E blocked \in BOOLEAN : BlockReplay(a, blocked, ok)
      PROVE  JournalInv'
  BY <1>4, AdmitKeepsInv, RunningKeepsInv, AssignDockerDaemonKeepsInv,
     RememberCancellationKeepsInv, AcceptKeepsInv, RecoverUnstartedKeepsInv,
     CompleteKeepsInv, RememberResultKeepsInv, RememberLegacyResultKeepsInv,
     BlockReplayKeepsInv
<1> QED BY <1>1, <1>2, <1>3, <1>4 DEF JournalNext

\* The inductive invariant holds of every behaviour of the journal.
THEOREM JournalInvariant == JournalSpec => []JournalInv
<1>1. JournalInit => JournalInv
  BY InitInv
<1>2. JournalInv /\ [JournalNext]_jvars => JournalInv'
  BY NextKeepsInv
<1> QED BY <1>1, <1>2, PTL DEF JournalSpec

\* Records in memory and on disk are always well formed.
THEOREM JournalTypeCorrect == JournalSpec => []JournalTypeOK
<1>1. JournalInv => JournalTypeOK
  BY DEF JournalInv
<1> QED BY <1>1, JournalInvariant, PTL

\* No sequence of calls, failed writes and crashes leaves files that the next
\* process refuses to open (openAttemptJournal).
THEOREM JournalAlwaysOpens == JournalSpec => []AlwaysOpenable
<1>1. JournalInv => AlwaysOpenable
  BY DEF JournalInv, AlwaysOpenable
<1> QED BY <1>1, JournalInvariant, PTL

(***************************************************************************)
(* What a step may do to the file of an attempt.                            *)
(***************************************************************************)
KeepsOut(old, new) ==
  old.cancelRequested =>
    new.cancelRequested /\ (old.phase # "running" => new.phase # "running")

NotReadmitted(old, new) ==
  Present(old) /\ ~old.knownUnstarted =>
    ~(new.knownUnstarted /\ ~new.cancelRequested /\ new.result = "none")

Lawful(old, new) == KeepsOut(old, new) /\ NotReadmitted(old, new)

\* An operation that changes a record lawfully in memory does so on disk.
LEMMA StoreIsLawful ==
  ASSUME JournalInv, NEW a \in Attempts, NEW r, NEW ok \in BOOLEAN,
         Store(a, r, ok), Lawful(rec[a], r)
  PROVE  \A b \in Attempts : Lawful(disk[b], disk'[b])
<1>1. CASE UNCHANGED disk
  BY <1>1 DEF Lawful, KeepsOut, NotReadmitted
<1>2. CASE ~fault /\ disk' = [disk EXCEPT ![a] = r]
  <2>1. disk = rec
    BY <1>2 DEF JournalInv, InSync
  <2>2. disk \in [Attempts -> Record]
    BY DEF JournalInv, JournalTypeOK
  <2>3. disk'[a] = r /\ \A b \in Attempts \ {a} : disk'[b] = disk[b]
    BY <1>2, <2>2
  <2>4. \A b \in Attempts \ {a} : Lawful(disk[b], disk'[b])
    BY <2>3 DEF Lawful, KeepsOut, NotReadmitted
  <2> QED BY <2>1, <2>3, <2>4
<1> QED BY <1>1, <1>2 DEF Store, Written, Fenced, jvars

LEMMA UnchangedIsLawful ==
  ASSUME UNCHANGED jvars
  PROVE  \A b \in Attempts : Lawful(disk[b], disk'[b])
BY DEF jvars, Lawful, KeepsOut, NotReadmitted

\* Admission, the entry into the runtime and the recovery of what never entered
\* it are the three that touch the proof that an attempt never started.
LEMMA StartsAreLawful ==
  ASSUME JournalInv, NEW a \in Attempts, NEW ok \in BOOLEAN,
         Admit(a, ok) \/ Running(a, ok) \/ RecoverUnstarted(a, ok)
  PROVE  \A b \in Attempts : Lawful(disk[b], disk'[b])
<1> USE DEF Lawful, KeepsOut, NotReadmitted
<1>1. rec[a] \in Record /\ (~Present(rec[a]) => rec[a] = NoRecord)
  BY DEF JournalInv, JournalTypeOK, AbsentIsFresh
<1>2. CASE Admit(a, ok)
  <2>1. Admissible(a) => Lawful(rec[a], Admitted(a))
    BY <1>1 DEF Admissible, Admitted, Record, NoRecord
  <2> QED BY <1>2, <2>1, StoreIsLawful, UnchangedIsLawful DEF Admit, Refused
<1>3. CASE Running(a, ok)
  <2> DEFINE r == [rec[a] EXCEPT !.phase = "running", !.knownUnstarted = FALSE]
  <2>1. rec[a].knownUnstarted /\ ~rec[a].cancelRequested => Lawful(rec[a], r)
    BY <1>1 DEF Record
  <2> HIDE DEF r
  <2>2. \/ rec[a].knownUnstarted /\ ~rec[a].cancelRequested /\ Store(a, r, ok)
        \/ Refused(ok)
    BY <1>3 DEF Running, r
  <2> QED BY <2>1, <2>2, StoreIsLawful, UnchangedIsLawful DEF Refused
<1>4. CASE RecoverUnstarted(a, ok)
  <2> DEFINE r == [rec[a] EXCEPT
                     !.knownUnstarted = TRUE, !.stopVerified = TRUE,
                     !.replayBlocked = FALSE, !.phase = "finished",
                     !.result = IF @ = "none" THEN "failure" ELSE @]
  <2>1. Lawful(rec[a], r)
    BY <1>1 DEF Record
  <2> HIDE DEF r
  <2>2. Store(a, r, ok) \/ Refused(ok)
    BY <1>4 DEF RecoverUnstarted, r
  <2> QED BY <2>1, <2>2, StoreIsLawful, UnchangedIsLawful DEF Refused
<1> QED BY <1>2, <1>3, <1>4

\* A cancellation never gives way to a start, nor does an end.
LEMMA EndsAreLawful ==
  ASSUME JournalInv, NEW a \in Attempts, NEW ok \in BOOLEAN,
         \/ RememberCancellation(a, ok)
         \/ \E stopped \in BOOLEAN, result \in Results \cup {"none"} :
              Complete(a, result, stopped, ok)
         \/ Accept(a, ok)
  PROVE  \A b \in Attempts : Lawful(disk[b], disk'[b])
<1> USE DEF Lawful, KeepsOut, NotReadmitted
<1>1. rec[a] \in Record /\ (~Present(rec[a]) => rec[a] = NoRecord)
  BY DEF JournalInv, JournalTypeOK, AbsentIsFresh
<1>2. CASE RememberCancellation(a, ok)
  <2>1. Lawful(rec[a], Cancelled(a))
    BY <1>1 DEF Cancelled, Record, NoRecord
  <2> QED BY <1>2, <2>1, StoreIsLawful, UnchangedIsLawful
          DEF RememberCancellation, Refused
<1>3. ASSUME NEW stopped \in BOOLEAN, NEW result \in Results \cup {"none"},
             Complete(a, result, stopped, ok)
      PROVE  \A b \in Attempts : Lawful(disk[b], disk'[b])
  <2>1. Lawful(rec[a], Completed(a, result, stopped))
    BY <1>1 DEF Completed, Record
  <2> QED BY <1>3, <2>1, StoreIsLawful, UnchangedIsLawful DEF Complete, Refused
<1>4. CASE Accept(a, ok)
  <2> DEFINE r == [rec[a] EXCEPT !.accepted = TRUE]
  <2>1. Lawful(rec[a], r)
    BY <1>1 DEF Record
  <2> HIDE DEF r
  <2>2. Store(a, r, ok) \/ UNCHANGED jvars
    BY <1>4 DEF Accept, r
  <2> QED BY <2>1, <2>2, StoreIsLawful, UnchangedIsLawful
<1> QED BY <1>2, <1>3, <1>4

\* What is recorded of an attempt besides does not make it start.
LEMMA NotesAreLawful ==
  ASSUME JournalInv, NEW a \in Attempts, NEW ok \in BOOLEAN,
         \/ AssignDockerDaemon(a, ok)
         \/ \E result \in Results : RememberResult(a, result, ok)
         \/ \E result \in Results : RememberLegacyResult(a, result, ok)
         \/ \E blocked \in BOOLEAN : BlockReplay(a, blocked, ok)
  PROVE  \A b \in Attempts : Lawful(disk[b], disk'[b])
<1> USE DEF Lawful, KeepsOut, NotReadmitted
<1>1. rec[a] \in Record /\ (~Present(rec[a]) => rec[a] = NoRecord)
  BY DEF JournalInv, JournalTypeOK, AbsentIsFresh
<1>2. CASE AssignDockerDaemon(a, ok)
  <2> DEFINE r == [rec[a] EXCEPT !.daemon = TRUE]
  <2>1. Lawful(rec[a], r)
    BY <1>1 DEF Record
  <2> HIDE DEF r
  <2>2. Store(a, r, ok) \/ Refused(ok)
    BY <1>2 DEF AssignDockerDaemon, r
  <2> QED BY <2>1, <2>2, StoreIsLawful, UnchangedIsLawful DEF Refused
<1>3. ASSUME NEW result \in Results, RememberResult(a, result, ok)
      PROVE  \A b \in Attempts : Lawful(disk[b], disk'[b])
  <2>1. Lawful(rec[a], ResultRemembered(a, result))
    BY <1>1 DEF ResultRemembered, Record, NoRecord
  <2> QED BY <1>3, <2>1, StoreIsLawful, UnchangedIsLawful DEF RememberResult, Refused
<1>4. ASSUME NEW result \in Results, RememberLegacyResult(a, result, ok)
      PROVE  \A b \in Attempts : Lawful(disk[b], disk'[b])
  <2> DEFINE r == [rec[a] EXCEPT !.phase = "unknown", !.legacy = TRUE,
                                 !.result = result, !.replayBlocked = TRUE]
  <2>1. Lawful(rec[a], r)
    BY <1>1 DEF Record
  <2> HIDE DEF r
  <2>2. Store(a, r, ok) \/ UNCHANGED jvars
    BY <1>4 DEF RememberLegacyResult, Refused, r
  <2> QED BY <2>1, <2>2, StoreIsLawful, UnchangedIsLawful
<1>5. ASSUME NEW blocked \in BOOLEAN, BlockReplay(a, blocked, ok)
      PROVE  \A b \in Attempts : Lawful(disk[b], disk'[b])
  <2> DEFINE r == [rec[a] EXCEPT !.replayBlocked = blocked]
  <2>1. Lawful(rec[a], r)
    BY <1>1 DEF Record
  <2> HIDE DEF r
  <2>2. Store(a, r, ok) \/ UNCHANGED jvars
    BY <1>5 DEF BlockReplay, Refused, r
  <2> QED BY <2>1, <2>2, StoreIsLawful, UnchangedIsLawful
<1> QED BY <1>2, <1>3, <1>4, <1>5

LEMMA NextIsLawful ==
  ASSUME JournalInv, [JournalNext]_jvars
  PROVE  \A b \in Attempts : Lawful(disk[b], disk'[b])
<1>1. CASE Reopen \/ Close
  BY <1>1 DEF Reopen, Close, Lawful, KeepsOut, NotReadmitted
<1>2. CASE UNCHANGED jvars
  BY <1>2, UnchangedIsLawful
<1> QED BY <1>1, <1>2, StartsAreLawful, EndsAreLawful, NotesAreLawful DEF JournalNext

\* journal.go:496: an attempt whose cancellation is on disk does not enter the
\* runtime any more, in this process or in any later one.
THEOREM JournalKeepsCancelledOut == JournalSpec => CancelledNeverStarts
<1>1. JournalInv /\ [JournalNext]_jvars =>
        [\A a \in Attempts :
           disk[a].cancelRequested =>
             /\ disk'[a].cancelRequested
             /\ disk[a].phase # "running" => disk'[a].phase # "running"]_jvars
  BY NextIsLawful DEF Lawful, KeepsOut
<1> QED BY <1>1, JournalInvariant, PTL DEF JournalSpec, CancelledNeverStarts

\* journal.go:475: an attempt that may have started is never admitted again.
THEOREM JournalAdmitsOnce == JournalSpec => NeverReadmitted
<1>1. JournalInv /\ [JournalNext]_jvars =>
        [\A a \in Attempts :
           Present(disk[a]) /\ ~disk[a].knownUnstarted =>
             ~ /\ disk'[a].knownUnstarted
               /\ ~disk'[a].cancelRequested
               /\ disk'[a].result = "none"]_jvars
  BY NextIsLawful DEF Lawful, NotReadmitted
<1> QED BY <1>1, JournalInvariant, PTL DEF JournalSpec, NeverReadmitted
=============================================================================
