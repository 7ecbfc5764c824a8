----------------------- MODULE ExecutorPromises_proofs -----------------------
(***************************************************************************)
(* What the coordinator may rely on, for every set of jobs, attempts and    *)
(* runtimes: the GPU is reserved once, for the attempt whose record is      *)
(* unresolved; what is on disk is never rewritten once accepted; and what   *)
(* was said to be stopped is stopped and stays so.  The last holds of the   *)
(* undisputed attempts however many cancellations overlap, and of all in a  *)
(* behaviour in which no confirmation is stale (StaleConfirm).              *)
(***************************************************************************)
EXTENDS Executor_proofs

-----------------------------------------------------------------------------
(* What one call of the journal leaves behind, attempt by attempt.           *)

\* The records of b became r, on disk and in memory, or on disk alone, or not
\* at all; no other record moved.
Wrote(b, r, ok) ==
  /\ \A a \in Attempts : a # b => rec'[a] = rec[a] /\ disk'[a] = disk[a]
  /\ rec'[b] \in {rec[b], r} /\ disk'[b] \in {disk[b], r}
  /\ ok => rec'[b] = r /\ disk'[b] = r /\ ~fault'
  /\ rec'[b] # rec[b] \/ disk'[b] # disk[b] => ~fault /\ disk[b] = rec[b] /\ Valid(r)
  /\ ~ok => rec'[b] = rec[b]
  /\ fault' /\ ~fault => StoreMayFail \/ ~Valid(r)
  /\ recovered' = recovered

LEMMA StoreWrites ==
  ASSUME JournalInv, NEW b \in Attempts, NEW r, NEW ok \in BOOLEAN, Store(b, r, ok)
  PROVE  Wrote(b, r, ok)
<1> /\ rec \in [Attempts -> Record] /\ disk \in [Attempts -> Record]
    /\ ~fault => disk[b] = rec[b]
  BY DEF JournalInv, JournalTypeOK, InSync
<1>1. CASE ~fault /\ ok /\ Written(b, r)
  BY <1>1 DEF Written, Wrote
<1>2. CASE ~fault /\ ~ok /\ Fenced(b, r)
  BY <1>2 DEF Fenced, Wrote
<1>3. CASE fault /\ ~ok /\ UNCHANGED jvars
  BY <1>3 DEF jvars, Wrote
<1> QED BY <1>1, <1>2, <1>3 DEF Store

LEMMA SilentWrites ==
  ASSUME JournalInv, NEW b \in Attempts, UNCHANGED jvars
  PROVE  /\ Wrote(b, rec[b], FALSE)
         /\ ~fault => Wrote(b, rec[b], TRUE)
  BY DEF JournalInv, InSync, Wrote, jvars

\* The fields a call leaves alone.
SameAdmission(r, q) ==
  /\ r.runtime = q.runtime /\ r.legacy = q.legacy
SameProgress(r, q) ==
  /\ r.phase = q.phase /\ r.knownUnstarted = q.knownUnstarted /\ r.daemon = q.daemon
SameVerdict(r, q) ==
  /\ r.result = q.result /\ r.accepted = q.accepted
  /\ r.replayBlocked = q.replayBlocked /\ r.stopVerified = q.stopVerified

LEMMA AdmitWrites ==
  ASSUME JournalInv, NEW b \in Attempts, NEW ok \in BOOLEAN, Admit(b, ok)
  PROVE  \/ ~ok /\ UNCHANGED jvars
         \/ \E r \in Record :
              /\ Wrote(b, r, ok) /\ Admissible(b)
              /\ r.runtime = RuntimeOf[b] /\ r.legacy = rec[b].legacy
              /\ r.phase = "unstarted" /\ r.knownUnstarted
              /\ r.cancelRequested = rec[b].cancelRequested
              /\ SameVerdict(r, rec[b])
<1>1. rec[b] \in Record
  BY RecordsTyped
<1>2. /\ Admitted(b) \in Record
      /\ Admitted(b).runtime = RuntimeOf[b] /\ Admitted(b).legacy = rec[b].legacy
      /\ Admitted(b).phase = "unstarted" /\ Admitted(b).knownUnstarted
      /\ Admitted(b).cancelRequested = rec[b].cancelRequested
      /\ SameVerdict(Admitted(b), rec[b])
  BY <1>1, JournalAssumption DEF Admitted, Record, SameVerdict
<1> QED BY <1>2, StoreWrites DEF Admit, Refused

LEMMA RunningWrites ==
  ASSUME JournalInv, NEW b \in Attempts, NEW ok \in BOOLEAN, Running(b, ok)
  PROVE  \/ ~ok /\ UNCHANGED jvars
         \/ \E r \in Record :
              /\ Wrote(b, r, ok)
              /\ rec[b].knownUnstarted /\ ~rec[b].cancelRequested
              /\ SameAdmission(r, rec[b])
              /\ r.phase = "running" /\ ~r.knownUnstarted
              /\ r.daemon = rec[b].daemon
              /\ r.cancelRequested = rec[b].cancelRequested
              /\ SameVerdict(r, rec[b])
<1> DEFINE r == [rec[b] EXCEPT !.phase = "running", !.knownUnstarted = FALSE]
<1>1. rec[b] \in Record
  BY RecordsTyped
<1>2. /\ r \in Record /\ SameAdmission(r, rec[b]) /\ SameVerdict(r, rec[b])
      /\ r.phase = "running" /\ ~r.knownUnstarted /\ r.daemon = rec[b].daemon
      /\ r.cancelRequested = rec[b].cancelRequested
  BY <1>1 DEF Record, SameVerdict, SameAdmission
<1>3. \/ ~ok /\ UNCHANGED jvars
      \/ rec[b].knownUnstarted /\ ~rec[b].cancelRequested /\ Store(b, r, ok)
  BY DEF Running, Refused
<1> HIDE DEF r
<1> QED BY <1>2, <1>3, StoreWrites

LEMMA AssignWrites ==
  ASSUME JournalInv, NEW b \in Attempts, NEW ok \in BOOLEAN, AssignDockerDaemon(b, ok)
  PROVE  \/ ~ok /\ UNCHANGED jvars
         \/ \E r \in Record :
              /\ Wrote(b, r, ok)
              /\ rec[b].phase = "running" /\ ~rec[b].cancelRequested
              /\ SameAdmission(r, rec[b])
              /\ r.phase = rec[b].phase /\ r.knownUnstarted = rec[b].knownUnstarted
              /\ r.daemon
              /\ r.cancelRequested = rec[b].cancelRequested
              /\ SameVerdict(r, rec[b])
<1> DEFINE r == [rec[b] EXCEPT !.daemon = TRUE]
<1>1. rec[b] \in Record
  BY RecordsTyped
<1>2. /\ r \in Record /\ SameAdmission(r, rec[b]) /\ SameVerdict(r, rec[b])
      /\ r.phase = rec[b].phase /\ r.knownUnstarted = rec[b].knownUnstarted
      /\ r.daemon /\ r.cancelRequested = rec[b].cancelRequested
  BY <1>1 DEF Record, SameVerdict, SameAdmission
<1>3. \/ ~ok /\ UNCHANGED jvars
      \/ rec[b].phase = "running" /\ ~rec[b].cancelRequested /\ Store(b, r, ok)
  BY DEF AssignDockerDaemon, Refused
<1> HIDE DEF r
<1> QED BY <1>2, <1>3, StoreWrites

\* A cancellation of r: an unknown attempt, one that can no longer start, or
\* one that goes on.
Cancels(r, q) ==
  /\ r.cancelRequested
  /\ SameAdmission(r, q) /\ SameVerdict(r, q) /\ r.daemon = q.daemon
  /\ \/ ~Present(q) /\ r.phase = "unknown" /\ r.knownUnstarted = q.knownUnstarted
     \/ /\ Docker(q.runtime) /\ ~q.daemon /\ q.phase = "running"
        /\ r.phase = "unstarted" /\ r.knownUnstarted
     \/ /\ Present(q) /\ ~(Docker(q.runtime) /\ ~q.daemon /\ q.phase = "running")
        /\ r.phase = q.phase /\ r.knownUnstarted = q.knownUnstarted

LEMMA CancelledFields ==
  ASSUME NEW b \in Attempts, rec[b] \in Record
  PROVE  Cancelled(b) \in Record /\ Cancels(Cancelled(b), rec[b])
<1> DEFINE q == rec[b]
           never == Docker(q.runtime) /\ ~q.daemon /\ q.phase = "running"
           phase == IF ~Present(q) THEN "unknown"
                    ELSE IF never THEN "unstarted" ELSE q.phase
           known == q.knownUnstarted \/ never
           r == [q EXCEPT !.cancelRequested = TRUE, !.phase = phase,
                          !.knownUnstarted = known]
<1>1. Cancelled(b) = r
  BY DEF Cancelled
<1>2. /\ phase \in {"absent", "unknown", "unstarted", "running", "finished"}
      /\ known \in BOOLEAN
  BY DEF Record
<1>3. /\ r \in Record /\ r.cancelRequested
      /\ SameAdmission(r, q) /\ SameVerdict(r, q) /\ r.daemon = q.daemon
      /\ r.phase = phase /\ r.knownUnstarted = known
  <2> HIDE DEF phase, known
  <2> QED BY <1>2 DEF Record, SameAdmission, SameVerdict
<1>4. ~Present(q) => known = q.knownUnstarted
  BY DEF Present, Record
<1>5. never => known /\ phase = "unstarted"
  BY DEF Present
<1>6. Present(q) /\ ~never => phase = q.phase /\ known = q.knownUnstarted
  BY DEF Record
<1>7. ~Present(q) => phase = "unknown"
  OBVIOUS
<1>8. /\ r.cancelRequested /\ SameAdmission(r, q) /\ SameVerdict(r, q)
      /\ r.daemon = q.daemon
      /\ \/ ~Present(q) /\ r.phase = "unknown" /\ r.knownUnstarted = q.knownUnstarted
         \/ never /\ r.phase = "unstarted" /\ r.knownUnstarted
         \/ Present(q) /\ ~never /\ r.phase = q.phase
            /\ r.knownUnstarted = q.knownUnstarted
  <2> HIDE DEF r, q, phase, known, never
  <2> QED BY <1>3, <1>4, <1>5, <1>6, <1>7
<1> HIDE DEF r, phase, known
<1> QED BY <1>1, <1>3, <1>8, Zenon DEF Cancels

LEMMA CancellationWrites ==
  ASSUME JournalInv, NEW b \in Attempts, NEW ok \in BOOLEAN,
         RememberCancellation(b, ok)
  PROVE  /\ Cancelled(b) \in Record /\ Cancels(Cancelled(b), rec[b])
         /\ \/ ~ok /\ UNCHANGED jvars
            \/ Wrote(b, Cancelled(b), ok)
  BY CancelledFields, RecordsTyped, StoreWrites DEF RememberCancellation, Refused

\* A completion with a result, or keeping the old one.
Completes(r, q, result, stopped) ==
  /\ SameAdmission(r, q)
  /\ r.phase = "finished" /\ r.stopVerified = stopped
  /\ r.knownUnstarted = q.knownUnstarted /\ r.daemon = q.daemon
  /\ r.cancelRequested = q.cancelRequested /\ r.accepted = q.accepted
  /\ r.result = IF result = "none" THEN q.result ELSE result
  /\ r.replayBlocked = /\ ~stopped /\ ~q.knownUnstarted
                       /\ ~(q.runtime = "workspace" /\ r.result = "success")

LEMMA CompletedFields ==
  ASSUME NEW b \in Attempts, rec[b] \in Record,
         NEW result \in Results \cup {"none"}, NEW stopped \in BOOLEAN
  PROVE  /\ Completed(b, result, stopped) \in Record
         /\ Completes(Completed(b, result, stopped), rec[b], result, stopped)
<1> DEFINE q == rec[b]
           kept == IF result = "none" THEN q.result ELSE result
           healthy == q.runtime = "workspace" /\ kept = "success"
           blocked == ~stopped /\ ~healthy /\ ~q.knownUnstarted
           r == [q EXCEPT !.phase = "finished", !.stopVerified = stopped,
                          !.result = kept, !.replayBlocked = blocked]
<1>1. Completed(b, result, stopped) = r
  BY DEF Completed
<1>2. kept \in Results \cup {"none"} /\ blocked \in BOOLEAN
  BY DEF Record
<1>3. /\ r \in Record /\ r.phase = "finished" /\ r.stopVerified = stopped
      /\ r.result = kept /\ r.replayBlocked = blocked
      /\ SameAdmission(r, q) /\ r.knownUnstarted = q.knownUnstarted
      /\ r.daemon = q.daemon /\ r.cancelRequested = q.cancelRequested
      /\ r.accepted = q.accepted
  <2> HIDE DEF kept, blocked
  <2> QED BY <1>2 DEF Record, SameAdmission
<1>4. r.replayBlocked = /\ ~stopped /\ ~q.knownUnstarted
                        /\ ~(q.runtime = "workspace" /\ r.result = "success")
  <2>1. blocked = (/\ ~stopped /\ ~q.knownUnstarted
                   /\ ~(q.runtime = "workspace" /\ kept = "success"))
    OBVIOUS
  <2> HIDE DEF r, blocked, kept, healthy
  <2> QED BY <1>3, <2>1
<1> QED BY <1>1, <1>2, <1>3, <1>4 DEF Completes

LEMMA CompleteWrites ==
  ASSUME JournalInv, NEW b \in Attempts, NEW ok \in BOOLEAN,
         NEW result \in Results \cup {"none"}, NEW stopped \in BOOLEAN,
         Complete(b, result, stopped, ok)
  PROVE  \/ ~ok /\ UNCHANGED jvars
         \/ \E r \in Record : /\ Wrote(b, r, ok) /\ Present(rec[b])
                              /\ Completes(r, rec[b], result, stopped)
  BY CompletedFields, RecordsTyped, StoreWrites DEF Complete, Refused

\* A result for an attempt that has none.
LEMMA ResultWrites ==
  ASSUME JournalInv, NEW b \in Attempts, NEW ok \in BOOLEAN,
         NEW result \in Results, RememberResult(b, result, ok)
  PROVE  \/ UNCHANGED jvars
         \/ \E r \in Record :
              /\ Wrote(b, r, ok) /\ rec[b].result = "none"
              /\ SameAdmission(r, rec[b]) /\ r.daemon = rec[b].daemon
              /\ r.cancelRequested = rec[b].cancelRequested
              /\ r.result = result /\ r.accepted = rec[b].accepted
              /\ r.stopVerified = rec[b].stopVerified
              /\ \/ /\ ~Present(rec[b])
                    /\ r.phase = "unstarted" /\ r.knownUnstarted
                    /\ r.replayBlocked = rec[b].replayBlocked
                 \/ /\ Present(rec[b])
                    /\ r.phase = rec[b].phase
                    /\ r.knownUnstarted = rec[b].knownUnstarted
                    /\ r.replayBlocked =
                         (rec[b].replayBlocked
                          \/ (r.phase = "unknown" /\ ~r.stopVerified))
<1> DEFINE q == rec[b]
           r == ResultRemembered(b, result)
           blocked == q.replayBlocked \/ (q.phase = "unknown" /\ ~q.stopVerified)
<1>1. q \in Record /\ blocked \in BOOLEAN
  BY RecordsTyped DEF Record
<1>2. CASE ~Present(q)
  <2>1. r = [q EXCEPT !.result = result, !.phase = "unstarted",
                      !.knownUnstarted = TRUE]
    BY <1>2 DEF ResultRemembered
  <2>2. /\ r \in Record /\ SameAdmission(r, q) /\ r.daemon = q.daemon
        /\ r.cancelRequested = q.cancelRequested
        /\ r.result = result /\ r.accepted = q.accepted
        /\ r.stopVerified = q.stopVerified
        /\ r.phase = "unstarted" /\ r.knownUnstarted
        /\ r.replayBlocked = q.replayBlocked
    BY <1>1, <2>1 DEF Record, SameAdmission
  <2> HIDE DEF r
  <2>3. \/ UNCHANGED jvars
        \/ q.result = "none" /\ Store(b, r, ok)
    BY DEF RememberResult, Refused, r
  <2> QED BY <1>2, <2>2, <2>3, StoreWrites
<1>3. CASE Present(q)
  <2>1. r = [q EXCEPT !.result = result, !.replayBlocked = blocked]
    BY <1>3 DEF ResultRemembered
  <2>2. /\ r \in Record /\ SameAdmission(r, q) /\ r.daemon = q.daemon
        /\ r.cancelRequested = q.cancelRequested
        /\ r.result = result /\ r.accepted = q.accepted
        /\ r.stopVerified = q.stopVerified
        /\ r.phase = q.phase /\ r.knownUnstarted = q.knownUnstarted
        /\ r.replayBlocked = blocked
    <3> HIDE DEF blocked, r
    <3> QED BY <1>1, <2>1 DEF Record, SameAdmission
  <2>3. \/ UNCHANGED jvars
        \/ q.result = "none" /\ Store(b, r, ok)
    BY DEF RememberResult, Refused
  <2>4. blocked = (q.replayBlocked \/ (r.phase = "unknown" /\ ~r.stopVerified))
    <3>1. r.phase = q.phase /\ r.stopVerified = q.stopVerified
      BY <2>2
    <3> HIDE DEF r, q
    <3> QED BY <3>1, Zenon
  <2> HIDE DEF r, blocked
  <2> QED BY <1>3, <2>2, <2>3, <2>4, StoreWrites
<1> QED BY <1>2, <1>3

LEMMA AcceptWrites ==
  ASSUME JournalInv, NEW b \in Attempts, NEW ok \in BOOLEAN, Accept(b, ok)
  PROVE  \/ UNCHANGED jvars
         \/ \E r \in Record :
              /\ Wrote(b, r, ok) /\ Present(rec[b])
              /\ SameAdmission(r, rec[b]) /\ SameProgress(r, rec[b])
              /\ r.cancelRequested = rec[b].cancelRequested
              /\ r.accepted /\ r.result = rec[b].result
              /\ r.stopVerified = rec[b].stopVerified
              /\ r.replayBlocked = rec[b].replayBlocked
<1> DEFINE r == [rec[b] EXCEPT !.accepted = TRUE]
<1>1. rec[b] \in Record
  BY RecordsTyped
<1>2. /\ r \in Record /\ SameAdmission(r, rec[b]) /\ SameProgress(r, rec[b])
      /\ r.cancelRequested = rec[b].cancelRequested
      /\ r.accepted /\ r.result = rec[b].result
      /\ r.stopVerified = rec[b].stopVerified
      /\ r.replayBlocked = rec[b].replayBlocked
  BY <1>1 DEF Record, SameAdmission, SameProgress
<1>3. UNCHANGED jvars \/ (Present(rec[b]) /\ Store(b, r, ok))
  BY DEF Accept
<1> HIDE DEF r
<1> QED BY <1>2, <1>3, StoreWrites

LEMMA BlockReplayWrites ==
  ASSUME JournalInv, NEW b \in Attempts, NEW ok \in BOOLEAN, NEW blocked \in BOOLEAN,
         BlockReplay(b, blocked, ok)
  PROVE  \/ ~ok /\ UNCHANGED jvars
         \/ \E r \in Record :
              /\ Wrote(b, r, ok) /\ Present(rec[b])
              /\ SameAdmission(r, rec[b]) /\ SameProgress(r, rec[b])
              /\ r.cancelRequested = rec[b].cancelRequested
              /\ r.accepted = rec[b].accepted /\ r.result = rec[b].result
              /\ r.stopVerified = rec[b].stopVerified
              /\ r.replayBlocked = blocked
<1> DEFINE r == [rec[b] EXCEPT !.replayBlocked = blocked]
<1>1. rec[b] \in Record
  BY RecordsTyped
<1>2. /\ r \in Record /\ SameAdmission(r, rec[b]) /\ SameProgress(r, rec[b])
      /\ r.cancelRequested = rec[b].cancelRequested
      /\ r.accepted = rec[b].accepted /\ r.result = rec[b].result
      /\ r.stopVerified = rec[b].stopVerified
      /\ r.replayBlocked = blocked
  BY <1>1 DEF Record, SameAdmission, SameProgress
<1>3. \/ ~ok /\ UNCHANGED jvars
      \/ /\ Present(rec[b]) /\ rec[b].replayBlocked = blocked
         /\ ok = ~fault /\ UNCHANGED jvars
      \/ Present(rec[b]) /\ Store(b, r, ok)
  BY DEF BlockReplay, Refused
<1>4. CASE /\ Present(rec[b]) /\ rec[b].replayBlocked = blocked
           /\ ok = ~fault /\ UNCHANGED jvars
  BY <1>1, <1>4, SilentWrites DEF SameAdmission, SameProgress
<1> HIDE DEF r
<1> QED BY <1>2, <1>3, <1>4, StoreWrites

LEMMA RecoverWrites ==
  ASSUME JournalInv, NEW b \in Attempts, NEW ok \in BOOLEAN, RecoverUnstarted(b, ok)
  PROVE  \/ ~ok /\ UNCHANGED jvars
         \/ \E r \in Record :
              /\ Wrote(b, r, ok) /\ NeverEntered(rec[b])
              /\ SameAdmission(r, rec[b])
              /\ r.phase = "finished" /\ r.knownUnstarted /\ r.daemon = rec[b].daemon
              /\ r.cancelRequested = rec[b].cancelRequested
              /\ r.accepted = rec[b].accepted
              /\ r.result = IF rec[b].result = "none" THEN "failure" ELSE rec[b].result
              /\ r.stopVerified /\ ~r.replayBlocked
<1> DEFINE q == rec[b]
           kept == IF q.result = "none" THEN "failure" ELSE q.result
           r == [q EXCEPT !.knownUnstarted = TRUE, !.stopVerified = TRUE,
                          !.replayBlocked = FALSE, !.phase = "finished",
                          !.result = kept]
<1>1. q \in Record
  BY RecordsTyped
<1>2. kept \in Results \cup {"none"}
  BY <1>1 DEF Record, Results
<1>3. /\ r \in Record /\ SameAdmission(r, q)
      /\ r.phase = "finished" /\ r.knownUnstarted /\ r.daemon = q.daemon
      /\ r.cancelRequested = q.cancelRequested /\ r.accepted = q.accepted
      /\ r.result = kept /\ r.stopVerified /\ ~r.replayBlocked
  <2> HIDE DEF kept
  <2> QED BY <1>1, <1>2 DEF Record, SameAdmission
<1>4. \/ ~ok /\ UNCHANGED jvars
      \/ NeverEntered(q) /\ Store(b, r, ok)
  BY DEF RecoverUnstarted, Refused
<1>5. r.result = IF q.result = "none" THEN "failure" ELSE q.result
  BY <1>3
<1> HIDE DEF r, kept
<1> QED BY <1>3, <1>4, <1>5, StoreWrites

-----------------------------------------------------------------------------
(* The reservation of the GPU.                                               *)

\* The goroutine of the execution has not returned.
Active(a) == runner[a] \notin {"idle", "done"}

\* What every record satisfies that the executor alone has written.
WellKept(a, r) ==
  /\ ~r.legacy
  /\ r.runtime \in {"none", RuntimeOf[a]}
  /\ r.runtime = "none" => r.phase \in {"absent", "unknown"} \/ r.knownUnstarted
  /\ r.accepted => r.result # "none"
  /\ r.stopVerified => r.cancelRequested \/ r.result # "none"

\* The record of an execution follows its goroutine: it has no result yet, and
\* what it says of the progress is what the goroutine has reached, unless a
\* cancellation came before the attempt was bound to a daemon.
Follows(a, r) ==
  /\ runner[a] # "idle" => r.runtime = RuntimeOf[a]
  /\ Active(a) =>
       /\ r.phase \in {"unstarted", "running"}
       /\ ~r.stopVerified /\ r.result = "none"
  /\ runner[a] = "admitted" => r.phase = "unstarted" /\ r.knownUnstarted
  /\ runner[a] = "preparing" =>
       \/ r.phase = "running"
       \/ /\ IsDocker(a) /\ r.cancelRequested
          /\ r.knownUnstarted /\ r.phase = "unstarted"
  /\ runner[a] \in {"run", "running", "returned"} =>
       r.phase = "running" /\ (IsDocker(a) => r.daemon)
  /\ st[a].stopConfirmed => r.stopVerified

\* An attempt whose record is unresolved has the GPU, or is still to be looked
\* at by restoreJournal.
Reserved(a, r) ==
  Unresolved(r) =>
    /\ mode = "up" => st[a].held
    /\ mode = "restoring" => a \in todo \/ st[a].held

\* Only a tracked execution holds the GPU, and it holds it until a stop is
\* confirmed; what a starting process tracks is what it found unresolved.
Tracking(a) ==
  /\ Active(a) => mode = "up" /\ st[a].held
  /\ st[a].held => Tracked(a) /\ ~st[a].stopConfirmed
  /\ Tracked(a) => mode # "down" /\ runner[a] # "idle"
  /\ mode = "restoring" /\ Tracked(a) => a \notin todo /\ Unresolved(disk[a])
  /\ runner[a] = "idle" => st[a] = NoFlags
  /\ runner[a] \in {"returned", "finishing"} => outcome[a] # "none"

AttemptInv(a) ==
  /\ WellKept(a, rec[a]) /\ WellKept(a, disk[a])
  /\ Follows(a, rec[a]) /\ Follows(a, disk[a])
  /\ Reserved(a, rec[a]) /\ Reserved(a, disk[a])
  /\ Tracking(a)

\* A cancellation leaves its mark in the record before anything is removed, and
\* takes a second look only after the goroutine has returned.
Joining(c) ==
  LET a == canc[c].target IN
  /\ canc[c].pc # "idle" => mode = "up"
  /\ canc[c].pc \in {"remove", "wait", "recheck", "commit"} =>
       rec[a].cancelRequested /\ disk[a].cancelRequested
  /\ canc[c].pc \in {"recheck", "commit"} => DoneRunning(a)

Phases ==
  /\ mode = "restoring" => ~fault /\ todo \subseteq Recorded(disk)
  /\ \A j \in Jobs : exec[j] # NoAttempt => JobOf[exec[j]] = j

ReservationInv ==
  /\ \A a \in Attempts : AttemptInv(a)
  /\ \A c \in Cancellers : Joining(c)
  /\ Phases
  /\ OneReservation
  /\ OneUnresolved

\* A step that leaves alone everything AttemptInv says of a.
SameFor(a) ==
  /\ runner'[a] = runner[a] /\ st'[a] = st[a] /\ outcome'[a] = outcome[a]
  /\ mode' = mode /\ (a \in todo' <=> a \in todo)
  /\ Tracked(a)' <=> Tracked(a)
  /\ rec'[a] = rec[a] /\ disk'[a] = disk[a]

LEMMA SameKeepsAttempt ==
  ASSUME NEW a \in Attempts, AttemptInv(a), SameFor(a)
  PROVE  AttemptInv(a)'
<1>1. WellKept(a, rec[a])' /\ WellKept(a, disk[a])'
  BY DEF AttemptInv, SameFor, WellKept
<1>2. Follows(a, rec[a])' /\ Follows(a, disk[a])'
  BY DEF AttemptInv, SameFor, Follows, Active
<1>3. Reserved(a, rec[a])' /\ Reserved(a, disk[a])'
  BY DEF AttemptInv, SameFor, Reserved
<1>4. Tracking(a)'
  BY DEF AttemptInv, SameFor, Tracking, Active
<1> QED BY <1>1, <1>2, <1>3, <1>4 DEF AttemptInv

\* Nothing of an attempt is left in a process that is gone.
LEMMA EndedAttempt ==
  ASSUME ExecutorInv, ProcessEnds, NEW a \in Attempts,
         WellKept(a, rec[a])', WellKept(a, disk[a])'
  PROVE  AttemptInv(a)'
<1>1. /\ runner'[a] = "idle" /\ st'[a] = NoFlags /\ mode' = "down"
      /\ ~Tracked(a)'
  BY ExecutorAssumption
     DEF ProcessEnds, AllIdle, NoFlag, NoExecution, Tracked
<1>2. ~NoFlags.held /\ ~NoFlags.stopConfirmed
  BY DEF NoFlags
<1>3. Follows(a, rec[a])' /\ Follows(a, disk[a])' /\ Tracking(a)'
  BY <1>1, <1>2 DEF Follows, Tracking, Active
<1>4. Reserved(a, rec[a])' /\ Reserved(a, disk[a])'
  BY <1>1 DEF Reserved
<1> QED BY <1>3, <1>4 DEF AttemptInv

\* A step of attempt b alone, while the process stays in its mode.
LEMMA StepOfOne ==
  ASSUME ExecutorInv, ReservationInv, NEW b \in Attempts,
         \A a \in Attempts : a # b => SameFor(a),
         AttemptInv(b)', mode' = mode, OneReservation',
         mode = "up" \/ (Unresolved(disk[b])' => Unresolved(disk[b]))
  PROVE  (\A a \in Attempts : AttemptInv(a)') /\ OneUnresolved'
<1>1. ASSUME NEW a \in Attempts PROVE AttemptInv(a)'
  <2>1. CASE a = b
    BY <2>1
  <2>2. CASE a # b
    BY <2>2, SameKeepsAttempt DEF ReservationInv
  <2> QED BY <2>1, <2>2
<1>2. OneUnresolved'
  <2> SUFFICES ASSUME NEW x \in Attempts, NEW y \in Attempts,
                      Unresolved(disk[x])', Unresolved(disk[y])'
               PROVE  x = y
    BY DEF OneUnresolved
  <2>1. CASE mode = "up"
    <3>1. Reserved(x, disk[x])' /\ Reserved(y, disk[y])'
      BY <1>1 DEF AttemptInv
    <3>2. st[x].held' /\ st[y].held'
      BY <2>1, <3>1 DEF Reserved
    <3> QED BY <3>2 DEF OneReservation
  <2>2. CASE mode # "up"
    <3>1. \A a \in Attempts : a # b => disk'[a] = disk[a]
      BY DEF SameFor
    <3>2. Unresolved(disk[x]) /\ Unresolved(disk[y])
      BY <2>2, <3>1
    <3> QED BY <3>2 DEF ReservationInv, OneUnresolved
  <2> QED BY <2>1, <2>2
<1> QED BY <1>1, <1>2

LEMMA FewerReservations ==
  ASSUME OneReservation, \A a \in Attempts : st'[a].held => st[a].held
  PROVE  OneReservation'
  BY DEF OneReservation

\* Cancellations the step does not move.
LEMMA JoiningKept ==
  ASSUME CancelsHaveTargets, NEW c \in Cancellers, Joining(c),
         canc'[c] = canc[c], mode' = mode,
         \A a \in Attempts :
           /\ rec[a].cancelRequested => rec'[a].cancelRequested
           /\ disk[a].cancelRequested => disk'[a].cancelRequested
           /\ runner[a] = "done" /\ rec[a].cancelRequested => runner'[a] = "done"
  PROVE  Joining(c)'
<1>1. canc[c].pc # "idle" => canc[c].target \in Attempts
  BY DEF CancelsHaveTargets
<1> QED BY <1>1 DEF Joining, DoneRunning

-----------------------------------------------------------------------------
(* The goroutine of an execution.                                            *)

\* What a step of b's goroutine moves, apart from the journal.
RunnerMoves(b) ==
  /\ UNCHANGED <<mode, todo, exec, canc>>
  /\ \A a \in Attempts : a # b => /\ runner'[a] = runner[a] /\ st'[a] = st[a]
                                  /\ outcome'[a] = outcome[a]
  /\ \A a \in Attempts : st'[a].held => st[a].held

LEMMA RunnerReserves ==
  ASSUME ExecutorInv, ReservationInv, NEW b \in Attempts, RunnerMoves(b),
         Active(b),
         \A a \in Attempts : a # b => rec'[a] = rec[a] /\ disk'[a] = disk[a],
         rec[b].cancelRequested => rec'[b].cancelRequested,
         disk[b].cancelRequested => disk'[b].cancelRequested,
         AttemptInv(b)'
  PROVE  ReservationInv'
<1>0. mode = "up"
  BY DEF ReservationInv, AttemptInv, Tracking
<1>1. \A a \in Attempts : a # b => SameFor(a)
  BY DEF RunnerMoves, SameFor, Tracked
<1>2. OneReservation'
  BY FewerReservations DEF RunnerMoves, ReservationInv
<1>3. (\A a \in Attempts : AttemptInv(a)') /\ OneUnresolved'
  BY <1>0, <1>1, <1>2, StepOfOne DEF RunnerMoves
<1>4. ASSUME NEW c \in Cancellers PROVE Joining(c)'
  <2>1. \A a \in Attempts : runner[a] = "done" => runner'[a] = "done"
    BY DEF RunnerMoves, Active
  <2> QED BY <2>1, JoiningKept DEF ExecutorInv, ReservationInv, RunnerMoves
<1>5. Phases'
  BY <1>0 DEF Phases, RunnerMoves, ReservationInv
<1> QED BY <1>2, <1>3, <1>4, <1>5 DEF ReservationInv

LEMMA RealRuntime ==
  ASSUME NEW b \in Attempts
  PROVE  RuntimeOf[b] \in Runtimes /\ RuntimeOf[b] # "none"
  BY JournalAssumption DEF Runtimes

LEMMA EntersReserves ==
  ASSUME ExecutorInv, ReservationInv, NEW b \in Attempts, RunnerEnters(b)
  PROVE  ReservationInv'
<1> USE DEF GoTo, FinishWith
<1>1. PICK ok \in BOOLEAN :
        /\ Running(b, ok)
        /\ ok => runner' = [runner EXCEPT ![b] = "preparing"] /\ UNCHANGED outcome
        /\ ~ok => /\ runner' = [runner EXCEPT ![b] = "finishing"]
                  /\ outcome' = [outcome EXCEPT ![b] = "failure"]
  BY DEF RunnerEnters
<1>2. /\ runner \in [Attempts -> Steps] /\ runner[b] = "admitted"
      /\ outcome \in [Attempts -> Results \cup {"none"}]
      /\ UNCHANGED <<mode, todo, exec, canc, st>> /\ JournalInv
  BY DEF RunnerEnters, ExecutorInv, TypeOK
<1>3. RunnerMoves(b) /\ Active(b)
  BY <1>1, <1>2 DEF RunnerMoves, Active
<1>4. AttemptInv(b)
  BY DEF ReservationInv
<1>5. CASE ~ok /\ UNCHANGED jvars
  <2>1. runner'[b] = "finishing" /\ outcome'[b] = "failure"
        /\ rec' = rec /\ disk' = disk
    BY <1>1, <1>2, <1>5 DEF jvars
  <2>2. AttemptInv(b)'
    BY <1>2, <1>4, <2>1 DEF AttemptInv, WellKept, Follows, Reserved, Tracking, Tracked, Active
  <2> QED BY <1>3, <2>1, <2>2, RunnerReserves
<1>6. ASSUME NEW r \in Record,
             /\ Wrote(b, r, ok)
             /\ rec[b].knownUnstarted /\ ~rec[b].cancelRequested
             /\ SameAdmission(r, rec[b])
             /\ r.phase = "running" /\ ~r.knownUnstarted
             /\ r.daemon = rec[b].daemon
             /\ r.cancelRequested = rec[b].cancelRequested
             /\ SameVerdict(r, rec[b])
      PROVE  ReservationInv'
  <2>1. /\ rec'[b] \in {rec[b], r} /\ disk'[b] \in {disk[b], r}
        /\ ok => rec'[b] = r /\ disk'[b] = r
        /\ \A a \in Attempts : a # b => rec'[a] = rec[a] /\ disk'[a] = disk[a]
        /\ disk'[b] # disk[b] => disk[b] = rec[b]
    BY <1>6 DEF Wrote
  <2>2. /\ r.runtime = rec[b].runtime /\ r.legacy = rec[b].legacy
        /\ r.result = rec[b].result /\ r.accepted = rec[b].accepted
        /\ r.stopVerified = rec[b].stopVerified
    BY <1>6 DEF SameAdmission, SameVerdict
  <2>3. WellKept(b, rec[b])' /\ WellKept(b, disk[b])'
    BY <1>2, <1>4, <1>6, <2>1, <2>2, RealRuntime
       DEF AttemptInv, WellKept, Follows, Active
  <2>4. Follows(b, rec[b])' /\ Follows(b, disk[b])'
    BY <1>1, <1>2, <1>4, <1>6, <2>1, <2>2 DEF AttemptInv, Follows, Active
  <2>5. st[b].held /\ mode = "up"
    BY <1>2, <1>4 DEF AttemptInv, Tracking, Active
  <2>6. Reserved(b, rec[b])' /\ Reserved(b, disk[b])'
    BY <1>2, <2>5 DEF Reserved
  <2>7. Tracking(b)'
    BY <1>1, <1>2, <1>4, <2>5 DEF AttemptInv, Tracking, Tracked, Active
  <2> QED BY <1>3, <1>6, <2>1, <2>2, <2>3, <2>4, <2>6, <2>7, RunnerReserves DEF AttemptInv
<1> QED BY <1>1, <1>2, <1>5, <1>6, RunningWrites

\* Steps of the goroutine that write nothing.
LEMMA QuietRunnerReserves ==
  ASSUME ExecutorInv, ReservationInv, NEW b \in Attempts, RunnerMoves(b),
         Active(b), UNCHANGED jvars, Active(b)',
         st'[b].held = st[b].held, st'[b].stopConfirmed = st[b].stopConfirmed,
         runner'[b] # "admitted", runner'[b] # "preparing",
         runner'[b] \in {"run", "running", "returned"} =>
           \A r \in {rec[b], disk[b]} :
             r.phase = "running" /\ (IsDocker(b) => r.daemon),
         runner'[b] \in {"returned", "finishing"} => outcome'[b] # "none"
  PROVE  ReservationInv'
<1>1. AttemptInv(b) /\ rec' = rec /\ disk' = disk
  BY DEF ReservationInv, jvars
<1>2. WellKept(b, rec[b])' /\ WellKept(b, disk[b])'
  BY <1>1 DEF AttemptInv, WellKept
<1>3. Follows(b, rec[b])' /\ Follows(b, disk[b])'
  BY <1>1 DEF AttemptInv, Follows, Active
<1>4. st[b].held /\ mode = "up" /\ mode' = mode /\ exec' = exec
  BY <1>1 DEF AttemptInv, Tracking, RunnerMoves
<1>5. Reserved(b, rec[b])' /\ Reserved(b, disk[b])' /\ Tracking(b)'
  BY <1>1, <1>4 DEF AttemptInv, Reserved, Tracking, Tracked, Active
<1> QED BY <1>1, <1>2, <1>3, <1>5, RunnerReserves DEF AttemptInv

\* The record of a goroutine inside the runtime.
LEMMA InsideRuntime ==
  ASSUME ReservationInv, NEW b \in Attempts,
         runner[b] \in {"run", "running", "returned"}
  PROVE  \A r \in {rec[b], disk[b]} : r.phase = "running" /\ (IsDocker(b) => r.daemon)
  BY DEF ReservationInv, AttemptInv, Follows

LEMMA PrepareFailsReserves ==
  ASSUME ExecutorInv, ReservationInv, NEW b \in Attempts, RunnerPrepareFails(b)
  PROVE  ReservationInv'
<1>1. /\ runner \in [Attempts -> Steps] /\ outcome \in [Attempts -> Results \cup {"none"}]
      /\ runner[b] = "preparing"
      /\ runner' = [runner EXCEPT ![b] = "finishing"]
      /\ outcome' = [outcome EXCEPT ![b] = "failure"]
      /\ UNCHANGED <<mode, todo, exec, canc, st, jvars>>
  BY DEF ExecutorInv, TypeOK, RunnerPrepareFails, FinishWith, GoTo
<1> QED BY <1>1, QuietRunnerReserves DEF RunnerMoves, Active

LEMMA AssignsReserves ==
  ASSUME ExecutorInv, ReservationInv, NEW b \in Attempts, RunnerAssigns(b)
  PROVE  ReservationInv'
<1>1. /\ runner \in [Attempts -> Steps] /\ outcome \in [Attempts -> Results \cup {"none"}]
      /\ runner[b] = "preparing" /\ JournalInv
      /\ UNCHANGED <<mode, todo, exec, canc, st>>
  BY DEF ExecutorInv, TypeOK, RunnerAssigns
<1>2. AttemptInv(b) /\ Active(b)
  BY <1>1 DEF ReservationInv, Active
<1>3. CASE /\ ~IsDocker(b) /\ runner' = [runner EXCEPT ![b] = "run"]
           /\ UNCHANGED <<jvars, outcome>>
  <2>1. \A r \in {rec[b], disk[b]} : r.phase = "running"
    BY <1>1, <1>2, <1>3 DEF AttemptInv, Follows
  <2> QED BY <1>1, <1>2, <1>3, <2>1, QuietRunnerReserves DEF RunnerMoves, Active
<1>4. ASSUME NEW ok \in BOOLEAN, IsDocker(b), AssignDockerDaemon(b, ok),
             ok => runner' = [runner EXCEPT ![b] = "run"] /\ UNCHANGED outcome,
             ~ok => /\ runner' = [runner EXCEPT ![b] = "finishing"]
                    /\ outcome' = [outcome EXCEPT ![b] = "failure"]
      PROVE  ReservationInv'
  <2>1. RunnerMoves(b)
    BY <1>1, <1>4 DEF RunnerMoves
  <2>2. CASE ~ok /\ UNCHANGED jvars
    BY <1>1, <1>2, <1>4, <2>1, <2>2, QuietRunnerReserves DEF Active
  <2>3. ASSUME NEW r \in Record,
               /\ Wrote(b, r, ok)
               /\ rec[b].phase = "running" /\ ~rec[b].cancelRequested
               /\ SameAdmission(r, rec[b])
               /\ r.phase = rec[b].phase /\ r.knownUnstarted = rec[b].knownUnstarted
               /\ r.daemon
               /\ r.cancelRequested = rec[b].cancelRequested
               /\ SameVerdict(r, rec[b])
        PROVE  ReservationInv'
    <3>1. /\ rec'[b] \in {rec[b], r} /\ disk'[b] \in {disk[b], r}
          /\ ok => rec'[b] = r /\ disk'[b] = r
          /\ \A a \in Attempts : a # b => rec'[a] = rec[a] /\ disk'[a] = disk[a]
          /\ disk'[b] # disk[b] => disk[b] = rec[b]
      BY <2>3 DEF Wrote
    <3>2. /\ r.runtime = rec[b].runtime /\ r.legacy = rec[b].legacy
          /\ r.result = rec[b].result /\ r.accepted = rec[b].accepted
          /\ r.stopVerified = rec[b].stopVerified
      BY <2>3 DEF SameAdmission, SameVerdict
    <3>3. WellKept(b, rec[b])' /\ WellKept(b, disk[b])'
      BY <1>2, <2>3, <3>1, <3>2 DEF AttemptInv, WellKept
    <3>4. Follows(b, rec[b])' /\ Follows(b, disk[b])'
      BY <1>1, <1>2, <1>4, <2>3, <3>1, <3>2 DEF AttemptInv, Follows, Active
    <3>5. st[b].held /\ mode = "up"
      BY <1>2 DEF AttemptInv, Tracking
    <3>6. Reserved(b, rec[b])' /\ Reserved(b, disk[b])' /\ Tracking(b)'
      BY <1>1, <1>2, <1>4, <3>5 DEF AttemptInv, Reserved, Tracking, Tracked, Active
    <3> QED BY <1>2, <2>1, <2>3, <3>1, <3>3, <3>4, <3>6, RunnerReserves DEF AttemptInv
  <2> QED BY <1>1, <1>4, <2>2, <2>3, AssignWrites
<1> QED BY <1>3, <1>4 DEF RunnerAssigns, GoTo, FinishWith

LEMMA BackendStartsReserves ==
  ASSUME ExecutorInv, ReservationInv, NEW b \in Attempts, BackendStarts(b)
  PROVE  ReservationInv'
<1>1. /\ runner \in [Attempts -> Steps] /\ runner[b] = "run"
      /\ runner' = [runner EXCEPT ![b] = "running"]
      /\ UNCHANGED <<jvars, mode, todo, exec, st, outcome, canc>>
  BY DEF ExecutorInv, TypeOK, BackendStarts, GoTo
<1>2. RunnerMoves(b) /\ Active(b) /\ Active(b)' /\ runner'[b] = "running"
  BY <1>1 DEF RunnerMoves, Active
<1> QED BY <1>1, <1>2, InsideRuntime, QuietRunnerReserves

LEMMA RunReturnsReserves ==
  ASSUME ExecutorInv, ReservationInv, NEW b \in Attempts, RunReturns(b)
  PROVE  ReservationInv'
<1>1. /\ runner \in [Attempts -> Steps] /\ runner[b] \in {"run", "running"}
      /\ outcome \in [Attempts -> Results \cup {"none"}]
      /\ runner' = [runner EXCEPT ![b] = "returned"]
      /\ \E result \in Results : outcome' = [outcome EXCEPT ![b] = result]
      /\ UNCHANGED <<jvars, mode, todo, exec, st, canc>>
  BY DEF ExecutorInv, TypeOK, RunReturns, GoTo
<1>2. RunnerMoves(b) /\ Active(b) /\ Active(b)' /\ runner'[b] = "returned"
  BY <1>1 DEF RunnerMoves, Active
<1>3. outcome'[b] # "none"
  BY <1>1 DEF Results
<1> QED BY <1>1, <1>2, <1>3, InsideRuntime, QuietRunnerReserves

LEMMA SettlesReserves ==
  ASSUME ExecutorInv, ReservationInv, NEW b \in Attempts, RunnerSettles(b)
  PROVE  ReservationInv'
<1>1. /\ runner \in [Attempts -> Steps] /\ runner[b] = "returned"
      /\ outcome \in [Attempts -> Results \cup {"none"}]
      /\ st \in [Attempts -> Flags]
      /\ runner' = [runner EXCEPT ![b] = "finishing"]
      /\ UNCHANGED <<jvars, mode, todo, exec, canc>>
  BY DEF ExecutorInv, TypeOK, RunnerSettles, GoTo
<1>2. outcome' = outcome \/ outcome' = [outcome EXCEPT ![b] = "failure"]
  BY DEF RunnerSettles
<1>3. st' = st \/ st' = [st EXCEPT ![b].stopUnverified = TRUE]
  BY DEF RunnerSettles
<1>4. \A a \in Attempts : st'[a].held = st[a].held
                          /\ st'[a].stopConfirmed = st[a].stopConfirmed
                          /\ (a # b => st'[a] = st[a])
  BY <1>1, <1>3 DEF Flags
<1>5. AttemptInv(b)
  BY DEF ReservationInv
<1>6. outcome'[b] # "none"
  BY <1>1, <1>2, <1>5 DEF AttemptInv, Tracking
<1>7. RunnerMoves(b) /\ Active(b) /\ Active(b)' /\ runner'[b] = "finishing"
  BY <1>1, <1>2, <1>4 DEF RunnerMoves, Active
<1> QED BY <1>1, <1>4, <1>6, <1>7, QuietRunnerReserves

\* The GPU is released with the record that says so.
LEMMA FinishesReserves ==
  ASSUME ExecutorInv, ReservationInv, NEW b \in Attempts, RunnerFinishes(b)
  PROVE  ReservationInv'
<1> DEFINE stopped == StoppedByRunner(b)
           result == outcome[b]
<1>1. PICK ok \in BOOLEAN :
        /\ Complete(b, result, stopped, ok)
        /\ st' = IF ~ok THEN [st EXCEPT ![b].stopUnverified = TRUE]
                 ELSE IF stopped
                   THEN [st EXCEPT ![b] = [@ EXCEPT !.stopConfirmed = TRUE,
                                                    !.held = FALSE]]
                   ELSE st
  BY DEF RunnerFinishes
<1>2. /\ runner \in [Attempts -> Steps] /\ runner[b] = "finishing"
      /\ result \in Results \cup {"none"} /\ st \in [Attempts -> Flags]
      /\ runner' = [runner EXCEPT ![b] = "done"]
      /\ UNCHANGED <<mode, todo, exec, canc, outcome>> /\ JournalInv
  BY DEF ExecutorInv, TypeOK, RunnerFinishes, GoTo
<1>3. stopped \in BOOLEAN
  BY DEF StoppedByRunner
<1>4. AttemptInv(b) /\ Active(b)
  BY <1>2 DEF ReservationInv, Active
<1> HIDE DEF stopped
<1>5. /\ \A a \in Attempts : a # b => st'[a] = st[a]
      /\ ok /\ stopped => ~st'[b].held /\ st'[b].stopConfirmed
      /\ ~(ok /\ stopped) => /\ st'[b].held = st[b].held
                             /\ st'[b].stopConfirmed = st[b].stopConfirmed
  BY <1>1, <1>2, <1>3 DEF Flags
<1>6. st[b].held /\ mode = "up" /\ result # "none" /\ ~st[b].stopConfirmed
  BY <1>2, <1>4 DEF AttemptInv, Tracking
<1> HIDE DEF result
<1>7. RunnerMoves(b)
  BY <1>2, <1>5, <1>6 DEF RunnerMoves
<1>8. CASE ~ok /\ UNCHANGED jvars
  <2>1. rec' = rec /\ disk' = disk
    BY <1>8 DEF jvars
  <2>2. AttemptInv(b)'
    BY <1>2, <1>4, <1>5, <1>6, <1>8, <2>1
       DEF AttemptInv, WellKept, Follows, Reserved, Tracking, Tracked, Active
  <2> QED BY <1>4, <1>7, <2>1, <2>2, RunnerReserves
<1>9. ASSUME NEW r \in Record,
             Wrote(b, r, ok), Completes(r, rec[b], result, stopped)
      PROVE  ReservationInv'
  <2>1. /\ rec'[b] \in {rec[b], r} /\ disk'[b] \in {disk[b], r}
        /\ ok => rec'[b] = r /\ disk'[b] = r
        /\ \A a \in Attempts : a # b => rec'[a] = rec[a] /\ disk'[a] = disk[a]
        /\ disk'[b] # disk[b] => disk[b] = rec[b]
    BY <1>9 DEF Wrote
  <2>2. /\ r.runtime = rec[b].runtime /\ r.legacy = rec[b].legacy
        /\ r.result # "none" /\ r.phase = "finished" /\ r.stopVerified = stopped
        /\ r.cancelRequested = rec[b].cancelRequested
        /\ r.knownUnstarted = rec[b].knownUnstarted
    BY <1>6, <1>9 DEF Completes, SameAdmission
  <2>3. WellKept(b, rec[b])' /\ WellKept(b, disk[b])'
    BY <1>4, <2>1, <2>2, RealRuntime DEF AttemptInv, WellKept, Follows
  <2>4. Follows(b, rec[b])' /\ Follows(b, disk[b])'
    BY <1>2, <1>4, <1>5, <1>6, <2>1, <2>2 DEF AttemptInv, Follows, Active
  <2>5. Reserved(b, rec[b])' /\ Reserved(b, disk[b])'
    BY <1>2, <1>5, <1>6, <2>1, <2>2 DEF Reserved, Unresolved, Settled
  <2>6. Tracking(b)'
    BY <1>2, <1>4, <1>5, <1>6 DEF AttemptInv, Tracking, Tracked, Active
  <2>7. /\ rec[b].cancelRequested => rec'[b].cancelRequested
        /\ disk[b].cancelRequested => disk'[b].cancelRequested
    BY <2>1, <2>2
  <2> QED BY <1>4, <1>7, <2>1, <2>3, <2>4, <2>5, <2>6, <2>7, RunnerReserves
          DEF AttemptInv
<1> QED BY <1>1, <1>2, <1>3, <1>8, <1>9, CompleteWrites

-----------------------------------------------------------------------------
(* Admission, and what the pool client records.                              *)

\* A step that writes b's record while no goroutine of b is under way, in a
\* running agent.
LEMMA RecordingReserves ==
  ASSUME ExecutorInv, ReservationInv, NEW b \in Attempts, mode = "up",
         UNCHANGED <<mode, todo, exec, st, runner, outcome, canc>>,
         AttemptInv(b)',
         \A a \in Attempts : a # b => rec'[a] = rec[a] /\ disk'[a] = disk[a],
         rec[b].cancelRequested => rec'[b].cancelRequested,
         disk[b].cancelRequested => disk'[b].cancelRequested
  PROVE  ReservationInv'
<1>1. \A a \in Attempts : a # b => SameFor(a)
  BY DEF SameFor, Tracked
<1>2. OneReservation'
  BY FewerReservations DEF ReservationInv
<1>3. (\A a \in Attempts : AttemptInv(a)') /\ OneUnresolved'
  BY <1>1, <1>2, StepOfOne
<1>4. \A c \in Cancellers : Joining(c)'
  BY JoiningKept DEF ExecutorInv, ReservationInv
<1>5. Phases'
  BY DEF Phases, ReservationInv
<1> QED BY <1>2, <1>3, <1>4, <1>5 DEF ReservationInv

\* A step that touches nothing ReservationInv speaks of.
LEMMA NothingMoves ==
  ASSUME ExecutorInv, ReservationInv, UNCHANGED jvars,
         UNCHANGED <<mode, todo, exec, st, runner, outcome>>,
         \A c \in Cancellers : Joining(c)'
  PROVE  ReservationInv'
<1>1. \A a \in Attempts : SameFor(a)
  BY DEF SameFor, Tracked, jvars
<1>2. \A a \in Attempts : AttemptInv(a)'
  BY <1>1, SameKeepsAttempt DEF ReservationInv
<1>3. Phases' /\ OneReservation' /\ OneUnresolved'
  BY DEF ReservationInv, Phases, OneReservation, OneUnresolved, jvars
<1> QED BY <1>2, <1>3 DEF ReservationInv

LEMMA NothingMovesAtAll ==
  ASSUME ExecutorInv, ReservationInv, UNCHANGED jvars,
         UNCHANGED <<mode, todo, exec, st, runner, outcome, canc>>
  PROVE  ReservationInv'
<1>1. \A c \in Cancellers : Joining(c)'
  BY DEF ReservationInv, Joining, DoneRunning, jvars
<1> QED BY <1>1, NothingMoves

\* An admitted record is one of an attempt that never ran.
LEMMA AdmittedRecord ==
  ASSUME ExecutorInv, ReservationInv, NEW b \in Attempts, NEW r \in Record,
         Admissible(b),
         r.runtime = RuntimeOf[b], r.legacy = rec[b].legacy,
         r.phase = "unstarted", r.knownUnstarted,
         r.cancelRequested = rec[b].cancelRequested,
         SameVerdict(r, rec[b])
  PROVE  /\ WellKept(b, r) /\ ~Unresolved(r)
         /\ ~r.stopVerified /\ r.result = "none" /\ ~rec[b].cancelRequested
         /\ ~rec[b].stopVerified
<1>1. WellKept(b, rec[b])
  BY DEF ReservationInv, AttemptInv
<1>2. /\ r.result = rec[b].result /\ r.accepted = rec[b].accepted
      /\ r.stopVerified = rec[b].stopVerified
  BY DEF SameVerdict
<1>3. ~rec[b].cancelRequested /\ rec[b].result = "none" /\ ~rec[b].stopVerified
  <2>1. CASE Present(rec[b])
    BY <1>1, <2>1 DEF Admissible, WellKept
  <2>2. CASE ~Present(rec[b])
    <3>1. rec[b] = NoRecord
      BY <2>2 DEF ExecutorInv, JournalInv, AbsentIsFresh
    <3> QED BY <3>1 DEF NoRecord
  <2> QED BY <2>1, <2>2
<1> QED BY <1>1, <1>2, <1>3 DEF WellKept, Unresolved, NeverEntered

LEMMA DeferReserves ==
  ASSUME ExecutorInv, ReservationInv, NEW b \in Attempts, Defer(b)
  PROVE  ReservationInv'
<1>1. /\ mode = "up" /\ ~Tracked(b) /\ JournalInv
      /\ UNCHANGED <<mode, todo, exec, st, runner, outcome, canc>>
  BY DEF Defer, process, ExecutorInv
<1>2. PICK ok \in BOOLEAN : Admit(b, ok)
  BY DEF Defer
<1>3. AttemptInv(b)
  BY DEF ReservationInv
<1>4. ASSUME NEW r \in Record,
             Wrote(b, r, ok), Admissible(b),
             r.runtime = RuntimeOf[b], r.legacy = rec[b].legacy,
             r.phase = "unstarted", r.knownUnstarted,
             r.cancelRequested = rec[b].cancelRequested,
             SameVerdict(r, rec[b])
      PROVE  ReservationInv'
  <2>1. /\ rec'[b] \in {rec[b], r} /\ disk'[b] \in {disk[b], r}
        /\ \A a \in Attempts : a # b => rec'[a] = rec[a] /\ disk'[a] = disk[a]
        /\ disk'[b] # disk[b] => disk[b] = rec[b]
    BY <1>4 DEF Wrote
  <2>2. WellKept(b, r) /\ ~Unresolved(r) /\ r.stopVerified = rec[b].stopVerified
    BY <1>4, AdmittedRecord DEF SameVerdict
  <2>3. ~Active(b)
    BY <1>1, <1>3 DEF AttemptInv, Tracking
  <2>4. WellKept(b, rec[b])' /\ WellKept(b, disk[b])'
    BY <1>3, <2>1, <2>2 DEF AttemptInv, WellKept
  <2>5. Follows(b, rec[b])' /\ Follows(b, disk[b])'
    BY <1>1, <1>3, <1>4, <2>1, <2>2, <2>3 DEF AttemptInv, Follows, Active
  <2>6. Reserved(b, rec[b])' /\ Reserved(b, disk[b])'
    BY <1>1, <1>3, <2>1, <2>2 DEF AttemptInv, Reserved
  <2>7. Tracking(b)'
    BY <1>1, <1>3 DEF AttemptInv, Tracking, Tracked, Active
  <2> QED BY <1>1, <1>4, <2>1, <2>4, <2>5, <2>6, <2>7, RecordingReserves DEF AttemptInv
<1> QED BY <1>1, <1>2, <1>4, AdmitWrites, NothingMovesAtAll

LEMMA StartReserves ==
  ASSUME ExecutorInv, ReservationInv, NEW b \in Attempts, Start(b)
  PROVE  ReservationInv'
<1>1. /\ mode = "up" /\ exec[JobOf[b]] = NoAttempt /\ JournalInv
      /\ exec \in [Jobs -> Attempts \cup {NoAttempt}]
      /\ st \in [Attempts -> Flags] /\ runner \in [Attempts -> Steps]
      /\ UNCHANGED <<mode, todo, outcome, canc>>
  BY DEF Start, ExecutorInv, TypeOK
<1>2. PICK ok \in BOOLEAN :
        /\ Admit(b, ok)
        /\ ok => /\ exec' = [exec EXCEPT ![JobOf[b]] = b]
                 /\ st' = [st EXCEPT ![b] = [NoFlags EXCEPT !.held = TRUE]]
                 /\ runner' = [runner EXCEPT ![b] = "admitted"]
        /\ ~ok => UNCHANGED <<exec, st, runner>>
  BY DEF Start
<1>3. AttemptInv(b) /\ ~Tracked(b) /\ ~Active(b) /\ b # NoAttempt /\ JobOf[b] \in Jobs
  BY <1>1, ExecutorAssumption DEF ReservationInv, AttemptInv, Tracking, Tracked
<1>4. \A a \in Attempts : ~st[a].held
  BY DEF Start, GpuFree, ReservationInv, AttemptInv, Tracking
<1>5. ASSUME NEW r \in Record,
             Wrote(b, r, ok), Admissible(b),
             r.runtime = RuntimeOf[b], r.legacy = rec[b].legacy,
             r.phase = "unstarted", r.knownUnstarted,
             r.cancelRequested = rec[b].cancelRequested,
             SameVerdict(r, rec[b])
      PROVE  ReservationInv'
  <2>1. /\ rec'[b] \in {rec[b], r} /\ disk'[b] \in {disk[b], r}
        /\ ok => rec'[b] = r /\ disk'[b] = r
        /\ \A a \in Attempts : a # b => rec'[a] = rec[a] /\ disk'[a] = disk[a]
        /\ disk'[b] # disk[b] => disk[b] = rec[b]
    BY <1>5 DEF Wrote
  <2>2. /\ WellKept(b, r) /\ ~Unresolved(r) /\ ~r.stopVerified /\ r.result = "none"
        /\ ~rec[b].cancelRequested /\ ~rec[b].stopVerified
    BY <1>5, AdmittedRecord
  <2>3. WellKept(b, rec[b])' /\ WellKept(b, disk[b])'
    BY <1>3, <2>1, <2>2 DEF AttemptInv, WellKept
  <2>4. Reserved(b, rec[b])' /\ Reserved(b, disk[b])'
    <3>1. ~Unresolved(rec[b]) /\ ~Unresolved(disk[b])
      BY <1>1, <1>3, <1>4 DEF AttemptInv, Reserved
    <3> QED BY <2>1, <2>2, <3>1 DEF Reserved
  <2>5. CASE ~ok
    <3>1. Follows(b, rec[b])' /\ Follows(b, disk[b])'
      BY <1>2, <1>3, <1>5, <2>1, <2>2, <2>5 DEF AttemptInv, Follows, Active
    <3>2. Tracking(b)'
      BY <1>1, <1>2, <1>3, <2>5 DEF AttemptInv, Tracking, Tracked, Active
    <3>3. /\ rec[b].cancelRequested => rec'[b].cancelRequested
          /\ disk[b].cancelRequested => disk'[b].cancelRequested
      BY <1>5, <2>1
    <3> QED BY <1>1, <1>2, <2>1, <2>3, <2>4, <2>5, <3>1, <3>2, <3>3, RecordingReserves
            DEF AttemptInv
  <2>6. CASE ok
    <3>1. /\ runner'[b] = "admitted" /\ st'[b].held /\ ~st'[b].stopConfirmed
          /\ exec'[JobOf[b]] = b
          /\ \A a \in Attempts : a # b => runner'[a] = runner[a] /\ st'[a] = st[a]
          /\ \A j \in Jobs : j # JobOf[b] => exec'[j] = exec[j]
      BY <1>1, <1>2, <1>3, <2>6 DEF NoFlags
    <3>2. Follows(b, rec[b])' /\ Follows(b, disk[b])'
      BY <1>5, <2>1, <2>2, <2>6, <3>1 DEF Follows, Active
    <3>3. Tracking(b)'
      BY <1>1, <3>1 DEF Tracking, Tracked, Active
    <3>4. \A a \in Attempts : a # b => SameFor(a)
      <4> SUFFICES ASSUME NEW a \in Attempts, a # b PROVE SameFor(a)
        OBVIOUS
      <4>1. Tracked(a)' <=> Tracked(a)
        BY <1>1, <3>1, ExecutorAssumption DEF Tracked
      <4> QED BY <1>1, <2>1, <3>1, <4>1 DEF SameFor
    <3>5. OneReservation'
      BY <1>4, <3>1 DEF OneReservation
    <3>6. (\A a \in Attempts : AttemptInv(a)') /\ OneUnresolved'
      BY <1>1, <2>3, <2>4, <3>2, <3>3, <3>4, <3>5, StepOfOne DEF AttemptInv
    <3>7. ASSUME NEW c \in Cancellers PROVE Joining(c)'
      <4>1. \A a \in Attempts :
              /\ rec[a].cancelRequested => rec'[a].cancelRequested
              /\ disk[a].cancelRequested => disk'[a].cancelRequested
              /\ runner[a] = "done" /\ rec[a].cancelRequested => runner'[a] = "done"
        BY <1>5, <2>1, <2>2, <3>1
      <4> QED BY <1>1, <4>1, JoiningKept DEF ExecutorInv, ReservationInv
    <3>8. Phases'
      BY <1>1, <1>2, <2>6, <3>1 DEF Phases, ReservationInv
    <3> QED BY <3>5, <3>6, <3>7, <3>8 DEF ReservationInv
  <2> QED BY <2>5, <2>6
<1>6. CASE ~ok /\ UNCHANGED jvars
  BY <1>1, <1>2, <1>6, NothingMovesAtAll
<1> QED BY <1>1, <1>2, <1>5, <1>6, AdmitWrites

\* A cancellation recorded for b; the flag of its execution may be set too.
LEMMA CancelledReserves ==
  ASSUME ExecutorInv, ReservationInv, NEW b \in Attempts, mode = "up",
         NEW ok \in BOOLEAN, Wrote(b, Cancelled(b), ok),
         UNCHANGED <<mode, todo, exec, runner, outcome>>,
         \A a \in Attempts : a # b => st'[a] = st[a],
         st'[b].held = st[b].held, st'[b].stopConfirmed = st[b].stopConfirmed,
         runner[b] = "idle" => st'[b] = st[b]
  PROVE  /\ \A a \in Attempts : AttemptInv(a)'
         /\ OneReservation' /\ OneUnresolved' /\ Phases'
         /\ \A a \in Attempts :
              /\ rec[a].cancelRequested => rec'[a].cancelRequested
              /\ disk[a].cancelRequested => disk'[a].cancelRequested
<1> DEFINE r == Cancelled(b)
<1>1. rec[b] \in Record
  BY RecordsTyped DEF ExecutorInv
<1>2. r \in Record /\ Cancels(r, rec[b])
  BY <1>1, CancelledFields
<1> HIDE DEF r
<1>3. /\ rec'[b] \in {rec[b], r} /\ disk'[b] \in {disk[b], r}
      /\ \A a \in Attempts : a # b => rec'[a] = rec[a] /\ disk'[a] = disk[a]
      /\ disk'[b] # disk[b] => disk[b] = rec[b]
  BY DEF Wrote, r
<1>4. /\ r.cancelRequested /\ r.daemon = rec[b].daemon
      /\ r.runtime = rec[b].runtime /\ r.legacy = rec[b].legacy
      /\ r.result = rec[b].result /\ r.accepted = rec[b].accepted
      /\ r.stopVerified = rec[b].stopVerified
  BY <1>2 DEF Cancels, SameAdmission, SameVerdict
<1>5. \/ ~Present(rec[b]) /\ r.phase = "unknown"
      \/ /\ Docker(r.runtime) /\ ~r.daemon /\ rec[b].phase = "running"
         /\ r.phase = "unstarted" /\ r.knownUnstarted
      \/ r.phase = rec[b].phase /\ r.knownUnstarted = rec[b].knownUnstarted
  BY <1>2, <1>4 DEF Cancels
<1>6. AttemptInv(b)
  BY DEF ReservationInv
<1>7. Unresolved(r) => Unresolved(rec[b])
  BY <1>4, <1>5 DEF Unresolved, Settled, NeverEntered, Present
<1>8. WellKept(b, rec[b])' /\ WellKept(b, disk[b])'
  BY <1>3, <1>4, <1>5, <1>6 DEF AttemptInv, WellKept
<1>9. Follows(b, rec[b])' /\ Follows(b, disk[b])'
  BY <1>3, <1>4, <1>5, <1>6 DEF AttemptInv, Follows, Active, IsDocker, Present
<1>10. Reserved(b, rec[b])' /\ Reserved(b, disk[b])'
  BY <1>3, <1>6, <1>7 DEF AttemptInv, Reserved
<1>11. Tracking(b)'
  BY <1>6 DEF AttemptInv, Tracking, Tracked, Active
<1>12. \A a \in Attempts : a # b => SameFor(a)
  BY <1>3 DEF SameFor, Tracked
<1>13. OneReservation'
  BY FewerReservations DEF ReservationInv
<1>14. (\A a \in Attempts : AttemptInv(a)') /\ OneUnresolved'
  BY <1>8, <1>9, <1>10, <1>11, <1>12, <1>13, StepOfOne DEF AttemptInv
<1>15. Phases'
  BY DEF Phases, ReservationInv
<1> QED BY <1>3, <1>4, <1>13, <1>14, <1>15

LEMMA RememberCancelReserves ==
  ASSUME ExecutorInv, ReservationInv, NEW b \in Attempts, RememberCancel(b)
  PROVE  ReservationInv'
<1>1. /\ mode = "up" /\ JournalInv
      /\ UNCHANGED <<mode, todo, exec, st, runner, outcome, canc>>
  BY DEF RememberCancel, process, ExecutorInv
<1>2. PICK ok \in BOOLEAN : RememberCancellation(b, ok)
  BY DEF RememberCancel
<1>3. CASE UNCHANGED jvars
  BY <1>1, <1>3, NothingMovesAtAll
<1>4. CASE Wrote(b, Cancelled(b), ok)
  <2>1. /\ \A a \in Attempts : AttemptInv(a)'
        /\ OneReservation' /\ OneUnresolved' /\ Phases'
        /\ \A a \in Attempts :
             /\ rec[a].cancelRequested => rec'[a].cancelRequested
             /\ disk[a].cancelRequested => disk'[a].cancelRequested
    BY <1>1, <1>4, CancelledReserves
  <2>2. \A c \in Cancellers : Joining(c)'
    BY <1>1, <2>1, JoiningKept DEF ExecutorInv, ReservationInv
  <2> QED BY <2>1, <2>2 DEF ReservationInv
<1> QED BY <1>1, <1>2, <1>3, <1>4, CancellationWrites

LEMMA RejectReserves ==
  ASSUME ExecutorInv, ReservationInv, NEW b \in Attempts, RejectAttempt(b)
  PROVE  ReservationInv'
<1>1. /\ mode = "up" /\ ~Active(b) /\ JournalInv
      /\ UNCHANGED <<mode, todo, exec, st, runner, outcome, canc>>
  BY DEF RejectAttempt, process, ExecutorInv, Active
<1>2. PICK ok \in BOOLEAN : RememberResult(b, "failure", ok)
  BY DEF RejectAttempt
<1>3. AttemptInv(b)
  BY DEF ReservationInv
<1>4. ASSUME NEW r \in Record,
             Wrote(b, r, ok), SameAdmission(r, rec[b]), r.daemon = rec[b].daemon,
             r.cancelRequested = rec[b].cancelRequested,
             r.result = "failure", r.accepted = rec[b].accepted,
             r.stopVerified = rec[b].stopVerified,
             \/ ~Present(rec[b]) /\ r.phase = "unstarted" /\ r.knownUnstarted
             \/ /\ Present(rec[b]) /\ r.phase = rec[b].phase
                /\ r.knownUnstarted = rec[b].knownUnstarted
      PROVE  ReservationInv'
  <2>1. /\ rec'[b] \in {rec[b], r} /\ disk'[b] \in {disk[b], r}
        /\ \A a \in Attempts : a # b => rec'[a] = rec[a] /\ disk'[a] = disk[a]
        /\ disk'[b] # disk[b] => disk[b] = rec[b]
    BY <1>4 DEF Wrote
  <2>2. r.runtime = rec[b].runtime /\ r.legacy = rec[b].legacy
    BY <1>4 DEF SameAdmission
  <2>3. Unresolved(r) => Unresolved(rec[b])
    BY <1>4, <2>2 DEF Unresolved, Settled, NeverEntered, Present
  <2>4. WellKept(b, rec[b])' /\ WellKept(b, disk[b])'
    BY <1>3, <1>4, <2>1, <2>2 DEF AttemptInv, WellKept
  <2>5. Follows(b, rec[b])' /\ Follows(b, disk[b])'
    BY <1>1, <1>3, <1>4, <2>1, <2>2 DEF AttemptInv, Follows, Active
  <2>6. Reserved(b, rec[b])' /\ Reserved(b, disk[b])'
    BY <1>1, <1>3, <2>1, <2>3 DEF AttemptInv, Reserved
  <2>7. Tracking(b)'
    BY <1>1, <1>3 DEF AttemptInv, Tracking, Tracked, Active
  <2> QED BY <1>1, <1>4, <2>1, <2>4, <2>5, <2>6, <2>7, RecordingReserves DEF AttemptInv
<1>5. "failure" \in Results
  BY DEF Results
<1> QED BY <1>1, <1>2, <1>4, <1>5, ResultWrites, NothingMovesAtAll

-----------------------------------------------------------------------------
(* Cancellation, acknowledgement, and the end of tracking.                   *)

\* At most b's record was rewritten, into one that needs no more than before.
RewrittenAtMost(b) ==
  /\ \A a \in Attempts : a # b => rec'[a] = rec[a] /\ disk'[a] = disk[a]
  /\ \A a \in Attempts :
       /\ rec[a].cancelRequested => rec'[a].cancelRequested
       /\ disk[a].cancelRequested => disk'[a].cancelRequested
  /\ WellKept(b, rec[b])' /\ WellKept(b, disk[b])'
  /\ Follows(b, rec[b])' /\ Follows(b, disk[b])'
  /\ Unresolved(rec[b])' => Unresolved(rec[b])
  /\ Unresolved(disk[b])' => Unresolved(disk[b])

LEMMA NothingRewritten ==
  ASSUME ReservationInv, NEW b \in Attempts, UNCHANGED jvars, runner' = runner, st' = st
  PROVE  RewrittenAtMost(b)
<1>1. AttemptInv(b) /\ rec' = rec /\ disk' = disk
  BY DEF ReservationInv, jvars
<1>2. WellKept(b, rec[b])' /\ WellKept(b, disk[b])'
  BY <1>1 DEF AttemptInv, WellKept
<1>3. Follows(b, rec[b])' /\ Follows(b, disk[b])'
  BY <1>1 DEF AttemptInv, Follows, Active
<1>4. /\ Unresolved(rec[b])' => Unresolved(rec[b])
      /\ Unresolved(disk[b])' => Unresolved(disk[b])
  BY <1>1 DEF Unresolved, Present, Settled, NeverEntered
<1> QED BY <1>1, <1>2, <1>3, <1>4 DEF RewrittenAtMost

\* ForgetExecution drops an execution that holds nothing.
LEMMA ForgettingReserves ==
  ASSUME ExecutorInv, ReservationInv, mode = "up", NEW j \in Jobs,
         UNCHANGED exec \/ ForgetExecution(j),
         UNCHANGED <<mode, todo, st, runner, outcome>>,
         NEW b \in Attempts,
         RewrittenAtMost(b)
  PROVE  (\A a \in Attempts : AttemptInv(a)') /\ OneReservation' /\ OneUnresolved'
         /\ Phases'
<1>1. exec \in [Jobs -> Attempts \cup {NoAttempt}]
  BY DEF ExecutorInv, TypeOK
<1>2. \/ exec' = exec
      \/ /\ exec' = [exec EXCEPT ![j] = NoAttempt]
         /\ exec[j] \in Attempts /\ ~st[exec[j]].held
  BY <1>1 DEF ForgetExecution, Forgettable
<1>0. \A a \in Attempts : a # b => rec'[a] = rec[a] /\ disk'[a] = disk[a]
  BY DEF RewrittenAtMost
<1>3. ASSUME NEW a \in Attempts PROVE Tracking(a)'
  <2>1. Tracking(a)
    BY DEF ReservationInv, AttemptInv
  <2>2. Tracked(a)' => Tracked(a)
    BY <1>1, <1>2, ExecutorAssumption DEF Tracked
  <2>3. st[a].held /\ Tracked(a) => Tracked(a)'
    BY <1>1, <1>2, ExecutorAssumption DEF Tracked
  <2> QED BY <2>1, <2>2, <2>3 DEF Tracking, Active
<1>4. ASSUME NEW a \in Attempts PROVE AttemptInv(a)'
  <2>1. AttemptInv(a)
    BY DEF ReservationInv
  <2>2. CASE a # b
    <3>1. /\ WellKept(a, rec[a])' /\ WellKept(a, disk[a])'
          /\ Follows(a, rec[a])' /\ Follows(a, disk[a])'
          /\ Reserved(a, rec[a])' /\ Reserved(a, disk[a])'
      BY <1>0, <2>1, <2>2 DEF AttemptInv, WellKept, Follows, Active, Reserved
    <3> QED BY <1>3, <3>1 DEF AttemptInv
  <2>3. CASE a = b
    <3>1. Reserved(b, rec[b])' /\ Reserved(b, disk[b])'
      BY <2>1, <2>3 DEF AttemptInv, Reserved, RewrittenAtMost
    <3> QED BY <1>3, <2>3, <3>1 DEF AttemptInv, RewrittenAtMost
  <2> QED BY <2>2, <2>3
<1>5. OneReservation'
  BY FewerReservations DEF ReservationInv
<1>6. OneUnresolved'
  <2>1. \A a \in Attempts : Unresolved(disk[a])' => Unresolved(disk[a])
    BY <1>0 DEF RewrittenAtMost, Unresolved, Present, Settled, NeverEntered
  <2> QED BY <2>1 DEF ReservationInv, OneUnresolved
<1>7. Phases'
  BY <1>1, <1>2 DEF Phases, ReservationInv
<1> QED BY <1>4, <1>5, <1>6, <1>7

LEMMA AcknowledgeReserves ==
  ASSUME ExecutorInv, ReservationInv, NEW b \in Attempts, AcknowledgeResult(b)
  PROVE  ReservationInv'
<1>1. /\ mode = "up" /\ JournalInv /\ rec[b].result # "none"
      /\ UNCHANGED <<mode, todo, st, runner, outcome, canc>>
      /\ UNCHANGED exec \/ ForgetExecution(JobOf[b])
  BY DEF AcknowledgeResult, ExecutorInv
<1>2. PICK ok \in BOOLEAN : Accept(b, ok)
  BY DEF AcknowledgeResult
<1>3. AttemptInv(b) /\ JobOf[b] \in Jobs
  BY AttemptJob DEF ReservationInv
<1>4. ASSUME UNCHANGED jvars PROVE RewrittenAtMost(b)
  BY <1>1, <1>4, NothingRewritten
<1>5. ASSUME NEW r \in Record,
             Wrote(b, r, ok),
             SameAdmission(r, rec[b]), SameProgress(r, rec[b]),
             r.cancelRequested = rec[b].cancelRequested,
             r.accepted, r.result = rec[b].result,
             r.stopVerified = rec[b].stopVerified
      PROVE  RewrittenAtMost(b)
  <2>1. /\ rec'[b] \in {rec[b], r} /\ disk'[b] \in {disk[b], r}
        /\ \A a \in Attempts : a # b => rec'[a] = rec[a] /\ disk'[a] = disk[a]
        /\ disk'[b] # disk[b] => disk[b] = rec[b]
    BY <1>5 DEF Wrote
  <2>2. /\ r.runtime = rec[b].runtime /\ r.legacy = rec[b].legacy
        /\ r.phase = rec[b].phase /\ r.knownUnstarted = rec[b].knownUnstarted
        /\ r.daemon = rec[b].daemon
    BY <1>5 DEF SameAdmission, SameProgress
  <2>3. WellKept(b, rec[b])' /\ WellKept(b, disk[b])'
    BY <1>1, <1>3, <1>5, <2>1, <2>2 DEF AttemptInv, WellKept
  <2>4. Follows(b, rec[b])' /\ Follows(b, disk[b])'
    BY <1>1, <1>3, <1>5, <2>1, <2>2 DEF AttemptInv, Follows, Active
  <2>5. Unresolved(r) => Unresolved(rec[b])
    BY <1>5, <2>2 DEF Unresolved, Present, Settled, NeverEntered
  <2>6. /\ Unresolved(rec[b])' => Unresolved(rec[b])
        /\ Unresolved(disk[b])' => Unresolved(disk[b])
    BY <2>1, <2>5
  <2> QED BY <1>5, <2>1, <2>3, <2>4, <2>6 DEF RewrittenAtMost
<1>6. RewrittenAtMost(b)
  BY <1>1, <1>2, <1>4, <1>5, AcceptWrites
<1>7. \A c \in Cancellers : Joining(c)'
  <2>1. \A a \in Attempts : /\ rec[a].cancelRequested => rec'[a].cancelRequested
                            /\ disk[a].cancelRequested => disk'[a].cancelRequested
    BY <1>6 DEF RewrittenAtMost
  <2> QED BY <1>1, <2>1, JoiningKept DEF ExecutorInv, ReservationInv
<1> QED BY <1>1, <1>3, <1>6, <1>7, ForgettingReserves DEF ReservationInv

\* The cancellation of c moves on while nothing is written.
LEMMA QuietCancelReserves ==
  ASSUME ExecutorInv, ReservationInv, NEW c \in Cancellers, UNCHANGED jvars,
         UNCHANGED <<mode, todo, exec, st, runner, outcome>>,
         \A d \in Cancellers : d # c => canc'[d] = canc[d],
         canc[c].pc # "idle",
         \/ canc'[c] = NotCancelling
         \/ /\ canc'[c].target = canc[c].target
            /\ canc[c].pc # "return"
            /\ canc'[c].pc \in {"recheck", "commit"} => DoneRunning(canc[c].target)
  PROVE  ReservationInv'
<1>1. ASSUME NEW d \in Cancellers PROVE Joining(d)'
  <2>1. CASE d # c
    BY <2>1 DEF ReservationInv, Joining, DoneRunning, jvars
  <2>2. CASE canc'[c] = NotCancelling /\ d = c
    BY <2>2 DEF Joining, NotCancelling
  <2>3. CASE /\ canc'[c].target = canc[c].target
             /\ canc[c].pc # "return"
             /\ canc'[c].pc \in {"recheck", "commit"} => DoneRunning(canc[c].target)
             /\ d = c
    <3>1. canc[c].pc \in {"remove", "wait", "recheck", "commit"}
      BY <2>3 DEF ExecutorInv, TypeOK, Cancellation, CancelSteps
    <3>2. Joining(c)
      BY DEF ReservationInv
    <3> QED BY <2>3, <3>1, <3>2 DEF Joining, DoneRunning, jvars
  <2> QED BY <2>1, <2>2, <2>3
<1> QED BY <1>1, NothingMoves

LEMMA CancelReserves ==
  ASSUME ExecutorInv, ReservationInv, NEW c \in Cancellers,
         CancelRemoves(c) \/ CancelJoins(c) \/ CancelTimesOut(c) \/ CancelRechecks(c)
  PROVE  ReservationInv'
<1>1. /\ UNCHANGED jvars /\ UNCHANGED <<mode, todo, exec, st, runner, outcome>>
      /\ canc \in [Cancellers -> Cancellation] /\ canc[c] \in Cancellation
  BY DEF CancelRemoves, CancelJoins, CancelTimesOut, CancelRechecks, ExecutorInv, TypeOK
<1>2. Joining(c)
  BY DEF ReservationInv
<1>3. CASE CancelRemoves(c)
  <2>1. PICK failed \in BOOLEAN :
          /\ canc[c].pc = "remove"
          /\ canc' = [canc EXCEPT ![c] = [canc[c] EXCEPT !.pc = "wait",
                                                         !.failed = failed]]
    BY <1>3 DEF CancelRemoves
  <2>2. canc'[c].target = canc[c].target /\ canc'[c].pc = "wait"
    BY <1>1, <2>1 DEF Cancellation
  <2>3. \A d \in Cancellers : d # c => canc'[d] = canc[d]
    BY <1>1, <2>1
  <2> QED BY <1>1, <2>1, <2>2, <2>3, QuietCancelReserves
<1>4. CASE CancelJoins(c) \/ CancelTimesOut(c) \/ CancelRechecks(c)
  <2>1. PICK pc \in {"recheck", "commit"} :
          \/ canc' = [canc EXCEPT ![c] = NotCancelling]
          \/ canc' = [canc EXCEPT ![c] = [canc[c] EXCEPT !.pc = pc]]
    BY <1>4 DEF CancelJoins, CancelTimesOut, CancelRechecks
  <2>2. canc[c].pc \in {"wait", "recheck", "commit"}
    BY <1>4 DEF CancelJoins, CancelTimesOut, CancelRechecks
  <2>3. \A d \in Cancellers : d # c => canc'[d] = canc[d]
    BY <1>1, <2>1
  <2>4. CASE canc' = [canc EXCEPT ![c] = NotCancelling]
    BY <1>1, <2>2, <2>3, <2>4, QuietCancelReserves
  <2>5. CASE canc' # [canc EXCEPT ![c] = NotCancelling]
    <3>1. canc'[c].target = canc[c].target
      BY <1>1, <2>1, <2>5 DEF Cancellation
    <3>2. DoneRunning(canc[c].target)
      BY <1>2, <1>4, <2>5 DEF CancelJoins, CancelTimesOut, CancelRechecks, Joined, Joining
    <3> QED BY <1>1, <2>2, <2>3, <3>1, <3>2, QuietCancelReserves
  <2> QED BY <2>4, <2>5
<1> QED BY <1>3, <1>4

LEMMA CancelReturnsReserves ==
  ASSUME ExecutorInv, ReservationInv, NEW c \in Cancellers, CancelReturns(c)
  PROVE  ReservationInv'
<1> DEFINE a == canc[c].target
<1>1. /\ canc[c].pc = "return" /\ a \in Attempts /\ JobOf[a] \in Jobs
      /\ canc \in [Cancellers -> Cancellation]
      /\ canc' = [canc EXCEPT ![c] = NotCancelling]
      /\ UNCHANGED exec \/ ForgetExecution(JobOf[a])
      /\ UNCHANGED <<jvars, mode, todo, st, runner, outcome>>
  BY AttemptJob DEF CancelReturns, ExecutorInv, TypeOK, CancelsHaveTargets
<1>2. mode = "up"
  BY <1>1 DEF ReservationInv, Joining
<1>3. \A d \in Cancellers : Joining(d)'
  BY <1>1 DEF ReservationInv, Joining, DoneRunning, NotCancelling, jvars
<1> HIDE DEF a
<1> QED BY <1>1, <1>2, <1>3, NothingRewritten, ForgettingReserves DEF ReservationInv

LEMMA CancelBeginsReserves ==
  ASSUME ExecutorInv, ReservationInv, NEW c \in Cancellers, NEW b \in Attempts,
         CancelBegins(c, b)
  PROVE  ReservationInv'
<1>1. /\ mode = "up" /\ Tracked(b) /\ canc[c].pc = "idle" /\ JournalInv
      /\ UNCHANGED <<mode, todo, exec, runner, outcome>>
      /\ st \in [Attempts -> Flags] /\ canc \in [Cancellers -> Cancellation]
  BY DEF CancelBegins, ExecutorInv, TypeOK
<1>2. AttemptInv(b)
  BY DEF ReservationInv
<1>3. PICK ok \in BOOLEAN :
        /\ RememberCancellation(b, ok)
        /\ \/ ~ok /\ UNCHANGED <<st, canc>>
           \/ /\ ok /\ UNCHANGED st
              /\ canc' = [canc EXCEPT ![c] = [NotCancelling EXCEPT
                                               !.pc = "return", !.target = b]]
           \/ /\ ok /\ st' = [st EXCEPT ![b].cancelRequested = TRUE]
              /\ \E pc \in {"remove", "wait"} : \E unstarted :
                   canc' = [canc EXCEPT ![c] =
                             [pc |-> pc, target |-> b, knownUnstarted |-> unstarted,
                              failed |-> FALSE]]
  BY DEF CancelBegins
<1>4. CASE ~ok /\ UNCHANGED jvars
  BY <1>1, <1>3, <1>4, NothingMovesAtAll
<1>5. CASE Wrote(b, Cancelled(b), ok)
  <2>1. st' = st \/ st' = [st EXCEPT ![b].cancelRequested = TRUE]
    BY <1>3
  <2>2. /\ \A a \in Attempts : a # b => st'[a] = st[a]
        /\ st'[b].held = st[b].held /\ st'[b].stopConfirmed = st[b].stopConfirmed
        /\ runner[b] # "idle"
    BY <1>1, <1>2, <2>1 DEF Flags, AttemptInv, Tracking
  <2>3. /\ \A a \in Attempts : AttemptInv(a)'
        /\ OneReservation' /\ OneUnresolved' /\ Phases'
        /\ \A a \in Attempts :
             /\ rec[a].cancelRequested => rec'[a].cancelRequested
             /\ disk[a].cancelRequested => disk'[a].cancelRequested
    BY <1>1, <1>5, <2>2, CancelledReserves
  <2>4. ASSUME NEW d \in Cancellers PROVE Joining(d)'
    <3>1. CASE canc'[d] = canc[d]
      BY <1>1, <2>3, <3>1, JoiningKept DEF ExecutorInv, ReservationInv
    <3>2. CASE canc'[d] # canc[d]
      <4>1. ok /\ rec'[b] = Cancelled(b) /\ disk'[b] = Cancelled(b)
        BY <1>1, <1>3, <1>5, <3>2 DEF Wrote
      <4>2. rec'[b].cancelRequested /\ disk'[b].cancelRequested
        BY <1>1, <1>3, <4>1, CancellationWrites DEF Cancels
      <4>3. canc'[d].target = b /\ canc'[d].pc \in {"return", "remove", "wait"}
        <5>1. d = c
          BY <1>1, <1>3, <3>2
        <5>2. CASE canc' = [canc EXCEPT ![c] = [NotCancelling EXCEPT
                                                  !.pc = "return", !.target = b]]
          <6>1. canc'[c] = [NotCancelling EXCEPT !.pc = "return", !.target = b]
            BY <1>1, <5>2
          <6> QED BY <5>1, <6>1 DEF NotCancelling
        <5>3. CASE \E pc \in {"remove", "wait"} : \E unstarted :
                     canc' = [canc EXCEPT ![c] =
                               [pc |-> pc, target |-> b, knownUnstarted |-> unstarted,
                                failed |-> FALSE]]
          BY <1>1, <5>1, <5>3
        <5> QED BY <1>3, <3>2, <5>2, <5>3
      <4> QED BY <1>1, <4>2, <4>3 DEF Joining
    <3> QED BY <3>1, <3>2
  <2> QED BY <2>3, <2>4 DEF ReservationInv
<1> QED BY <1>1, <1>3, <1>4, <1>5, CancellationWrites

\* The confirmed stop of a cancellation releases the GPU with the record.
LEMMA CommitReserves ==
  ASSUME ExecutorInv, ReservationInv, NEW c \in Cancellers, CancelCommits(c)
  PROVE  ReservationInv'
<1>0. canc[c].pc = "commit" /\ canc[c].target \in Attempts
  BY DEF CancelCommits, ExecutorInv, CancelsHaveTargets
<1> PICK b \in Attempts : b = canc[c].target
  BY <1>0
<1>1. /\ canc[c].pc = "commit" /\ JournalInv
      /\ UNCHANGED <<mode, todo, exec, runner, outcome>>
      /\ st \in [Attempts -> Flags] /\ canc \in [Cancellers -> Cancellation]
      /\ canc[c] \in Cancellation
  BY DEF CancelCommits, ExecutorInv, TypeOK
<1>2. /\ mode = "up" /\ runner[b] = "done" /\ AttemptInv(b)
      /\ rec[b].cancelRequested /\ disk[b].cancelRequested
  BY <1>1 DEF ReservationInv, Joining, DoneRunning
<1>3. PICK ok \in BOOLEAN :
        /\ Complete(b, "none", TRUE, ok)
        /\ ok => /\ st' = [st EXCEPT ![b] = [@ EXCEPT !.stopConfirmed = TRUE,
                                                      !.stopUnverified = FALSE,
                                                      !.held = FALSE]]
                 /\ canc' = [canc EXCEPT ![c] = [canc[c] EXCEPT !.pc = "return"]]
        /\ ~ok => /\ st' = [st EXCEPT ![b].stopUnverified = TRUE]
                  /\ canc' = [canc EXCEPT ![c] = NotCancelling]
  BY DEF CancelCommits
<1>4. /\ \A a \in Attempts : a # b => st'[a] = st[a]
      /\ ok => ~st'[b].held /\ st'[b].stopConfirmed
      /\ ~ok => st'[b].held = st[b].held /\ st'[b].stopConfirmed = st[b].stopConfirmed
  <2>1. st[b] \in Flags
    BY <1>1
  <2>2. CASE ok
    <3>1. st'[b] = [st[b] EXCEPT !.stopConfirmed = TRUE, !.stopUnverified = FALSE,
                                 !.held = FALSE]
      BY <1>1, <1>3, <2>2
    <3> QED BY <1>1, <1>3, <2>1, <2>2, <3>1 DEF Flags
  <2>3. CASE ~ok
    BY <1>1, <1>3, <2>1, <2>3 DEF Flags
  <2> QED BY <2>2, <2>3
<1>5. /\ \A d \in Cancellers : d # c => canc'[d] = canc[d]
      /\ canc'[c].pc \in {"return", "idle"}
  BY <1>1, <1>3 DEF NotCancelling, Cancellation
<1>6. ASSUME AttemptInv(b)',
             \A a \in Attempts : a # b => rec'[a] = rec[a] /\ disk'[a] = disk[a],
             rec[b].cancelRequested => rec'[b].cancelRequested,
             disk[b].cancelRequested => disk'[b].cancelRequested
      PROVE  ReservationInv'
  <2>1. \A a \in Attempts : a # b => SameFor(a)
    BY <1>1, <1>4, <1>6 DEF SameFor, Tracked
  <2>2. OneReservation'
    BY <1>4, FewerReservations DEF ReservationInv
  <2>3. (\A a \in Attempts : AttemptInv(a)') /\ OneUnresolved'
    BY <1>1, <1>2, <1>6, <2>1, <2>2, StepOfOne
  <2>4. ASSUME NEW d \in Cancellers PROVE Joining(d)'
    <3>1. CASE d = c
      BY <1>1, <1>2, <1>5, <3>1 DEF Joining
    <3>2. CASE d # c
      BY <1>1, <1>5, <1>6, <3>2, JoiningKept DEF ExecutorInv, ReservationInv
    <3> QED BY <3>1, <3>2
  <2>5. Phases'
    BY <1>1, <1>2 DEF Phases, ReservationInv
  <2> QED BY <2>2, <2>3, <2>4, <2>5 DEF ReservationInv
<1>7. CASE ~ok /\ UNCHANGED jvars
  <2>1. rec' = rec /\ disk' = disk
    BY <1>7 DEF jvars
  <2>2. AttemptInv(b)'
    BY <1>1, <1>2, <1>4, <1>7, <2>1
       DEF AttemptInv, WellKept, Follows, Reserved, Tracking, Tracked, Active
  <2> QED BY <1>6, <2>1, <2>2
<1>8. ASSUME NEW r \in Record,
             Wrote(b, r, ok), Completes(r, rec[b], "none", TRUE)
      PROVE  ReservationInv'
  <2>1. /\ rec'[b] \in {rec[b], r} /\ disk'[b] \in {disk[b], r}
        /\ ok => rec'[b] = r /\ disk'[b] = r
        /\ \A a \in Attempts : a # b => rec'[a] = rec[a] /\ disk'[a] = disk[a]
        /\ disk'[b] # disk[b] => disk[b] = rec[b]
        /\ disk'[b] # disk[b] => disk[b] = rec[b]
    BY <1>8 DEF Wrote
  <2>2. /\ r.runtime = rec[b].runtime /\ r.legacy = rec[b].legacy
        /\ r.result = rec[b].result /\ r.phase = "finished" /\ r.stopVerified
        /\ r.cancelRequested = rec[b].cancelRequested
        /\ r.knownUnstarted = rec[b].knownUnstarted /\ r.accepted = rec[b].accepted
    BY <1>8 DEF Completes, SameAdmission
  <2>3. WellKept(b, rec[b])' /\ WellKept(b, disk[b])'
    <3>1. rec[b].runtime = RuntimeOf[b]
      BY <1>2 DEF AttemptInv, Follows
    <3>2. WellKept(b, r)
      BY <1>2, <2>2, <3>1, RealRuntime DEF AttemptInv, WellKept
    <3> QED BY <1>2, <2>1, <3>2 DEF AttemptInv, WellKept
  <2>4. Follows(b, rec[b])' /\ Follows(b, disk[b])'
    BY <1>1, <1>2, <1>4, <2>1, <2>2 DEF AttemptInv, Follows, Active
  <2>5. Reserved(b, rec[b])' /\ Reserved(b, disk[b])'
    BY <1>1, <1>2, <1>4, <2>1, <2>2 DEF AttemptInv, Reserved, Unresolved, Settled
  <2>6. Tracking(b)'
    BY <1>1, <1>2, <1>4 DEF AttemptInv, Tracking, Tracked, Active
  <2>7. /\ rec[b].cancelRequested => rec'[b].cancelRequested
        /\ disk[b].cancelRequested => disk'[b].cancelRequested
    BY <2>1, <2>2
  <2> QED BY <1>6, <2>1, <2>3, <2>4, <2>5, <2>6, <2>7 DEF AttemptInv
<1>9. "none" \in Results \cup {"none"}
  OBVIOUS
<1> QED BY <1>1, <1>3, <1>7, <1>8, <1>9, CompleteWrites

-----------------------------------------------------------------------------
(* The process dies, and the next one restores what it finds.                *)

\* b's record may have been rewritten while a process starts.
RestoredRecord(b) ==
  /\ \A a \in Attempts : a # b => rec'[a] = rec[a] /\ disk'[a] = disk[a]
  /\ WellKept(b, rec[b])' /\ WellKept(b, disk[b])'
  /\ Unresolved(disk[b])' => Unresolved(disk[b])

LEMMA EndingReserves ==
  ASSUME ExecutorInv, ReservationInv, ProcessEnds, NEW b \in Attempts,
         RestoredRecord(b)
  PROVE  ReservationInv'
<1>1. ASSUME NEW a \in Attempts PROVE AttemptInv(a)'
  <2>1. WellKept(a, rec[a])' /\ WellKept(a, disk[a])'
    BY DEF RestoredRecord, ReservationInv, AttemptInv, WellKept
  <2> QED BY <2>1, EndedAttempt
<1>2. \A c \in Cancellers : Joining(c)'
  BY DEF ProcessEnds, NoCancel, NotCancelling, Joining
<1>3. Phases'
  BY DEF ProcessEnds, NoExecution, Phases
<1>4. OneReservation'
  BY DEF ProcessEnds, NoFlag, NoFlags, OneReservation
<1>5. OneUnresolved'
  <2>1. \A a \in Attempts : Unresolved(disk[a])' => Unresolved(disk[a])
    BY DEF RestoredRecord, Unresolved, Present, Settled, NeverEntered
  <2> QED BY <2>1 DEF ReservationInv, OneUnresolved
<1> QED BY <1>1, <1>2, <1>3, <1>4, <1>5 DEF ReservationInv

LEMMA NothingRestored ==
  ASSUME ReservationInv, NEW b \in Attempts, rec' = rec, disk' = disk
  PROVE  RestoredRecord(b)
<1>1. AttemptInv(b)
  BY DEF ReservationInv
<1>2. WellKept(b, rec[b])' /\ WellKept(b, disk[b])'
  BY <1>1 DEF AttemptInv, WellKept
<1>3. Unresolved(disk[b])' => Unresolved(disk[b])
  BY DEF Unresolved, Present, Settled, NeverEntered
<1> QED BY <1>2, <1>3 DEF RestoredRecord

LEMMA CrashReserves ==
  ASSUME ExecutorInv, ReservationInv, Crash
  PROVE  ReservationInv'
<1>1. rec' = rec /\ disk' = disk /\ ProcessEnds
  BY DEF Crash, jvars
<1>2. CASE Attempts = {}
  BY <1>1, <1>2 DEF ReservationInv, ProcessEnds, NoCancel, NotCancelling, Joining,
                    NoExecution, Phases, OneReservation, OneUnresolved
<1>3. ASSUME NEW b \in Attempts PROVE ReservationInv'
  BY <1>1, NothingRestored, EndingReserves
<1> QED BY <1>2, <1>3

LEMMA RestartReserves ==
  ASSUME ExecutorInv, ReservationInv, Restart
  PROVE  ReservationInv'
<1>1. /\ mode = "down" /\ mode' = "restoring"
      /\ rec' = disk /\ disk' = disk /\ ~fault' /\ todo' = Recorded(disk)
      /\ UNCHANGED <<exec, st, runner, outcome, canc>>
  BY DEF Restart, Reopen
<1>2. ASSUME NEW a \in Attempts PROVE AttemptInv(a)'
  <2>1. AttemptInv(a) /\ ~Active(a) /\ ~Tracked(a) /\ ~st[a].held
    BY <1>1 DEF ReservationInv, AttemptInv, Tracking
  <2>2. WellKept(a, rec[a])' /\ WellKept(a, disk[a])'
    BY <1>1, <2>1 DEF AttemptInv, WellKept
  <2>3. Follows(a, rec[a])' /\ Follows(a, disk[a])'
    BY <1>1, <2>1 DEF AttemptInv, Follows, Active
  <2>4. Reserved(a, rec[a])' /\ Reserved(a, disk[a])'
    BY <1>1 DEF Reserved, Unresolved, Recorded
  <2>5. Tracking(a)'
    BY <1>1, <2>1 DEF AttemptInv, Tracking, Tracked, Active
  <2> QED BY <2>2, <2>3, <2>4, <2>5 DEF AttemptInv
<1>3. \A c \in Cancellers : Joining(c)'
  <2>1. \A c \in Cancellers : canc[c].pc = "idle"
    BY <1>1 DEF ReservationInv, Joining
  <2> QED BY <1>1, <2>1 DEF Joining
<1>4. Phases'
  BY <1>1 DEF Phases, ReservationInv
<1>5. OneReservation' /\ OneUnresolved'
  BY <1>1 DEF ReservationInv, OneReservation, OneUnresolved
<1> QED BY <1>2, <1>3, <1>4, <1>5 DEF ReservationInv

LEMMA RestoreEndsReserves ==
  ASSUME ExecutorInv, ReservationInv, RestoreEnds
  PROVE  ReservationInv'
<1>1. /\ mode = "restoring" /\ mode' = "up" /\ todo = {}
      /\ UNCHANGED <<exec, st, runner, outcome, canc>>
      /\ rec' = rec /\ disk' = disk
  BY DEF RestoreEnds, process, jvars
<1>2. ASSUME NEW a \in Attempts PROVE AttemptInv(a)'
  <2>1. AttemptInv(a) /\ ~Active(a)
    BY <1>1 DEF ReservationInv, AttemptInv, Tracking
  <2>2. WellKept(a, rec[a])' /\ WellKept(a, disk[a])'
    BY <1>1, <2>1 DEF AttemptInv, WellKept
  <2>3. Follows(a, rec[a])' /\ Follows(a, disk[a])'
    BY <1>1, <2>1 DEF AttemptInv, Follows, Active
  <2>4. Reserved(a, rec[a])' /\ Reserved(a, disk[a])'
    BY <1>1, <2>1 DEF AttemptInv, Reserved
  <2>5. Tracking(a)'
    BY <1>1, <2>1 DEF AttemptInv, Tracking, Tracked, Active
  <2> QED BY <2>2, <2>3, <2>4, <2>5 DEF AttemptInv
<1>3. \A c \in Cancellers : Joining(c)'
  BY <1>1 DEF ReservationInv, Joining, DoneRunning
<1>4. Phases' /\ OneReservation' /\ OneUnresolved'
  BY <1>1 DEF ReservationInv, Phases, OneReservation, OneUnresolved
<1> QED BY <1>2, <1>3, <1>4 DEF ReservationInv

\* Before b is restored: its record is the same in memory and on disk, and
\* nothing is under way.
LEMMA BeforeRestoring ==
  ASSUME ExecutorInv, ReservationInv, NEW b \in Attempts,
         mode = "restoring", b \in todo
  PROVE  /\ ~fault /\ rec[b] = disk[b] /\ rec[b] \in Record /\ JournalInv
         /\ Present(rec[b]) /\ ~Active(b) /\ ~Tracked(b) /\ ~st[b].held
         /\ AttemptInv(b)
<1>1. AttemptInv(b) /\ Phases
  BY DEF ReservationInv
<1>2. ~fault /\ Present(disk[b])
  BY <1>1 DEF Phases, Recorded
<1>3. rec[b] = disk[b] /\ rec[b] \in Record /\ JournalInv
  BY <1>2, RecordsTyped DEF ExecutorInv, JournalInv, InSync
<1> QED BY <1>1, <1>2, <1>3 DEF AttemptInv, Tracking

\* A record that is settled now needs nothing of the process.
LEMMA SettlingReserves ==
  ASSUME ExecutorInv, ReservationInv, NEW b \in Attempts,
         mode = "restoring", b \in todo, NEW ok \in BOOLEAN, Restored(b, ok),
         RestoredRecord(b),
         ok => /\ ~Unresolved(rec[b])' /\ ~Unresolved(disk[b])' /\ ~fault'
               /\ Follows(b, rec[b])' /\ Follows(b, disk[b])'
               /\ Recorded(disk) \subseteq Recorded(disk)'
  PROVE  ReservationInv'
<1>1. CASE ProcessEnds
  BY <1>1, EndingReserves
<1>2. CASE ~ProcessEnds
  <2>1. /\ ok /\ todo' = todo \ {b}
        /\ UNCHANGED <<mode, exec, st, runner, outcome, workspaces, canc>>
    BY <1>2 DEF Restored
  <2>2. \A a \in Attempts : a # b => SameFor(a)
    BY <2>1 DEF SameFor, Tracked, RestoredRecord
  <2>3. OneReservation'
    BY <2>1, FewerReservations DEF ReservationInv
  <2>4. AttemptInv(b)'
    <3>1. Tracking(b)'
      BY <2>1, BeforeRestoring DEF AttemptInv, Tracking, Tracked, Active
    <3> QED BY <2>1, <3>1 DEF AttemptInv, Reserved, RestoredRecord
  <2>5. (\A a \in Attempts : AttemptInv(a)') /\ OneUnresolved'
    BY <2>1, <2>2, <2>3, <2>4, StepOfOne DEF RestoredRecord
  <2>6. \A c \in Cancellers : Joining(c)'
    <3>1. \A c \in Cancellers : canc[c].pc = "idle"
      BY DEF ReservationInv, Joining
    <3> QED BY <2>1, <3>1 DEF Joining
  <2>7. Phases'
    BY <2>1 DEF Phases, ReservationInv
  <2> QED BY <2>3, <2>5, <2>6, <2>7 DEF ReservationInv
<1> QED BY <1>1, <1>2

\* What the record of an attempt is when it is tracked again.
TrackableRecord(b, ok) ==
  /\ RestoredRecord(b)
  /\ ok => /\ Unresolved(disk[b])'
           /\ rec'[b].runtime = RuntimeOf[b] /\ disk'[b].runtime = RuntimeOf[b]
           /\ ~fault' /\ Recorded(disk) \subseteq Recorded(disk)'

\* An unresolved record is the only one, so it gets the GPU.
LEMMA TrackingReserves ==
  ASSUME ExecutorInv, ReservationInv, NEW b \in Attempts,
         mode = "restoring", b \in todo, Unresolved(rec[b]),
         NEW blocked \in BOOLEAN, NEW ok \in BOOLEAN,
         BlockReplay(b, blocked, ok), TrackRestored(b, ok)
  PROVE  ReservationInv'
<1>1. /\ ~fault /\ rec[b] = disk[b] /\ rec[b] \in Record /\ JournalInv
      /\ ~Active(b) /\ ~Tracked(b) /\ AttemptInv(b)
  BY BeforeRestoring
<1>2. TrackableRecord(b, ok)
  <2>1. ASSUME ~ok, UNCHANGED jvars PROVE TrackableRecord(b, ok)
    BY <2>1, NothingRestored DEF jvars, TrackableRecord
  <2>2. ASSUME NEW r \in Record,
               Wrote(b, r, ok),
               SameAdmission(r, rec[b]), SameProgress(r, rec[b]),
               r.cancelRequested = rec[b].cancelRequested,
               r.accepted = rec[b].accepted, r.result = rec[b].result,
               r.stopVerified = rec[b].stopVerified
        PROVE  TrackableRecord(b, ok)
    <3>1. /\ rec'[b] \in {rec[b], r} /\ disk'[b] \in {disk[b], r}
          /\ ok => rec'[b] = r /\ disk'[b] = r /\ ~fault'
          /\ \A a \in Attempts : a # b => rec'[a] = rec[a] /\ disk'[a] = disk[a]
      BY <2>2 DEF Wrote
    <3>2. /\ r.runtime = rec[b].runtime /\ r.legacy = rec[b].legacy
          /\ r.phase = rec[b].phase /\ r.knownUnstarted = rec[b].knownUnstarted
          /\ r.daemon = rec[b].daemon
      BY <2>2 DEF SameAdmission, SameProgress
    <3>3. WellKept(b, rec[b])' /\ WellKept(b, disk[b])'
      BY <1>1, <2>2, <3>1, <3>2 DEF AttemptInv, WellKept
    <3>4. Unresolved(r)
      BY <2>2, <3>2 DEF Unresolved, Present, Settled, NeverEntered
    <3>5. ok => Unresolved(disk[b])'
      BY <3>1, <3>4
    <3>6. r.runtime = RuntimeOf[b]
      BY <1>1, <3>2 DEF AttemptInv, WellKept, Unresolved, Settled, NeverEntered, Present
    <3>7. Recorded(disk) \subseteq Recorded(disk)'
      BY <1>1, <3>1, <3>2 DEF Recorded, Present
    <3> QED BY <1>1, <3>1, <3>3, <3>5, <3>6, <3>7
           DEF RestoredRecord, TrackableRecord
  <2> QED BY <1>1, <2>1, <2>2, BlockReplayWrites
<1>3. CASE ProcessEnds
  BY <1>2, <1>3, EndingReserves DEF TrackableRecord
<1>4. CASE ~ProcessEnds
  <2>1. /\ ok /\ exec[JobOf[b]] = NoAttempt /\ todo' = todo \ {b}
        /\ exec' = [exec EXCEPT ![JobOf[b]] = b]
        /\ st' = [st EXCEPT ![b] =
             [cancelRequested |-> rec[b].cancelRequested, stopConfirmed |-> FALSE,
              stopUnverified |-> TRUE, held |-> TRUE]]
        /\ runner' = [runner EXCEPT ![b] = "done"]
        /\ UNCHANGED <<mode, outcome, canc>>
    BY <1>4 DEF TrackRestored
  <2>2. /\ exec \in [Jobs -> Attempts \cup {NoAttempt}]
        /\ st \in [Attempts -> Flags] /\ runner \in [Attempts -> Steps]
        /\ JobOf[b] \in Jobs /\ b # NoAttempt
    BY ExecutorAssumption DEF ExecutorInv, TypeOK
  <2>3. /\ runner'[b] = "done" /\ st'[b].held /\ ~st'[b].stopConfirmed
        /\ exec'[JobOf[b]] = b
        /\ \A a \in Attempts : a # b => runner'[a] = runner[a] /\ st'[a] = st[a]
        /\ \A j \in Jobs : j # JobOf[b] => exec'[j] = exec[j]
    BY <2>1, <2>2
  <2>4. \A a \in Attempts : a # b => SameFor(a)
    <3> SUFFICES ASSUME NEW a \in Attempts, a # b PROVE SameFor(a)
      OBVIOUS
    <3>1. Tracked(a)' <=> Tracked(a)
      BY <2>1, <2>2, <2>3, ExecutorAssumption DEF Tracked
    <3> QED BY <1>2, <2>1, <2>3, <3>1 DEF SameFor, RestoredRecord, TrackableRecord
  <2>5. AttemptInv(b)'
    <3>1. Follows(b, rec[b])' /\ Follows(b, disk[b])'
      BY <1>2, <2>1, <2>3 DEF Follows, Active, TrackableRecord
    <3>2. Reserved(b, rec[b])' /\ Reserved(b, disk[b])'
      BY <2>3 DEF Reserved
    <3>3. Tracking(b)'
      BY <1>2, <2>1, <2>3 DEF Tracking, Tracked, Active, TrackableRecord
    <3> QED BY <1>2, <3>1, <3>2, <3>3 DEF AttemptInv, RestoredRecord, TrackableRecord
  <2>6. OneReservation'
    <3>1. \A a \in Attempts : ~st[a].held
      <4> SUFFICES ASSUME NEW a \in Attempts, st[a].held PROVE FALSE
        OBVIOUS
      <4>1. a \notin todo /\ Unresolved(disk[a])
        BY DEF ReservationInv, AttemptInv, Tracking
      <4>2. a = b
        BY <1>1, <4>1 DEF ReservationInv, OneUnresolved
      <4> QED BY <4>1, <4>2
    <3> QED BY <2>3, <3>1 DEF OneReservation
  <2>7. (\A a \in Attempts : AttemptInv(a)') /\ OneUnresolved'
    BY <1>2, <2>1, <2>4, <2>5, <2>6, StepOfOne DEF RestoredRecord, TrackableRecord
  <2>8. \A c \in Cancellers : Joining(c)'
    <3>1. \A c \in Cancellers : canc[c].pc = "idle"
      BY DEF ReservationInv, Joining
    <3> QED BY <2>1, <3>1 DEF Joining
  <2>9. Phases'
    BY <1>2, <2>1, <2>3 DEF Phases, TrackableRecord, ReservationInv
  <2> QED BY <2>6, <2>7, <2>8, <2>9 DEF ReservationInv
<1> QED BY <1>3, <1>4

LEMMA RestoreSettledReserves ==
  ASSUME ExecutorInv, ReservationInv, NEW b \in Attempts, RestoreSettled(b)
  PROVE  ReservationInv'
<1>1. /\ mode = "restoring" /\ b \in todo /\ Settled(rec[b]) /\ Restored(b, TRUE)
      /\ rec' = rec /\ disk' = disk /\ fault' = fault
  BY DEF RestoreSettled, jvars
<1>2. /\ ~fault /\ rec[b] = disk[b] /\ ~Active(b) /\ AttemptInv(b)
  BY <1>1, BeforeRestoring
<1>3. RestoredRecord(b)
  BY <1>1, NothingRestored
<1>4. ~Unresolved(rec[b])' /\ ~Unresolved(disk[b])'
  BY <1>1, <1>2 DEF Unresolved, Settled
<1>5. Recorded(disk) \subseteq Recorded(disk)'
  BY <1>1 DEF Recorded
<1>6. CASE ProcessEnds
  BY <1>3, <1>6, EndingReserves
<1>7. CASE ~ProcessEnds
  <2>1. UNCHANGED <<st, runner>>
    BY <1>1, <1>7 DEF Restored
  <2>2. Follows(b, rec[b])' /\ Follows(b, disk[b])'
    BY <1>1, <1>2, <2>1 DEF AttemptInv, Follows, Active
  <2> QED BY <1>1, <1>2, <1>3, <1>4, <1>5, <2>2, SettlingReserves
<1> QED BY <1>6, <1>7

\* A record rewritten as finished and verified settles its attempt.
LEMMA VerifiedSettles ==
  ASSUME ExecutorInv, ReservationInv, NEW b \in Attempts, NEW ok \in BOOLEAN,
         mode = "restoring", b \in todo, Restored(b, ok),
         NEW r \in Record, Wrote(b, r, ok),
         SameAdmission(r, rec[b]), r.phase = "finished", r.stopVerified,
         r.runtime = "none" => r.knownUnstarted, r.result # "none"
  PROVE  ReservationInv'
<1>1. /\ ~fault /\ rec[b] = disk[b] /\ JournalInv
      /\ ~Active(b) /\ AttemptInv(b)
  BY BeforeRestoring
<1>2. /\ rec'[b] \in {rec[b], r} /\ disk'[b] \in {disk[b], r}
      /\ ok => rec'[b] = r /\ disk'[b] = r /\ ~fault'
      /\ \A a \in Attempts : a # b => rec'[a] = rec[a] /\ disk'[a] = disk[a]
  BY DEF Wrote
<1>3. WellKept(b, r) /\ ~Unresolved(r)
  BY <1>1 DEF Unresolved, Settled, SameAdmission, AttemptInv, WellKept
<1>4. RestoredRecord(b)
  <2>1. WellKept(b, rec[b])' /\ WellKept(b, disk[b])'
    BY <1>1, <1>2, <1>3 DEF AttemptInv, WellKept
  <2>2. Unresolved(disk[b])' => Unresolved(disk[b])
    BY <1>2, <1>3 DEF Unresolved, Present, Settled, NeverEntered
  <2> QED BY <1>2, <2>1, <2>2 DEF RestoredRecord
<1>5. Recorded(disk) \subseteq Recorded(disk)'
  BY <1>2 DEF Recorded, Present
<1>6. CASE ProcessEnds
  BY <1>4, <1>6, EndingReserves
<1>7. CASE ~ProcessEnds
  <2>1. ok /\ UNCHANGED <<st, runner>>
    BY <1>7 DEF Restored
  <2>2. Follows(b, rec[b])' /\ Follows(b, disk[b])'
    BY <1>1, <1>2, <2>1 DEF AttemptInv, Follows, Active, SameAdmission
  <2>3. ~Unresolved(rec[b])' /\ ~Unresolved(disk[b])' /\ ~fault'
    BY <1>2, <1>3, <2>1 DEF Unresolved, Present, Settled, NeverEntered
  <2> QED BY <1>4, <1>5, <2>2, <2>3, SettlingReserves
<1> QED BY <1>6, <1>7

LEMMA FailedRestoreReserves ==
  ASSUME ExecutorInv, ReservationInv, NEW b \in Attempts, NEW ok \in BOOLEAN,
         Restored(b, ok), ~ok, UNCHANGED jvars
  PROVE  ReservationInv'
<1>1. RestoredRecord(b)
  BY NothingRestored DEF jvars
<1> QED BY <1>1, EndingReserves DEF Restored

LEMMA RestoreUnstartedReserves ==
  ASSUME ExecutorInv, ReservationInv, NEW b \in Attempts, RestoreUnstarted(b)
  PROVE  ReservationInv'
<1>1. PICK ok \in BOOLEAN : RecoverUnstarted(b, ok) /\ Restored(b, ok)
  BY DEF RestoreUnstarted
<1>2. mode = "restoring" /\ b \in todo /\ JournalInv
  BY DEF RestoreUnstarted, ExecutorInv
<1>3. CASE ~ok /\ UNCHANGED jvars
  BY <1>1, <1>3, FailedRestoreReserves
<1>4. ASSUME NEW r \in Record,
             Wrote(b, r, ok), SameAdmission(r, rec[b]),
             r.phase = "finished", r.knownUnstarted, r.stopVerified,
             r.result = IF rec[b].result = "none" THEN "failure" ELSE rec[b].result
      PROVE  ReservationInv'
  <2>1. r.result # "none"
    BY <1>4
  <2> QED BY <1>1, <1>2, <1>4, <2>1, VerifiedSettles
<1> QED BY <1>1, <1>2, <1>3, <1>4, RecoverWrites

LEMMA RestoreStopsReserves ==
  ASSUME ExecutorInv, ReservationInv, NEW b \in Attempts, RestoreStops(b)
  PROVE  ReservationInv'
<1> DEFINE result == IF ReplacedAtRestart(b) THEN "failure" ELSE rec[b].result
<1>1. PICK ok \in BOOLEAN : Complete(b, result, TRUE, ok) /\ Restored(b, ok)
  BY DEF RestoreStops
<1>2. /\ mode = "restoring" /\ b \in todo /\ Unresolved(rec[b]) /\ JournalInv
      /\ rec[b] \in Record
  BY RecordsTyped DEF RestoreStops, ExecutorInv
<1>3. result \in Results \cup {"none"} /\ result # "none"
  BY <1>2 DEF ReplacedAtRestart, Record, Results
<1> HIDE DEF result
<1>4. CASE ~ok /\ UNCHANGED jvars
  BY <1>1, <1>4, FailedRestoreReserves
<1>5. ASSUME NEW r \in Record, Wrote(b, r, ok), Completes(r, rec[b], result, TRUE)
      PROVE  ReservationInv'
  <2>1. /\ SameAdmission(r, rec[b]) /\ r.phase = "finished" /\ r.stopVerified
        /\ r.result # "none"
    BY <1>3, <1>5 DEF Completes
  <2>2. AttemptInv(b)
    BY DEF ReservationInv
  <2>3. r.runtime = "none" => r.knownUnstarted
    BY <1>2, <2>1, <2>2 DEF AttemptInv, WellKept, SameAdmission, Unresolved,
                            Present, Settled, NeverEntered
  <2> QED BY <1>1, <1>2, <1>5, <2>1, <2>3, VerifiedSettles
<1> QED BY <1>1, <1>2, <1>3, <1>4, <1>5, CompleteWrites

LEMMA RestoreReserves ==
  ASSUME ExecutorInv, ReservationInv, NEW b \in Attempts, RestoreStep(b)
  PROVE  ReservationInv'
<1>1. CASE RestoreNative(b) \/ RestoreReattaches(b) \/ RestoreCannotVerify(b)
  <2>1. /\ mode = "restoring" /\ b \in todo /\ Unresolved(rec[b])
        /\ \E ok, blocked \in BOOLEAN : BlockReplay(b, blocked, ok) /\ TrackRestored(b, ok)
    BY <1>1 DEF RestoreNative, RestoreReattaches, RestoreCannotVerify
  <2> QED BY <2>1, TrackingReserves
<1> QED BY <1>1, RestoreSettledReserves, RestoreUnstartedReserves,
           RestoreStopsReserves DEF RestoreStep

-----------------------------------------------------------------------------
(* All of it.                                                                *)

LEMMA InitReserves == Init => ReservationInv
<1> SUFFICES ASSUME Init PROVE ReservationInv
  OBVIOUS
<1>1. /\ mode = "up" /\ todo = {} /\ exec = NoExecution /\ st = NoFlag
      /\ runner = AllIdle /\ outcome = NoOutcome /\ canc = NoCancel
      /\ rec = [a \in Attempts |-> NoRecord] /\ disk = [a \in Attempts |-> NoRecord]
  BY DEF Init, JournalInit
<1>2. ASSUME NEW a \in Attempts PROVE AttemptInv(a)
  <2>1. /\ runner[a] = "idle" /\ st[a] = NoFlags /\ ~Tracked(a)
        /\ rec[a] = NoRecord /\ disk[a] = NoRecord
    BY <1>1, ExecutorAssumption DEF NoExecution, NoFlag, AllIdle, Tracked
  <2>2. WellKept(a, NoRecord) /\ ~Unresolved(NoRecord) /\ ~NoFlags.held
        /\ ~NoFlags.stopConfirmed
    BY DEF WellKept, Unresolved, NoRecord, Present, NoFlags
  <2> QED BY <2>1, <2>2
         DEF AttemptInv, Follows, Reserved, Tracking, Active
<1>3. /\ \A c \in Cancellers : Joining(c)
      /\ Phases /\ OneReservation /\ OneUnresolved
  BY <1>1 DEF NoCancel, NotCancelling, Joining, Phases, NoExecution, NoFlag, NoFlags,
              OneReservation, OneUnresolved, Unresolved, NoRecord, Present
<1> QED BY <1>2, <1>3 DEF ReservationInv

LEMMA StepsReserve == ExecutorInv /\ ReservationInv /\ [Next]_vars => ReservationInv'
<1> SUFFICES ASSUME ExecutorInv, ReservationInv, [Next]_vars PROVE ReservationInv'
  OBVIOUS
<1>1. CASE UNCHANGED vars
  BY <1>1, NothingMovesAtAll DEF vars, process, jvars
<1>2. ASSUME NEW a \in Attempts, RunnerStep(a) \/ RunnerPrepareFails(a) \/ BackendStarts(a)
      PROVE  ReservationInv'
  BY <1>2, EntersReserves, AssignsReserves, RunReturnsReserves, SettlesReserves,
     FinishesReserves, PrepareFailsReserves, BackendStartsReserves DEF RunnerStep
<1>3. ASSUME NEW a \in Attempts, BackendEnds(a) \/ SendResult(a)
      PROVE  ReservationInv'
  BY <1>3, NothingMovesAtAll DEF BackendEnds, SendResult, process, jvars
<1>4. ASSUME NEW a \in Attempts,
             \/ Start(a) \/ Defer(a) \/ RememberCancel(a) \/ RejectAttempt(a)
             \/ AcknowledgeResult(a)
      PROVE  ReservationInv'
  BY <1>4, StartReserves, DeferReserves, RememberCancelReserves, RejectReserves,
     AcknowledgeReserves
<1>5. ASSUME NEW c \in Cancellers, CancelStep(c) PROVE ReservationInv'
  BY <1>5, CancelReserves, CancelReturnsReserves, CommitReserves DEF CancelStep
<1>6. ASSUME NEW c \in Cancellers, NEW a \in Attempts, CancelBegins(c, a)
      PROVE  ReservationInv'
  BY <1>6, CancelBeginsReserves
<1>7. CASE Crash \/ Restart \/ RestoreEnds
  BY <1>7, CrashReserves, RestartReserves, RestoreEndsReserves
<1> QED BY <1>1, <1>2, <1>3, <1>4, <1>5, <1>6, <1>7, RestoreReserves DEF Next

\* The GPU is reserved exactly as the records say (Executor.mu over release,
\* stopUnverified and the journal).
THEOREM ExecutorReserves == Spec => []ReservationInv
<1>1. Init => ReservationInv
  BY InitReserves
<1>2. ExecutorInv /\ ReservationInv /\ [Next]_vars => ReservationInv'
  BY StepsReserve
<1> QED BY <1>1, <1>2, ExecutorInvariant, PTL DEF Spec

\* The GPU is never reserved twice (Start's admission, restoreJournal).
THEOREM ExecutorReservesOnce == Spec => []OneReservation
<1>1. ReservationInv => OneReservation
  BY DEF ReservationInv
<1> QED BY <1>1, ExecutorReserves, PTL

\* restoreJournal never meets two records that need an engine.
THEOREM ExecutorLeavesOneUnresolved == Spec => []OneUnresolved
<1>1. ReservationInv => OneUnresolved
  BY DEF ReservationInv
<1> QED BY <1>1, ExecutorReserves, PTL

-----------------------------------------------------------------------------
(* What a step may do to the files.                                          *)

\* r keeps the last word of q, its cancellation and its proofs; only a restart
\* replaces a result.
Keeps(r, q) ==
  /\ q.accepted => r.accepted /\ r.result = q.result
  /\ q.result # "none" =>
       r.result # "none" /\ (mode = "up" => r.result = q.result)
  /\ q.stopVerified => r.stopVerified
  /\ q.cancelRequested =>
       r.cancelRequested /\ (q.knownUnstarted => r.knownUnstarted)

\* A step that writes replaces one record by one that keeps the last word, and
\* that can be stored and read back; only an acknowledgement accepts.
WritesWell ==
  \E b \in Attempts, r \in Record, ok \in BOOLEAN :
    /\ Wrote(b, r, ok) /\ Keeps(r, rec[b])
    /\ r.accepted => rec[b].accepted \/ AcknowledgeResult(b)
    /\ ~fault => Valid(r)

\* What the next record is derived from.
LEMMA SoundRecord ==
  ASSUME ExecutorInv, ReservationInv, NEW b \in Attempts
  PROVE  /\ rec[b] \in Record /\ ~rec[b].legacy
         /\ rec[b].accepted => rec[b].result # "none"
         /\ rec[b].runtime = "none" =>
              rec[b].phase \in {"absent", "unknown"} \/ rec[b].knownUnstarted
         /\ ~Present(rec[b]) => ~rec[b].stopVerified /\ ~rec[b].knownUnstarted
         /\ ~fault /\ Present(rec[b]) => Valid(rec[b])
<1>1. JournalInv /\ AttemptInv(b)
  BY DEF ExecutorInv, ReservationInv
<1>2. ~fault /\ Present(rec[b]) => Valid(rec[b])
  BY <1>1 DEF JournalInv, InSync, Openable, Recorded
<1> QED BY <1>1, <1>2, RecordsTyped DEF AttemptInv, WellKept

LEMMA AdmissionWritesWell ==
  ASSUME ExecutorInv, ReservationInv, NEW b \in Attempts, NEW ok \in BOOLEAN,
         Admit(b, ok)
  PROVE  WritesWell \/ UNCHANGED jvars
<1>1. ASSUME NEW r \in Record,
             Wrote(b, r, ok), r.legacy = rec[b].legacy, r.phase = "unstarted",
             r.knownUnstarted, r.cancelRequested = rec[b].cancelRequested,
             SameVerdict(r, rec[b])
      PROVE  WritesWell
  <2>1. Keeps(r, rec[b])
    BY <1>1 DEF Keeps, SameVerdict
  <2>2. ~fault => Valid(r)
    BY <1>1, SoundRecord DEF Valid, SameVerdict
  <2> QED BY <1>1, <2>1, <2>2 DEF WritesWell, SameVerdict
<1> QED BY <1>1, AdmitWrites DEF ExecutorInv

LEMMA EntryWritesWell ==
  ASSUME ExecutorInv, ReservationInv, NEW b \in Attempts, RunnerEnters(b)
  PROVE  WritesWell \/ UNCHANGED jvars
<1>1. PICK ok \in BOOLEAN : Running(b, ok)
  BY DEF RunnerEnters
<1>2. /\ rec[b].runtime = RuntimeOf[b] /\ ~rec[b].stopVerified
      /\ RuntimeOf[b] # "none"
  BY RealRuntime DEF RunnerEnters, ReservationInv, AttemptInv, Follows, Active
<1>3. ASSUME NEW r \in Record,
             Wrote(b, r, ok), SameAdmission(r, rec[b]), r.phase = "running",
             ~rec[b].cancelRequested, ~r.knownUnstarted, SameVerdict(r, rec[b])
      PROVE  WritesWell
  <2>1. Keeps(r, rec[b])
    BY <1>3 DEF Keeps, SameVerdict
  <2>2. ~fault => Valid(r)
    BY <1>2, <1>3, SoundRecord DEF Valid, SameVerdict, SameAdmission
  <2> QED BY <1>3, <2>1, <2>2 DEF WritesWell, SameVerdict
<1> QED BY <1>1, <1>3, RunningWrites DEF ExecutorInv

LEMMA AssignmentWritesWell ==
  ASSUME ExecutorInv, ReservationInv, NEW b \in Attempts, RunnerAssigns(b)
  PROVE  WritesWell \/ UNCHANGED jvars
<1>1. CASE UNCHANGED jvars
  BY <1>1
<1>2. ASSUME NEW ok \in BOOLEAN, AssignDockerDaemon(b, ok)
      PROVE  WritesWell \/ UNCHANGED jvars
  <2>1. ASSUME NEW r \in Record,
               Wrote(b, r, ok), rec[b].phase = "running",
               SameAdmission(r, rec[b]), r.phase = rec[b].phase,
               r.knownUnstarted = rec[b].knownUnstarted,
               r.cancelRequested = rec[b].cancelRequested, SameVerdict(r, rec[b])
        PROVE  WritesWell
    <3>1. Keeps(r, rec[b])
      BY <2>1 DEF Keeps, SameVerdict
    <3>2. ~fault => Valid(r)
      BY <2>1, SoundRecord DEF Valid, SameVerdict, SameAdmission, Present
    <3> QED BY <2>1, <3>1, <3>2 DEF WritesWell, SameVerdict
  <2> QED BY <1>2, <2>1, AssignWrites DEF ExecutorInv
<1> QED BY <1>1, <1>2 DEF RunnerAssigns

LEMMA CancellationWritesWell ==
  ASSUME ExecutorInv, ReservationInv, NEW b \in Attempts, NEW ok \in BOOLEAN,
         RememberCancellation(b, ok)
  PROVE  WritesWell \/ UNCHANGED jvars
<1> PICK r \in Record : r = Cancelled(b)
  BY CancellationWrites DEF ExecutorInv
<1>1. Cancels(r, rec[b])
  BY CancellationWrites DEF ExecutorInv
<1>2. ASSUME Wrote(b, r, ok) PROVE WritesWell
  <2>1. Keeps(r, rec[b])
    BY <1>1 DEF Cancels, Keeps, SameVerdict
  <2>2. ~fault => Valid(r)
    BY <1>1, SoundRecord DEF Cancels, Valid, SameVerdict, SameAdmission, Present,
                             Record
  <2> QED BY <1>1, <1>2, <2>1, <2>2 DEF WritesWell, Cancels, SameVerdict
<1> QED BY <1>2, CancellationWrites DEF ExecutorInv

\* A completion may replace a result that nobody accepted, and never takes a
\* proof of the stop back.
LEMMA CompletionWritesWell ==
  ASSUME ExecutorInv, ReservationInv, NEW b \in Attempts, NEW ok \in BOOLEAN,
         NEW result \in Results \cup {"none"}, NEW stopped \in BOOLEAN,
         Complete(b, result, stopped, ok),
         rec[b].accepted => result \in {"none", rec[b].result},
         mode = "up" /\ rec[b].result # "none" => result = "none",
         rec[b].stopVerified => stopped
  PROVE  WritesWell \/ UNCHANGED jvars
<1>1. ASSUME NEW r \in Record, Wrote(b, r, ok), Completes(r, rec[b], result, stopped)
      PROVE  WritesWell
  <2>1. Keeps(r, rec[b])
    BY <1>1 DEF Keeps, Completes, Results
  <2>2. ~fault => Valid(r)
    BY <1>1, SoundRecord DEF Valid, Completes, SameAdmission
  <2> QED BY <1>1, <2>1, <2>2 DEF WritesWell, Completes
<1> QED BY <1>1, CompleteWrites DEF ExecutorInv

LEMMA ResultWritesWell ==
  ASSUME ExecutorInv, ReservationInv, NEW b \in Attempts, NEW ok \in BOOLEAN,
         RememberResult(b, "failure", ok)
  PROVE  WritesWell \/ UNCHANGED jvars
<1>1. ASSUME NEW r \in Record,
             Wrote(b, r, ok), rec[b].result = "none", SameAdmission(r, rec[b]),
             r.cancelRequested = rec[b].cancelRequested,
             r.accepted = rec[b].accepted, r.stopVerified = rec[b].stopVerified,
             \/ /\ ~Present(rec[b])
                /\ r.phase = "unstarted" /\ r.knownUnstarted
             \/ /\ Present(rec[b])
                /\ r.phase = rec[b].phase
                /\ r.knownUnstarted = rec[b].knownUnstarted
                /\ r.replayBlocked =
                     (rec[b].replayBlocked
                      \/ (r.phase = "unknown" /\ ~r.stopVerified))
      PROVE  WritesWell
  <2>1. Keeps(r, rec[b])
    BY <1>1, SoundRecord DEF Keeps
  <2>2. ~fault => Valid(r)
    <3>1. CASE Present(rec[b])
      BY <1>1, <3>1, SoundRecord DEF Valid, SameAdmission, Present
    <3>2. CASE ~Present(rec[b])
      BY <1>1, <3>2, SoundRecord DEF Valid, SameAdmission
    <3> QED BY <3>1, <3>2
  <2> QED BY <1>1, <2>1, <2>2 DEF WritesWell
<1>2. "failure" \in Results
  BY DEF Results
<1> QED BY <1>1, <1>2, ResultWrites DEF ExecutorInv

LEMMA AcceptanceWritesWell ==
  ASSUME ExecutorInv, ReservationInv, NEW b \in Attempts, NEW ok \in BOOLEAN,
         Accept(b, ok), AcknowledgeResult(b)
  PROVE  WritesWell \/ UNCHANGED jvars
<1>1. ASSUME NEW r \in Record,
             Wrote(b, r, ok), Present(rec[b]),
             SameAdmission(r, rec[b]), SameProgress(r, rec[b]),
             r.cancelRequested = rec[b].cancelRequested,
             r.accepted, r.result = rec[b].result,
             r.stopVerified = rec[b].stopVerified,
             r.replayBlocked = rec[b].replayBlocked
      PROVE  WritesWell
  <2>1. Keeps(r, rec[b])
    BY <1>1 DEF Keeps, SameProgress
  <2>2. ~fault => Valid(r)
    BY <1>1, SoundRecord DEF Valid, SameAdmission, SameProgress
  <2> QED BY <1>1, <2>1, <2>2 DEF WritesWell
<1> QED BY <1>1, AcceptWrites DEF ExecutorInv

LEMMA BlockingWritesWell ==
  ASSUME ExecutorInv, ReservationInv, NEW b \in Attempts, NEW ok \in BOOLEAN,
         NEW blocked \in BOOLEAN, BlockReplay(b, blocked, ok), Unresolved(rec[b])
  PROVE  WritesWell \/ UNCHANGED jvars
<1>1. ASSUME NEW r \in Record,
             Wrote(b, r, ok), Present(rec[b]),
             SameAdmission(r, rec[b]), SameProgress(r, rec[b]),
             r.cancelRequested = rec[b].cancelRequested,
             r.accepted = rec[b].accepted, r.result = rec[b].result,
             r.stopVerified = rec[b].stopVerified
      PROVE  WritesWell
  <2>1. Keeps(r, rec[b])
    BY <1>1 DEF Keeps, SameProgress
  <2>2. ~fault => Valid(r)
    BY <1>1, SoundRecord
       DEF Valid, SameAdmission, SameProgress, Unresolved, Settled
  <2> QED BY <1>1, <2>1, <2>2 DEF WritesWell
<1> QED BY <1>1, BlockReplayWrites DEF ExecutorInv

LEMMA RecoveryWritesWell ==
  ASSUME ExecutorInv, ReservationInv, NEW b \in Attempts, NEW ok \in BOOLEAN,
         RecoverUnstarted(b, ok)
  PROVE  WritesWell \/ UNCHANGED jvars
<1>1. ASSUME NEW r \in Record,
             Wrote(b, r, ok), SameAdmission(r, rec[b]),
             r.phase = "finished", r.accepted = rec[b].accepted,
             r.knownUnstarted, r.cancelRequested = rec[b].cancelRequested,
             r.result = IF rec[b].result = "none" THEN "failure" ELSE rec[b].result,
             r.stopVerified, ~r.replayBlocked
      PROVE  WritesWell
  <2>1. Keeps(r, rec[b])
    BY <1>1, SoundRecord DEF Keeps
  <2>2. ~fault => Valid(r)
    BY <1>1, SoundRecord DEF Valid, SameAdmission
  <2> QED BY <1>1, <2>1, <2>2 DEF WritesWell
<1> QED BY <1>1, RecoverWrites DEF ExecutorInv

LEMMA StepsWriteWell ==
  ASSUME ExecutorInv, ReservationInv, Next
  PROVE  \/ WritesWell \/ UNCHANGED jvars
         \/ Restart /\ Reopen
<1>1. ASSUME NEW a \in Attempts, Start(a) \/ Defer(a)
      PROVE  WritesWell \/ UNCHANGED jvars
  BY <1>1, AdmissionWritesWell DEF Start, Defer
<1>2. ASSUME NEW a \in Attempts, RunnerFinishes(a)
      PROVE  WritesWell \/ UNCHANGED jvars
  <2>1. outcome[a] \in Results \cup {"none"} /\ StoppedByRunner(a) \in BOOLEAN
    BY DEF ExecutorInv, TypeOK, StoppedByRunner
  <2>2. ~rec[a].accepted /\ ~rec[a].stopVerified /\ rec[a].result = "none"
    BY <1>2, SoundRecord
       DEF RunnerFinishes, ReservationInv, AttemptInv, Follows, Active
  <2> QED BY <1>2, <2>1, <2>2, CompletionWritesWell DEF RunnerFinishes
<1>3. ASSUME NEW a \in Attempts,
             \/ RunReturns(a) \/ RunnerSettles(a) \/ RunnerPrepareFails(a)
             \/ BackendStarts(a) \/ BackendEnds(a) \/ SendResult(a)
             \/ RestoreSettled(a)
      PROVE  UNCHANGED jvars
  BY <1>3 DEF RunReturns, RunnerSettles, RunnerPrepareFails, BackendStarts,
              BackendEnds, SendResult, RestoreSettled
<1>4. ASSUME NEW a \in Attempts,
             RememberCancel(a) \/ RejectAttempt(a) \/ AcknowledgeResult(a)
      PROVE  WritesWell \/ UNCHANGED jvars
  BY <1>4, CancellationWritesWell, ResultWritesWell, AcceptanceWritesWell
     DEF RememberCancel, RejectAttempt, AcknowledgeResult
<1>5. ASSUME NEW a \in Attempts,
             RestoreNative(a) \/ RestoreReattaches(a) \/ RestoreCannotVerify(a)
      PROVE  WritesWell \/ UNCHANGED jvars
  BY <1>5, BlockingWritesWell
     DEF RestoreNative, RestoreReattaches, RestoreCannotVerify
<1>6. ASSUME NEW a \in Attempts, RestoreStops(a)
      PROVE  WritesWell \/ UNCHANGED jvars
  <2> DEFINE result == IF ReplacedAtRestart(a) THEN "failure" ELSE rec[a].result
  <2>1. PICK ok \in BOOLEAN : Complete(a, result, TRUE, ok)
    BY <1>6 DEF RestoreStops
  <2>2. result \in Results \cup {"none"}
    BY SoundRecord DEF Record, Results
  <2>3. rec[a].accepted => result \in {"none", rec[a].result}
    BY SoundRecord DEF ReplacedAtRestart
  <2>4. mode # "up"
    BY <1>6 DEF RestoreStops
  <2> HIDE DEF result
  <2> QED BY <2>1, <2>2, <2>3, <2>4, CompletionWritesWell
<1>7. ASSUME NEW a \in Attempts, RestoreUnstarted(a)
      PROVE  WritesWell \/ UNCHANGED jvars
  BY <1>7, RecoveryWritesWell DEF RestoreUnstarted
<1>8. ASSUME NEW c \in Cancellers, CancelStep(c)
      PROVE  WritesWell \/ UNCHANGED jvars
  <2>1. CASE CancelCommits(c)
    <3> DEFINE b == canc[c].target
    <3>1. b \in Attempts /\ \E ok \in BOOLEAN : Complete(b, "none", TRUE, ok)
      BY <2>1 DEF CancelCommits, ExecutorInv, CancelsHaveTargets
    <3>2. "none" \in Results \cup {"none"}
      OBVIOUS
    <3> HIDE DEF b
    <3> QED BY <3>1, <3>2, CompletionWritesWell
  <2> QED BY <1>8, <2>1 DEF CancelStep, CancelRemoves, CancelJoins, CancelTimesOut,
                            CancelRechecks, CancelReturns
<1>9. ASSUME NEW c \in Cancellers, NEW a \in Attempts, CancelBegins(c, a)
      PROVE  WritesWell \/ UNCHANGED jvars
  BY <1>9, CancellationWritesWell DEF CancelBegins
<1>10. CASE Crash \/ Restart \/ RestoreEnds
  BY <1>10 DEF Crash, Restart, RestoreEnds
<1> QED BY <1>1, <1>2, <1>3, <1>4, <1>5, <1>6, <1>7, <1>8, <1>9, <1>10,
           EntryWritesWell, AssignmentWritesWell DEF Next, RunnerStep, RestoreStep

\* What the coordinator accepted is never rewritten, and a verified stop is
\* never taken back, whatever is completed, recovered or restored afterwards.
THEOREM ExecutorKeepsAccepted == Spec => AcceptedIsFinal
<1> DEFINE A == \A a \in Attempts :
                  /\ disk[a].accepted =>
                       disk'[a].accepted /\ disk'[a].result = disk[a].result
                  /\ disk[a].stopVerified => disk'[a].stopVerified
<1>1. ASSUME ExecutorInv, ReservationInv, [Next]_vars PROVE [A]_vars
  <2>1. CASE disk' = disk
    BY <2>1
  <2>2. CASE WritesWell
    BY <2>2 DEF WritesWell, Wrote, Keeps
  <2> QED BY <1>1, <2>1, <2>2, StepsWriteWell DEF jvars, Reopen, vars
<1> QED BY <1>1, ExecutorInvariant, ExecutorReserves, PTL DEF Spec, AcceptedIsFinal

\* Only the failure of a write fences the journal (validate, store).
THEOREM ExecutorNeverFencesItself == Spec => OnlyWritesFence
<1>1. ASSUME ExecutorInv, ReservationInv, [Next]_vars
      PROVE  [fault' /\ ~fault => StoreMayFail]_vars
  <2>1. CASE fault' = fault \/ Reopen
    BY <2>1 DEF Reopen
  <2>2. CASE WritesWell
    BY <2>2 DEF WritesWell, Wrote
  <2> QED BY <1>1, <2>1, <2>2, StepsWriteWell DEF jvars, vars
<1> QED BY <1>1, ExecutorInvariant, ExecutorReserves, PTL DEF Spec, OnlyWritesFence

-----------------------------------------------------------------------------
(* What the coordinator was told.                                            *)

\* No attempt with this record is working, and none ever will.
Dead(r) == r.cancelRequested /\ (r.stopVerified \/ r.knownUnstarted)

\* A stop that was promised, and a result that was sent, are in the record.
Told(a, r) ==
  /\ a \in promised => Dead(r)
  /\ a \in sent => r.result # "none"

\* The result in memory, if there is one, is the one on disk; and what is in
\* memory could be stored.
Backed(a) ==
  /\ mode = "up" /\ rec[a].result # "none" => disk[a].result = rec[a].result
  /\ Present(rec[a]) => Valid(rec[a])

ToldInv ==
  \A a \in Attempts : Told(a, rec[a]) /\ Told(a, disk[a]) /\ Backed(a)

LEMMA KeptDead ==
  ASSUME NEW r, NEW q, Keeps(r, q), Dead(q)
  PROVE  Dead(r)
  BY DEF Keeps, Dead

LEMMA ToldKept ==
  ASSUME ExecutorInv, ReservationInv, ToldInv, NEW a \in Attempts,
         WritesWell \/ Reopen \/ UNCHANGED jvars,
         a \in promised' => \/ a \in promised
                            \/ Dead(rec[a])' /\ Dead(disk[a])',
         a \in sent' => \/ a \in sent
                        \/ rec'[a].result # "none" /\ disk'[a].result # "none"
  PROVE  Told(a, rec[a])' /\ Told(a, disk[a])'
<1>0. Told(a, rec[a]) /\ Told(a, disk[a])
  BY DEF ToldInv
<1>1. CASE Reopen
  BY <1>0, <1>1 DEF Reopen, Told, Dead
<1>2. CASE UNCHANGED jvars
  BY <1>0, <1>2 DEF jvars, Told, Dead
<1>3. CASE WritesWell
  <2>1. PICK b \in Attempts, r \in Record, ok \in BOOLEAN :
          Wrote(b, r, ok) /\ Keeps(r, rec[b])
    BY <1>3 DEF WritesWell
  <2>2. CASE a = b
    <3>1. rec'[a] \in {rec[a], r} /\ disk'[a] \in {disk[a], r}
          /\ (disk'[a] # disk[a] => disk[a] = rec[a])
      BY <2>1, <2>2 DEF Wrote
    <3>2. /\ a \in promised => Dead(r) \/ r \notin {rec'[a], disk'[a]}
          /\ a \in sent => r.result # "none" \/ r \notin {rec'[a], disk'[a]}
      BY <1>0, <2>1, <2>2, KeptDead DEF Told, Keeps
    <3>3. a \in promised => Dead(rec'[a]) /\ Dead(disk'[a])
      BY <1>0, <3>1, <3>2 DEF Told
    <3>4. a \in sent => rec'[a].result # "none" /\ disk'[a].result # "none"
      BY <1>0, <3>1, <3>2 DEF Told
    <3> QED BY <3>3, <3>4 DEF Told, Dead
  <2>3. CASE a # b
    BY <1>0, <2>1, <2>3 DEF Wrote, Told, Dead
  <2> QED BY <2>2, <2>3
<1> QED BY <1>1, <1>2, <1>3

LEMMA BackedKept ==
  ASSUME ExecutorInv, ReservationInv, ToldInv, NEW a \in Attempts,
         WritesWell \/ Reopen \/ UNCHANGED jvars,
         mode' = "up" => mode = "up" \/ (~fault /\ UNCHANGED jvars)
  PROVE  Backed(a)'
<1>0. Backed(a) /\ JournalInv
  BY DEF ToldInv, ExecutorInv
<1>1. CASE Reopen
  BY <1>0, <1>1 DEF Reopen, Backed, JournalInv, Openable, Recorded, Present
<1>2. CASE UNCHANGED jvars
  <2>1. ~fault => rec = disk
    BY <1>0 DEF JournalInv, InSync
  <2> QED BY <1>0, <1>2, <2>1 DEF jvars, Backed
<1>3. CASE WritesWell /\ (mode' = "up" => mode = "up")
  <2>1. PICK b \in Attempts, r \in Record, ok \in BOOLEAN :
          /\ Wrote(b, r, ok) /\ Keeps(r, rec[b])
          /\ ~fault => Valid(r)
    BY <1>3 DEF WritesWell
  <2>2. CASE a = b
    <3>1. /\ rec'[a] \in {rec[a], r} /\ disk'[a] \in {disk[a], r}
          /\ rec'[a] # rec[a] => Valid(r) /\ ok
          /\ ok => rec'[a] = r /\ disk'[a] = r
      BY <2>1, <2>2 DEF Wrote
    <3>2. Present(rec'[a]) => Valid(rec'[a])
      BY <1>0, <3>1 DEF Backed
    <3>3. mode' = "up" /\ rec'[a].result # "none" => disk'[a].result = rec'[a].result
      BY <1>0, <1>3, <2>1, <2>2, <3>1 DEF Backed, Keeps
    <3> QED BY <3>2, <3>3 DEF Backed, Present, Valid
  <2>3. CASE a # b
    BY <1>0, <1>3, <2>1, <2>3 DEF Wrote, Backed, Present, Valid
  <2> QED BY <2>2, <2>3
<1> QED BY <1>1, <1>2, <1>3

\* The confirmations, each from a record already written.
LEMMA PromisesAreWritten ==
  ASSUME ExecutorInv, ReservationInv, Next, NEW a \in Attempts,
         a \in promised', a \notin promised
  PROVE  Dead(rec[a])' /\ Dead(disk[a])'
<1>1. ASSUME NEW c \in Cancellers, NEW b \in Attempts, CancelBegins(c, b)
      PROVE  Dead(rec[a])' /\ Dead(disk[a])'
  <2>1. PICK ok \in BOOLEAN :
          RememberCancellation(b, ok) /\ (promised' # promised =>
            ok /\ st[b].stopConfirmed /\ promised' = promised \cup {b})
    BY <1>1 DEF CancelBegins
  <2>2. a = b /\ ok /\ st[a].stopConfirmed
    BY <2>1
  <2>3. Wrote(a, Cancelled(a), ok) /\ Cancels(Cancelled(a), rec[a])
    BY <2>1, <2>2, CancellationWrites DEF ExecutorInv
  <2>4. rec[a].stopVerified
    BY <2>2 DEF ReservationInv, AttemptInv, Follows
  <2> QED BY <2>2, <2>3, <2>4 DEF Wrote, Cancels, SameVerdict, Dead
<1>2. ASSUME NEW c \in Cancellers, CancelStep(c)
      PROVE  Dead(rec[a])' /\ Dead(disk[a])'
  <2>1. CancelCommits(c)
    BY <1>2 DEF CancelStep, CancelRemoves, CancelJoins, CancelTimesOut,
                CancelRechecks, CancelReturns, outside
  <2> PICK b \in Attempts : b = canc[c].target
    BY <2>1 DEF CancelCommits, ExecutorInv, CancelsHaveTargets
  <2>2. PICK ok \in BOOLEAN :
          /\ Complete(b, "none", TRUE, ok)
          /\ promised' # promised => ok /\ promised' = promised \cup {b}
    BY <2>1 DEF CancelCommits
  <2>3. a = b /\ ok /\ rec[a].cancelRequested
    BY <2>1, <2>2 DEF CancelCommits, ReservationInv, Joining
  <2>4. "none" \in Results \cup {"none"}
    OBVIOUS
  <2>5. PICK r \in Record : Wrote(a, r, ok) /\ Completes(r, rec[a], "none", TRUE)
    BY <2>2, <2>3, <2>4, CompleteWrites DEF ExecutorInv
  <2> QED BY <2>3, <2>5 DEF Wrote, Completes, Dead
<1>3. ASSUME NEW b \in Attempts, RememberCancel(b)
      PROVE  Dead(rec[a])' /\ Dead(disk[a])'
  <2>1. PICK ok \in BOOLEAN :
          /\ RememberCancellation(b, ok)
          /\ promised' # promised =>
               /\ ok /\ promised' = promised \cup {b}
               /\ Cancelled(b).stopVerified \/ Cancelled(b).knownUnstarted
    BY <1>3 DEF RememberCancel
  <2>2. a = b /\ ok /\ (Cancelled(b).stopVerified \/ Cancelled(b).knownUnstarted)
    BY <2>1
  <2>3. Wrote(a, Cancelled(a), ok) /\ Cancels(Cancelled(a), rec[a])
    BY <2>1, <2>2, CancellationWrites DEF ExecutorInv
  <2> QED BY <2>2, <2>3 DEF Wrote, Cancels, Dead
<1>4. ASSUME NEW b \in Attempts,
             \/ Start(b) \/ Defer(b) \/ RunnerStep(b) \/ RunnerPrepareFails(b)
             \/ BackendStarts(b) \/ BackendEnds(b) \/ RejectAttempt(b)
             \/ SendResult(b) \/ AcknowledgeResult(b) \/ RestoreStep(b)
      PROVE  promised' = promised
  BY <1>4 DEF Start, Defer, RunnerStep, RunnerPrepareFails, BackendStarts,
       BackendEnds, RejectAttempt, SendResult, AcknowledgeResult, RestoreStep,
       RunnerEnters, RunnerAssigns, RunReturns, RunnerSettles, RunnerFinishes,
       RestoreSettled, RestoreUnstarted, RestoreNative, RestoreReattaches,
       RestoreStops, RestoreCannotVerify, outside
<1>5. CASE Crash \/ Restart \/ RestoreEnds
  BY <1>5 DEF Crash, Restart, RestoreEnds, outside
<1> QED BY <1>1, <1>2, <1>3, <1>4, <1>5 DEF Next

\* A result is sent from memory, and is then on disk.
LEMMA SentIsWritten ==
  ASSUME ToldInv, Next, NEW a \in Attempts, a \in sent', a \notin sent
  PROVE  rec'[a].result # "none" /\ disk'[a].result # "none"
<1>1. ASSUME NEW b \in Attempts, SendResult(b)
      PROVE  rec'[a].result # "none" /\ disk'[a].result # "none"
  <2>1. a = b /\ mode = "up" /\ rec[a].result # "none" /\ UNCHANGED jvars
    BY <1>1 DEF SendResult
  <2> QED BY <2>1 DEF ToldInv, Backed, jvars
<1>2. ASSUME NEW b \in Attempts,
             \/ Start(b) \/ Defer(b) \/ RunnerStep(b) \/ RunnerPrepareFails(b)
             \/ BackendStarts(b) \/ BackendEnds(b) \/ RememberCancel(b)
             \/ RejectAttempt(b) \/ AcknowledgeResult(b) \/ RestoreStep(b)
      PROVE  sent' = sent
  BY <1>2 DEF Start, Defer, RunnerStep, RunnerPrepareFails, BackendStarts,
       BackendEnds, RememberCancel, RejectAttempt, AcknowledgeResult, RestoreStep,
       RunnerEnters, RunnerAssigns, RunReturns, RunnerSettles, RunnerFinishes,
       RestoreSettled, RestoreUnstarted, RestoreNative, RestoreReattaches,
       RestoreStops, RestoreCannotVerify, outside
<1>3. ASSUME NEW c \in Cancellers,
             CancelStep(c) \/ \E b \in Attempts : CancelBegins(c, b)
      PROVE  sent' = sent
  BY <1>3 DEF CancelStep, CancelRemoves, CancelJoins, CancelTimesOut, CancelCommits,
       CancelRechecks, CancelReturns, CancelBegins, outside
<1>4. CASE Crash \/ Restart \/ RestoreEnds
  BY <1>4 DEF Crash, Restart, RestoreEnds, outside
<1> QED BY <1>1, <1>2, <1>3, <1>4 DEF Next

\* Only the end of a restart brings the process up.
LEMMA GoesUp ==
  ASSUME ReservationInv, Next, mode' = "up", mode # "up"
  PROVE  ~fault /\ UNCHANGED jvars
<1>1. ASSUME NEW b \in Attempts,
             \/ Start(b) \/ Defer(b) \/ RunnerStep(b) \/ RunnerPrepareFails(b)
             \/ BackendStarts(b) \/ BackendEnds(b) \/ RememberCancel(b)
             \/ RejectAttempt(b) \/ SendResult(b) \/ AcknowledgeResult(b)
      PROVE  mode' = mode
  BY <1>1 DEF Start, Defer, RunnerStep, RunnerPrepareFails, BackendStarts,
       BackendEnds, RememberCancel, RejectAttempt, SendResult, AcknowledgeResult,
       RunnerEnters, RunnerAssigns, RunReturns, RunnerSettles, RunnerFinishes
<1>2. ASSUME NEW b \in Attempts, RestoreStep(b)
      PROVE  mode' = mode \/ mode' = "down"
  BY <1>2 DEF RestoreStep, RestoreSettled, RestoreUnstarted, RestoreNative,
       RestoreReattaches, RestoreStops, RestoreCannotVerify, Restored,
       TrackRestored, ProcessEnds
<1>3. ASSUME NEW c \in Cancellers,
             CancelStep(c) \/ \E b \in Attempts : CancelBegins(c, b)
      PROVE  mode' = mode
  BY <1>3 DEF CancelStep, CancelRemoves, CancelJoins, CancelTimesOut, CancelCommits,
       CancelRechecks, CancelReturns, CancelBegins
<1>4. CASE Crash \/ Restart
  BY <1>4 DEF Crash, Restart, ProcessEnds
<1>5. CASE RestoreEnds
  BY <1>5 DEF RestoreEnds, ReservationInv, Phases
<1> QED BY <1>1, <1>2, <1>3, <1>4, <1>5 DEF Next

LEMMA StepsTellTheTruth ==
  ExecutorInv /\ ReservationInv /\ ToldInv /\ [Next]_vars => ToldInv'
<1> SUFFICES ASSUME ExecutorInv, ReservationInv, ToldInv, [Next]_vars,
                    NEW a \in Attempts
             PROVE  Told(a, rec[a])' /\ Told(a, disk[a])' /\ Backed(a)'
  BY DEF ToldInv
<1>1. CASE UNCHANGED vars
  BY <1>1, ToldKept, BackedKept DEF vars, outside
<1>2. CASE Next
  BY <1>2, ToldKept, BackedKept, StepsWriteWell, PromisesAreWritten,
     SentIsWritten, GoesUp
<1> QED BY <1>1, <1>2

\* Every stop that was promised and every result that was sent is in the
\* attempt's record, in memory and on disk, for good.
THEOREM ExecutorTellsTheTruth == Spec => []ToldInv
<1>1. Init => ToldInv
  BY DEF Init, JournalInit, ToldInv, Told, Backed, NoRecord, Present
<1> QED BY <1>1, StepsTellTheTruth, ExecutorInvariant, ExecutorReserves, PTL DEF Spec

-----------------------------------------------------------------------------
(* What goes on outside the agent.  Two cancellations of one attempt can     *)
(* overlap, and the slower one then clears the workspace flag of the job,    *)
(* which by then may be another attempt's (cancelContext deletes             *)
(* workspaces[jobID] whatever that job runs now).  So what follows is about  *)
(* a set S of attempts whose flags no such confirmation clears: the          *)
(* Undisputed ones, which no behaviour can hit, or all of them, in a         *)
(* behaviour without a stale confirmation.                                   *)

\* A confirmation clears the flag of the workspace of another attempt, in S.
StaleConfirm(S) ==
  \E c \in Cancellers, a \in Attempts :
    /\ a \in S /\ RuntimeOf[a] = "workspace" /\ Tracked(a)
    /\ CancelCommits(c) /\ canc[c].target # a
    /\ JobOf[canc[c].target] = JobOf[a]
    /\ JobOf[a] \in workspaces \ workspaces'

\* Containers, native work, and workspaces whose job is dispatched once.
Undisputed ==
  {a \in Attempts : RuntimeOf[a] = "workspace" =>
                       \A b \in Attempts : JobOf[b] = JobOf[a] => b = a}

\* The record of a working attempt is unresolved, and promises no more than a
\* running workspace.
Reported(a, r) ==
  /\ Unresolved(r)
  /\ r.result # "none" /\ ~r.replayBlocked =>
       RuntimeOf[a] = "workspace" /\ r.result = "success"
  /\ a \in sent => r.result = "success"

\* What keeps the goroutine from vouching for the stop.
KeptBack(a) ==
  \/ st[a].cancelRequested \/ st[a].stopUnverified
  \/ RuntimeOf[a] = "workspace" /\ JobOf[a] \in workspaces

\* The goroutine has started the work, or the attempt was tracked again.
Going(a) ==
  mode = "up" =>
    /\ runner[a] \in {"running", "returned", "finishing", "done"}
    /\ runner[a] = "returned" /\ RuntimeOf[a] = "ollama" => outcome[a] = "failure"
    /\ runner[a] = "finishing" => KeptBack(a)

LiveOf(S, a) ==
  a \in S /\ live[a] => Reported(a, rec[a]) /\ Reported(a, disk[a]) /\ Going(a)

\* A cancellation that has not been confirmed yet.
Unconfirmed(c) == canc[c].pc \in {"remove", "wait", "recheck", "commit"}

Cancelling(S, c) ==
  LET a == canc[c].target IN
  /\ Unconfirmed(c) =>
       /\ st[a].cancelRequested
       /\ canc[c].knownUnstarted => rec[a].knownUnstarted /\ disk[a].knownUnstarted
  /\ canc[c].pc = "recheck" => IsDocker(a)
  /\ canc[c].pc = "commit" /\ a \in S => ~live[a]

LiveInv(S) ==
  /\ \A a \in Attempts : LiveOf(S, a)
  /\ \A c \in Cancellers : Cancelling(S, c)

AllInv(S) == ExecutorInv /\ ReservationInv /\ ToldInv /\ LiveInv(S)

\* A working attempt is tracked and has the GPU; it is neither stopped nor
\* provably unstarted.
LEMMA LiveFacts ==
  ASSUME NEW S, AllInv(S), NEW a \in Attempts, a \in S, live[a]
  PROVE  /\ ~rec[a].knownUnstarted /\ ~rec[a].stopVerified /\ Present(rec[a])
         /\ ~disk[a].stopVerified /\ Unresolved(rec[a]) /\ Unresolved(disk[a])
         /\ ~Dead(rec[a])
         /\ mode = "up" => /\ Tracked(a) /\ st[a].held
                           /\ runner[a] \in {"running", "returned", "finishing", "done"}
<1>1. LiveOf(S, a) /\ AttemptInv(a)
  BY DEF AllInv, LiveInv, ReservationInv
<1>2. Unresolved(rec[a]) /\ Unresolved(disk[a]) /\ Going(a)
  BY <1>1 DEF LiveOf, Reported
<1>3. mode = "up" => st[a].held /\ Tracked(a)
  BY <1>1, <1>2 DEF AttemptInv, Reserved, Tracking
<1> QED BY <1>2, <1>3 DEF Unresolved, Settled, NeverEntered, Going, Dead, Present

\* A step that does not touch a, and may only end its work.
LEMMA LiveKept ==
  ASSUME NEW S, NEW a \in Attempts, LiveOf(S, a), rec'[a] = rec[a], disk'[a] = disk[a],
         live'[a] => live[a], a \in sent' => a \in sent,
         mode' = "up" => /\ mode = "up" /\ runner'[a] = runner[a]
                         /\ outcome'[a] = outcome[a]
                         /\ KeptBack(a) => KeptBack(a)'
  PROVE  LiveOf(S, a)'
<1>1. a \in S /\ live'[a] => Reported(a, rec[a])' /\ Reported(a, disk[a])'
  BY DEF LiveOf, Reported
<1>2. a \in S /\ live'[a] => Going(a)'
  BY DEF LiveOf, Going
<1> QED BY <1>1, <1>2 DEF LiveOf

\* The records of a step that has written r.
LEMMA ReportedKept ==
  ASSUME NEW S, NEW a \in Attempts, NEW r, NEW ok \in BOOLEAN, Wrote(a, r, ok),
         LiveOf(S, a), live'[a] => live[a], a \in sent' => a \in sent,
         a \in S /\ live[a] => Reported(a, r)
  PROVE  a \in S /\ live'[a] => Reported(a, rec[a])' /\ Reported(a, disk[a])'
<1>1. rec'[a] \in {rec[a], r} /\ disk'[a] \in {disk[a], r}
  BY DEF Wrote
<1>2. a \in S /\ live'[a] => Reported(a, rec[a]) /\ Reported(a, disk[a]) /\ Reported(a, r)
  BY DEF LiveOf
<1> QED BY <1>1, <1>2 DEF Reported

\* What a step leaves of a cancellation it does not move.
LEMMA CancellingKept ==
  ASSUME NEW S, AllInv(S), WritesWell \/ UNCHANGED jvars,
         NEW c \in Cancellers, canc'[c] = canc[c],
         Unconfirmed(c) =>
           LET a == canc[c].target IN
           /\ st'[a].cancelRequested
           /\ live'[a] => live[a] \/ ~DoneRunning(a)
  PROVE  Cancelling(S, c)'
<1>1. CASE ~Unconfirmed(c)
  BY <1>1 DEF Cancelling, Unconfirmed
<1>2. CASE Unconfirmed(c)
  <2> PICK a \in Attempts : a = canc[c].target
    BY <1>2 DEF Unconfirmed, AllInv, ExecutorInv, CancelsHaveTargets
  <2>1. /\ Cancelling(S, c) /\ Joining(c)
    BY DEF AllInv, LiveInv, ReservationInv
  <2>2. rec[a].cancelRequested /\ disk[a].cancelRequested
    BY <1>2, <2>1 DEF Joining, Unconfirmed
  <2>3. canc[c].knownUnstarted => rec'[a].knownUnstarted /\ disk'[a].knownUnstarted
    <3>0. canc[c].knownUnstarted => rec[a].knownUnstarted /\ disk[a].knownUnstarted
      BY <1>2, <2>1 DEF Cancelling
    <3>1. CASE UNCHANGED jvars
      BY <3>0, <3>1 DEF jvars
    <3>2. CASE WritesWell
      BY <2>2, <3>0, <3>2 DEF WritesWell, Wrote, Keeps
    <3> QED BY <3>1, <3>2
  <2>4. canc[c].pc = "commit" /\ a \in S => ~live'[a]
    BY <1>2, <2>1 DEF Cancelling, Joining
  <2>5. canc[c].pc = "recheck" => IsDocker(a)
    BY <2>1 DEF Cancelling
  <2> QED BY <1>2, <2>3, <2>4, <2>5 DEF Cancelling, Unconfirmed, Tracked
<1> QED BY <1>1, <1>2

\* The target of a cancellation, before the step.
LEMMA TargetFacts ==
  ASSUME NEW S, AllInv(S), NEW c \in Cancellers, Unconfirmed(c)
  PROVE  /\ canc[c].target \in Attempts /\ mode = "up"
         /\ rec[canc[c].target].cancelRequested
         /\ st[canc[c].target].cancelRequested
         /\ canc[c].knownUnstarted => rec[canc[c].target].knownUnstarted
  BY DEF Unconfirmed, AllInv, LiveInv, Cancelling, ReservationInv, Joining,
         ExecutorInv, CancelsHaveTargets

\* A step that no cancellation notices.
LEMMA CancellersUndisturbed ==
  ASSUME NEW S, AllInv(S), WritesWell \/ UNCHANGED jvars, canc' = canc,
         \A a \in Attempts : st[a].cancelRequested /\ rec[a].cancelRequested =>
                               /\ st'[a].cancelRequested
                               /\ live'[a] => live[a] \/ ~DoneRunning(a)
  PROVE  \A c \in Cancellers : Cancelling(S, c)'
<1> SUFFICES ASSUME NEW c \in Cancellers PROVE Cancelling(S, c)'
  OBVIOUS
<1>1. Unconfirmed(c) =>
        LET a == canc[c].target IN
        /\ st'[a].cancelRequested
        /\ live'[a] => live[a] \/ ~DoneRunning(a)
  BY TargetFacts
<1> QED BY <1>1, CancellingKept

\* A step of b's goroutine, while it has not returned.
LEMMA RunnerGoesOn ==
  ASSUME NEW S, AllInv(S), WritesWell \/ UNCHANGED jvars, NEW b \in Attempts, Active(b),
         UNCHANGED <<mode, exec, canc, sent>>,
         \A a \in Attempts :
           a # b => /\ rec'[a] = rec[a] /\ disk'[a] = disk[a]
                    /\ runner'[a] = runner[a] /\ outcome'[a] = outcome[a]
                    /\ st'[a] = st[a] /\ (live'[a] => live[a]),
         workspaces \subseteq workspaces',
         st[b].cancelRequested => st'[b].cancelRequested
                                  /\ (st'[b].stopConfirmed => st[b].stopConfirmed),
         LiveOf(S, b)'
  PROVE  LiveInv(S)'
<1>1. ASSUME NEW a \in Attempts PROVE LiveOf(S, a)'
  <2>1. CASE a = b
    BY <2>1
  <2>2. CASE a # b
    <3>1. KeptBack(a) => KeptBack(a)'
      BY <2>2 DEF KeptBack
    <3>2. LiveOf(S, a)
      BY DEF AllInv, LiveInv
    <3> QED BY <2>2, <3>1, <3>2, LiveKept
  <2> QED BY <2>1, <2>2
<1>2. \A c \in Cancellers : Cancelling(S, c)'
  <2>1. \A a \in Attempts : Tracked(a) => Tracked(a)'
    BY DEF Tracked
  <2>2. ~DoneRunning(b)
    BY DEF Active, DoneRunning
  <2> QED BY <2>1, <2>2, CancellersUndisturbed
<1> QED BY <1>1, <1>2 DEF LiveInv

\* What a step of b's goroutine has to go by.
LEMMA RunnerFacts ==
  ASSUME NEW S, AllInv(S), NEW b \in Attempts, Active(b)
  PROVE  /\ mode = "up" /\ Tracked(b) /\ LiveOf(S, b)
         /\ Follows(b, rec[b]) /\ Follows(b, disk[b])
         /\ runner[b] \in {"admitted", "preparing", "run"} /\ b \in S => ~live[b]
         /\ b \notin sent
         /\ runner \in [Attempts -> Steps] /\ live \in [Attempts -> BOOLEAN]
         /\ st \in [Attempts -> Flags]
         /\ outcome \in [Attempts -> Results \cup {"none"}]
<1>1. AttemptInv(b) /\ LiveOf(S, b) /\ Told(b, rec[b])
  BY DEF AllInv, ReservationInv, LiveInv, ToldInv
<1>2. mode = "up" /\ Tracked(b) /\ rec[b].result = "none"
  BY <1>1 DEF AttemptInv, Tracking, Follows
<1>3. b \notin sent
  BY <1>1, <1>2 DEF Told
<1>4. runner[b] \in {"admitted", "preparing", "run"} /\ b \in S => ~live[b]
  BY <1>2, LiveFacts
<1> QED BY <1>1, <1>2, <1>3, <1>4 DEF AttemptInv, AllInv, ExecutorInv, TypeOK

LEMMA EarlyRunnerLives ==
  ASSUME NEW S, AllInv(S), WritesWell \/ UNCHANGED jvars, NEW b \in Attempts,
         RunnerEnters(b) \/ RunnerPrepareFails(b) \/ RunnerAssigns(b)
  PROVE  LiveInv(S)'
<1>1. Active(b) /\ runner[b] \in {"admitted", "preparing"}
  BY DEF RunnerEnters, RunnerPrepareFails, RunnerAssigns, Active
<1>2. /\ UNCHANGED <<mode, exec, canc, sent, live, st, workspaces>>
      /\ \A a \in Attempts : a # b => runner'[a] = runner[a] /\ outcome'[a] = outcome[a]
  BY <1>1, RunnerFacts DEF RunnerEnters, RunnerPrepareFails, RunnerAssigns, outside,
     GoTo, FinishWith
<1>3. \A a \in Attempts : a # b => rec'[a] = rec[a] /\ disk'[a] = disk[a]
  <2>1. CASE UNCHANGED jvars
    BY <2>1 DEF jvars
  <2>2. CASE RunnerEnters(b)
    BY <2>1, <2>2, RunningWrites DEF RunnerEnters, Wrote, AllInv, ExecutorInv
  <2>3. CASE RunnerAssigns(b)
    BY <2>1, <2>3, AssignWrites DEF RunnerAssigns, Wrote, AllInv, ExecutorInv
  <2> QED BY <2>1, <2>2, <2>3 DEF RunnerPrepareFails
<1>4. b \in S => ~live'[b]
  BY <1>1, <1>2, RunnerFacts
<1> QED BY <1>1, <1>2, <1>3, <1>4, RunnerGoesOn DEF LiveOf

LEMMA BackendStartLives ==
  ASSUME NEW S, AllInv(S), WritesWell \/ UNCHANGED jvars, NEW b \in Attempts, BackendStarts(b)
  PROVE  LiveInv(S)'
<1>1. /\ Active(b) /\ runner[b] = "run"
      /\ UNCHANGED <<mode, exec, canc, sent, st, workspaces, outcome>>
      /\ rec' = rec /\ disk' = disk
      /\ runner' = [runner EXCEPT ![b] = "running"]
      /\ live' = [live EXCEPT ![b] = TRUE]
  BY DEF BackendStarts, GoTo, jvars, Active
<1>2. /\ runner'[b] = "running"
      /\ \A a \in Attempts : a # b => runner'[a] = runner[a] /\ live'[a] = live[a]
  BY <1>1, RunnerFacts
<1>3. /\ Present(rec[b]) /\ Present(disk[b])
      /\ rec[b].phase = "running" /\ disk[b].phase = "running"
      /\ rec[b].runtime = RuntimeOf[b] /\ disk[b].runtime = RuntimeOf[b]
      /\ IsDocker(b) => rec[b].daemon /\ disk[b].daemon
      /\ rec[b].result = "none" /\ disk[b].result = "none"
      /\ ~rec[b].stopVerified /\ ~disk[b].stopVerified
  BY <1>1, RunnerFacts DEF Follows, Present, Active
<1>4. ~rec[b].knownUnstarted /\ ~disk[b].knownUnstarted
  <2>1. Valid(rec[b])
    BY <1>3 DEF AllInv, ToldInv, Backed
  <2>2. Valid(disk[b])
    BY <1>3 DEF AllInv, ExecutorInv, JournalInv, Openable, Recorded
  <2> QED BY <1>3, <2>1, <2>2 DEF Valid
<1>5. Unresolved(rec[b]) /\ Unresolved(disk[b])
  BY <1>3, <1>4 DEF Unresolved, Settled, NeverEntered, IsDocker
<1>6. b \notin sent
  BY <1>1, RunnerFacts
<1>7. LiveOf(S, b)'
  <2>1. Reported(b, rec[b])' /\ Reported(b, disk[b])'
    BY <1>1, <1>3, <1>5, <1>6
       DEF Reported, Unresolved, Present, Settled, NeverEntered
  <2>2. Going(b)'
    BY <1>2 DEF Going
  <2> QED BY <2>1, <2>2 DEF LiveOf
<1> QED BY <1>1, <1>2, <1>7, RunnerGoesOn

LEMMA RunReturnLives ==
  ASSUME NEW S, AllInv(S), WritesWell \/ UNCHANGED jvars, NEW b \in Attempts, RunReturns(b)
  PROVE  LiveInv(S)'
<1>1. /\ Active(b)
      /\ UNCHANGED <<mode, exec, canc, sent, st, workspaces>>
      /\ rec' = rec /\ disk' = disk
      /\ runner' = [runner EXCEPT ![b] = "returned"]
  BY DEF RunReturns, GoTo, jvars, Active
<1>2. PICK result \in Results :
        /\ outcome' = [outcome EXCEPT ![b] = result]
        /\ CASE RuntimeOf[b] = "ollama" ->
                  live' = [live EXCEPT ![b] = @ /\ result = "failure"]
             [] RuntimeOf[b] = "docker-custom" ->
                  live' \in {live, [live EXCEPT ![b] = FALSE]}
             [] RuntimeOf[b] = "workspace" ->
                  IF result = "success"
                    THEN live[b] /\ UNCHANGED live
                    ELSE live' \in {live, [live EXCEPT ![b] = FALSE]}
  BY DEF RunReturns
<1>3. \A a \in Attempts : live'[a] => live[a]
  <2>1. RuntimeOf[b] \in {"ollama", "docker-custom", "workspace"}
    BY JournalAssumption DEF Runtimes
  <2> QED BY <1>1, <1>2, <2>1, RunnerFacts
<1>4. RuntimeOf[b] = "ollama" /\ live'[b] => result = "failure"
  BY <1>1, <1>2, RunnerFacts
<1>5. /\ runner'[b] = "returned" /\ outcome'[b] = result
      /\ \A a \in Attempts : a # b => runner'[a] = runner[a] /\ outcome'[a] = outcome[a]
  BY <1>1, <1>2, RunnerFacts
<1>6. LiveOf(S, b)'
  <2>1. b \in S /\ live'[b] => Reported(b, rec[b])' /\ Reported(b, disk[b])'
    BY <1>1, <1>3, RunnerFacts
       DEF LiveOf, Reported, Unresolved, Present, Settled, NeverEntered
  <2>2. b \in S /\ live'[b] => Going(b)'
    BY <1>4, <1>5 DEF Going
  <2> QED BY <2>1, <2>2 DEF LiveOf
<1> QED BY <1>1, <1>3, <1>5, <1>6, RunnerGoesOn

LEMMA SettleLives ==
  ASSUME NEW S, AllInv(S), WritesWell \/ UNCHANGED jvars, NEW b \in Attempts, RunnerSettles(b)
  PROVE  LiveInv(S)'
<1>1. /\ Active(b) /\ runner[b] = "returned"
      /\ UNCHANGED <<mode, exec, canc, sent>>
      /\ rec' = rec /\ disk' = disk
      /\ runner' = [runner EXCEPT ![b] = "finishing"]
  BY DEF RunnerSettles, GoTo, jvars, Active
<1>2. /\ \A a \in Attempts : live'[a] => live[a]
      /\ workspaces \subseteq workspaces'
      /\ st' = st \/ st' = [st EXCEPT ![b].stopUnverified = TRUE]
      /\ \A a \in Attempts : a # b => outcome'[a] = outcome[a]
  BY <1>1, RunnerFacts DEF RunnerSettles, Remove
<1>3. b \in S /\ live'[b] => KeptBack(b)'
  <2>1. CASE RuntimeOf[b] = "workspace" /\ JobOf[b] \in workspaces'
    BY <2>1 DEF KeptBack
  <2>2. CASE st' = [st EXCEPT ![b].stopUnverified = TRUE]
    BY <1>1, <2>2, RunnerFacts DEF KeptBack, Flags
  <2>3. CASE RuntimeOf[b] = "ollama" /\ outcome[b] = "success"
    BY <1>1, <1>2, <2>3, RunnerFacts DEF LiveOf, Going
  <2>4. CASE IsDocker(b) /\ Remove(JobOf[b], FALSE)
    <3>1. exec[JobOf[b]] = b /\ b # NoAttempt
      BY <1>1, RunnerFacts, ExecutorAssumption DEF Tracked
    <3> QED BY <1>1, <2>4, <3>1, RunnerFacts DEF Remove
  <2> QED BY <2>1, <2>2, <2>3, <2>4 DEF RunnerSettles
<1>4. /\ runner'[b] = "finishing"
      /\ \A a \in Attempts : a # b => runner'[a] = runner[a] /\ st'[a] = st[a]
      /\ st[b].cancelRequested => st'[b].cancelRequested
      /\ st'[b].stopConfirmed => st[b].stopConfirmed
  BY <1>1, <1>2, RunnerFacts DEF Flags
<1>5. LiveOf(S, b)'
  <2>1. b \in S /\ live'[b] => Reported(b, rec[b])' /\ Reported(b, disk[b])'
    BY <1>1, <1>2, RunnerFacts
       DEF LiveOf, Reported, Unresolved, Present, Settled, NeverEntered
  <2>2. b \in S /\ live'[b] => Going(b)'
    BY <1>3, <1>4 DEF Going
  <2> QED BY <2>1, <2>2 DEF LiveOf
<1> QED BY <1>1, <1>2, <1>4, <1>5, RunnerGoesOn

LEMMA FinishLives ==
  ASSUME NEW S, AllInv(S), WritesWell \/ UNCHANGED jvars, NEW b \in Attempts, RunnerFinishes(b)
  PROVE  LiveInv(S)'
<1>1. /\ Active(b) /\ runner[b] = "finishing"
      /\ UNCHANGED <<mode, exec, outcome, workspaces, canc, live, sent>>
      /\ runner' = [runner EXCEPT ![b] = "done"]
  BY DEF RunnerFinishes, GoTo, outside, Active
<1>2. PICK ok \in BOOLEAN :
        /\ Complete(b, outcome[b], StoppedByRunner(b), ok)
        /\ st' = IF ~ok THEN [st EXCEPT ![b].stopUnverified = TRUE]
                 ELSE IF StoppedByRunner(b)
                   THEN [st EXCEPT ![b] = [@ EXCEPT !.stopConfirmed = TRUE, !.held = FALSE]]
                   ELSE st
  BY DEF RunnerFinishes
<1>3. b \in S /\ live[b] => ~StoppedByRunner(b)
  BY <1>1, RunnerFacts DEF LiveOf, Going, KeptBack, StoppedByRunner
<1>4. /\ runner'[b] = "done"
      /\ \A a \in Attempts : a # b => runner'[a] = runner[a] /\ st'[a] = st[a]
      /\ st[b].cancelRequested => /\ st'[b].cancelRequested
                                  /\ st'[b].stopConfirmed => st[b].stopConfirmed
  <2>1. st[b].cancelRequested => ~StoppedByRunner(b)
    BY DEF StoppedByRunner
  <2> QED BY <1>1, <1>2, <2>1, RunnerFacts DEF Flags
<1>5. outcome[b] \in Results \cup {"none"} /\ StoppedByRunner(b) \in BOOLEAN
      /\ outcome[b] # "none"
  BY <1>1, RunnerFacts DEF StoppedByRunner, AllInv, ReservationInv, AttemptInv, Tracking
<1>6. /\ b \in S /\ live'[b] => Reported(b, rec[b])' /\ Reported(b, disk[b])'
      /\ \A a \in Attempts : a # b => rec'[a] = rec[a] /\ disk'[a] = disk[a]
  <2>1. CASE UNCHANGED jvars
    BY <1>1, <2>1, RunnerFacts
       DEF LiveOf, Reported, Unresolved, Present, Settled, NeverEntered, jvars
  <2>2. ASSUME NEW r \in Record, Wrote(b, r, ok),
               Completes(r, rec[b], outcome[b], StoppedByRunner(b))
        PROVE  /\ b \in S /\ live'[b] => Reported(b, rec[b])' /\ Reported(b, disk[b])'
               /\ \A a \in Attempts : a # b => rec'[a] = rec[a] /\ disk'[a] = disk[a]
    <3>1. b \in S /\ live[b] => Reported(b, r)
      <4> SUFFICES ASSUME b \in S, live[b] PROVE Reported(b, r)
        OBVIOUS
      <4>1. Unresolved(rec[b]) /\ ~StoppedByRunner(b) /\ b \notin sent
        BY <1>1, <1>3, LiveFacts, RunnerFacts
      <4>2. /\ r.runtime = rec[b].runtime /\ r.daemon = rec[b].daemon
            /\ r.knownUnstarted = rec[b].knownUnstarted
            /\ r.phase = "finished" /\ ~r.stopVerified
        BY <2>2, <4>1 DEF Completes, SameAdmission
      <4>3. Unresolved(r)
        BY <4>1, <4>2 DEF Unresolved, Settled, NeverEntered, Present
      <4>4. ~r.replayBlocked => RuntimeOf[b] = "workspace" /\ r.result = "success"
        <5>1. rec[b].runtime = RuntimeOf[b]
          BY <1>1, RunnerFacts DEF Follows
        <5> QED BY <2>2, <4>1, <5>1 DEF Completes, Unresolved, NeverEntered
      <4> QED BY <4>1, <4>3, <4>4 DEF Reported
    <3>2. b \in S /\ live'[b] => Reported(b, rec[b])' /\ Reported(b, disk[b])'
      BY <1>1, <2>2, <3>1, RunnerFacts, ReportedKept
    <3> QED BY <2>2, <3>2 DEF Wrote
  <2> QED BY <1>2, <1>5, <2>1, <2>2, CompleteWrites DEF AllInv, ExecutorInv
<1>7. LiveOf(S, b)'
  BY <1>4, <1>6 DEF LiveOf, Going
<1> QED BY <1>1, <1>4, <1>6, <1>7, RunnerGoesOn

-----------------------------------------------------------------------------
(* Steps of the pool client and of the work itself.                          *)

\* A step that leaves the goroutines and the flags alone, and b's record in
\* order; it may forget executions that owe nothing.
LEMMA ClientLives ==
  ASSUME NEW S, AllInv(S), WritesWell \/ UNCHANGED jvars, NEW b \in Attempts,
         UNCHANGED <<mode, st, runner, outcome, workspaces, canc>>,
         \A a \in Attempts : live'[a] => live[a],
         \A a \in Attempts :
           a # b => /\ rec'[a] = rec[a] /\ disk'[a] = disk[a]
                    /\ a \in sent' => a \in sent,
         exec' = exec \/ \E j \in Jobs : ForgetExecution(j),
         b \in S /\ live'[b] => Reported(b, rec[b])' /\ Reported(b, disk[b])'
  PROVE  LiveInv(S)'
<1>1. ASSUME NEW a \in Attempts PROVE LiveOf(S, a)'
  <2>0. LiveOf(S, a) /\ (KeptBack(a) => KeptBack(a)')
    BY DEF AllInv, LiveInv, KeptBack
  <2>1. CASE a # b
    BY <2>0, <2>1, LiveKept
  <2>2. CASE a = b
    <3>1. b \in S /\ live'[b] => Going(b)'
      BY <2>0, <2>2 DEF LiveOf, Going, KeptBack
    <3> QED BY <2>2, <3>1 DEF LiveOf
  <2> QED BY <2>1, <2>2
<1>2. \A c \in Cancellers : Cancelling(S, c)'
  <2>1. ASSUME NEW a \in Attempts, st[a].cancelRequested, ~st[a].stopConfirmed,
               Tracked(a)
        PROVE  Tracked(a)'
    <3>0. exec \in [Jobs -> Attempts \cup {NoAttempt}] /\ JobOf[a] \in Jobs
      BY ExecutorAssumption DEF AllInv, ExecutorInv, TypeOK
    <3>1. ASSUME NEW j \in Jobs, Forgettable(j) PROVE exec[j] # a
      BY <2>1, <3>1 DEF Forgettable
    <3>2. ASSUME NEW j \in Jobs, ForgetExecution(j) PROVE exec'[JobOf[a]] = exec[JobOf[a]]
      <4>1. CASE Forgettable(j)
        <5>1. exec' = [exec EXCEPT ![j] = NoAttempt] /\ j # JobOf[a]
          BY <2>1, <3>1, <3>2, <4>1 DEF ForgetExecution, Tracked
        <5> QED BY <3>0, <5>1
      <4> QED BY <3>2, <4>1 DEF ForgetExecution
    <3> QED BY <2>1, <3>2 DEF Tracked
  <2> QED BY <2>1, CancellersUndisturbed
<1> QED BY <1>1, <1>2 DEF LiveInv

\* An admission is never one of an attempt that works.
LEMMA AdmissibleIsIdle ==
  ASSUME NEW S, AllInv(S), NEW b \in Attempts, Admissible(b)
  PROVE  b \in S => ~live[b]
  BY LiveFacts DEF Admissible

LEMMA AdmitMoves ==
  ASSUME NEW S, AllInv(S), NEW b \in Attempts, NEW ok \in BOOLEAN, Admit(b, ok)
  PROVE  \A a \in Attempts : a # b => rec'[a] = rec[a] /\ disk'[a] = disk[a]
<1>1. CASE UNCHANGED jvars
  BY <1>1 DEF jvars
<1> QED BY <1>1, AdmitWrites DEF Wrote, AllInv, ExecutorInv

LEMMA DeferLives ==
  ASSUME NEW S, AllInv(S), WritesWell \/ UNCHANGED jvars, NEW b \in Attempts, Defer(b)
  PROVE  LiveInv(S)'
<1>1. (b \in S => ~live[b]) /\ UNCHANGED <<mode, process, outside>>
  BY AdmissibleIsIdle DEF Defer
<1>2. \A a \in Attempts : a # b => rec'[a] = rec[a] /\ disk'[a] = disk[a]
  BY AdmitMoves DEF Defer
<1> QED BY <1>1, <1>2, ClientLives DEF process, outside

LEMMA StartLives ==
  ASSUME NEW S, AllInv(S), WritesWell \/ UNCHANGED jvars, NEW b \in Attempts, Start(b)
  PROVE  LiveInv(S)'
<1>1. /\ b \in S => ~live[b]
      /\ exec[JobOf[b]] = NoAttempt /\ Admissible(b)
      /\ UNCHANGED <<mode, outcome, workspaces, canc, outside>>
  BY AdmissibleIsIdle DEF Start
<1>2. \A a \in Attempts : a # b => rec'[a] = rec[a] /\ disk'[a] = disk[a]
  BY AdmitMoves DEF Start
<1>3. /\ \A a \in Attempts : a # b => st'[a] = st[a] /\ runner'[a] = runner[a]
      /\ \A j \in Jobs : exec[j] # NoAttempt => exec'[j] = exec[j]
  <2>1. /\ st \in [Attempts -> Flags] /\ runner \in [Attempts -> Steps]
        /\ exec \in [Jobs -> Attempts \cup {NoAttempt}]
    BY DEF AllInv, ExecutorInv, TypeOK
  <2> QED BY <1>1, <2>1 DEF Start
<1>4. ASSUME NEW a \in Attempts PROVE LiveOf(S, a)'
  <2>1. CASE a = b
    BY <1>1, <2>1 DEF LiveOf, outside
  <2>2. CASE a # b
    <3>1. KeptBack(a) => KeptBack(a)'
      BY <1>1, <1>3, <2>2 DEF KeptBack
    <3>2. LiveOf(S, a)
      BY DEF AllInv, LiveInv
    <3> QED BY <1>1, <1>2, <1>3, <2>2, <3>1, <3>2, LiveKept DEF outside
  <2> QED BY <2>1, <2>2
<1>5. \A c \in Cancellers : Cancelling(S, c)'
  <2>1. ASSUME NEW a \in Attempts, rec[a].cancelRequested, st[a].cancelRequested
        PROVE  st'[a] = st[a] /\ (Tracked(a) => Tracked(a)')
    <3>1. CASE a = b
      <4>1. ~Present(rec[b])
        BY <1>1, <2>1, <3>1 DEF Admissible
      <4>2. rec[b] = NoRecord
        BY <4>1 DEF AllInv, ExecutorInv, JournalInv, AbsentIsFresh
      <4> QED BY <2>1, <3>1, <4>2 DEF NoRecord
    <3>2. CASE a # b
      BY <1>3, <3>2, ExecutorAssumption DEF Tracked
    <3> QED BY <3>1, <3>2
  <2> QED BY <1>1, <2>1, CancellersUndisturbed DEF outside
<1> QED BY <1>4, <1>5 DEF LiveInv

LEMMA EndLives ==
  ASSUME NEW S, AllInv(S), WritesWell \/ UNCHANGED jvars, NEW b \in Attempts, BackendEnds(b)
  PROVE  LiveInv(S)'
<1>1. /\ UNCHANGED <<mode, process, sent>> /\ rec' = rec /\ disk' = disk
      /\ live' = [live EXCEPT ![b] = FALSE] /\ live \in [Attempts -> BOOLEAN]
  BY DEF BackendEnds, jvars, AllInv, ExecutorInv, TypeOK
<1>2. ~live'[b] /\ \A a \in Attempts : live'[a] => live[a]
  BY <1>1
<1> QED BY <1>1, <1>2, ClientLives DEF process

\* A result that is sent of a working attempt says that its workspace runs.
LEMMA SendLives ==
  ASSUME NEW S, AllInv(S), WritesWell \/ UNCHANGED jvars, NEW b \in Attempts, SendResult(b)
  PROVE  LiveInv(S)'
<1>1. /\ UNCHANGED <<mode, process, live>> /\ rec' = rec /\ disk' = disk
      /\ sent' = sent \cup {b} /\ mode = "up"
      /\ rec[b].result # "none" /\ ~rec[b].replayBlocked
  BY DEF SendResult, jvars
<1>2. disk[b].result = rec[b].result
  BY <1>1 DEF AllInv, ToldInv, Backed
<1>3. b \in S /\ live'[b] => Reported(b, rec[b])' /\ Reported(b, disk[b])'
  <2>1. LiveOf(S, b)
    BY DEF AllInv, LiveInv
  <2> QED BY <1>1, <1>2, <2>1
          DEF LiveOf, Reported, Unresolved, Present, Settled, NeverEntered
<1> QED BY <1>1, <1>3, ClientLives DEF process

LEMMA RejectLives ==
  ASSUME NEW S, AllInv(S), WritesWell \/ UNCHANGED jvars, NEW b \in Attempts, RejectAttempt(b)
  PROVE  LiveInv(S)'
<1>1. (b \in S => ~live[b]) /\ UNCHANGED <<mode, process, outside>>
  BY LiveFacts DEF RejectAttempt
<1>2. \A a \in Attempts : a # b => rec'[a] = rec[a] /\ disk'[a] = disk[a]
  <2>1. CASE UNCHANGED jvars
    BY <2>1 DEF jvars
  <2>2. "failure" \in Results
    BY DEF Results
  <2> QED BY <2>1, <2>2, ResultWrites
          DEF RejectAttempt, Wrote, AllInv, ExecutorInv
<1> QED BY <1>1, <1>2, ClientLives DEF process, outside

\* A call that changes nothing of what is reported.
LEMMA ReportUnchanged ==
  ASSUME NEW S, NEW b \in Attempts, UNCHANGED jvars, LiveOf(S, b), live'[b] => live[b],
         b \in sent' => b \in sent
  PROVE  b \in S /\ live'[b] => Reported(b, rec[b])' /\ Reported(b, disk[b])'
  BY DEF LiveOf, Reported, Unresolved, Present, Settled, NeverEntered, jvars

LEMMA AcknowledgeLives ==
  ASSUME NEW S, AllInv(S), WritesWell \/ UNCHANGED jvars, NEW b \in Attempts,
         AcknowledgeResult(b)
  PROVE  LiveInv(S)'
<1>1. PICK ok \in BOOLEAN :
        Accept(b, ok) /\ (exec' = exec \/ ForgetExecution(JobOf[b]))
  BY DEF AcknowledgeResult
<1>2. UNCHANGED <<mode, st, runner, outcome, workspaces, canc, live, sent>>
      /\ LiveOf(S, b) /\ JobOf[b] \in Jobs
  BY ExecutorAssumption DEF AcknowledgeResult, outside, AllInv, LiveInv
<1>3. /\ b \in S /\ live'[b] => Reported(b, rec[b])' /\ Reported(b, disk[b])'
      /\ \A a \in Attempts : a # b => rec'[a] = rec[a] /\ disk'[a] = disk[a]
  <2>1. CASE UNCHANGED jvars
    BY <1>2, <2>1, ReportUnchanged DEF jvars
  <2>2. ASSUME NEW r \in Record,
               Wrote(b, r, ok), SameAdmission(r, rec[b]), SameProgress(r, rec[b]),
               r.result = rec[b].result, r.stopVerified = rec[b].stopVerified,
               r.replayBlocked = rec[b].replayBlocked
        PROVE  /\ b \in S /\ live'[b] => Reported(b, rec[b])' /\ Reported(b, disk[b])'
               /\ \A a \in Attempts : a # b => rec'[a] = rec[a] /\ disk'[a] = disk[a]
    <3>1. b \in S /\ live[b] => Reported(b, r)
      BY <1>2, <2>2 DEF LiveOf, Reported, Unresolved, Present, Settled, NeverEntered,
                        SameAdmission, SameProgress
    <3>2. b \in S /\ live'[b] => Reported(b, rec[b])' /\ Reported(b, disk[b])'
      BY <1>2, <2>2, <3>1, ReportedKept
    <3> QED BY <2>2, <3>2 DEF Wrote
  <2> QED BY <1>1, <2>1, <2>2, AcceptWrites DEF AllInv, ExecutorInv
<1> QED BY <1>1, <1>2, <1>3, ClientLives

\* A cancellation does not make a working attempt provably unstarted.
LEMMA CancellationReports ==
  ASSUME NEW S, AllInv(S), NEW b \in Attempts, NEW ok \in BOOLEAN,
         RememberCancellation(b, ok), live'[b] => live[b], sent' = sent
  PROVE  /\ b \in S /\ live'[b] => Reported(b, rec[b])' /\ Reported(b, disk[b])'
         /\ \A a \in Attempts : a # b => rec'[a] = rec[a] /\ disk'[a] = disk[a]
<1>0. LiveOf(S, b)
  BY DEF AllInv, LiveInv
<1>1. CASE UNCHANGED jvars
  BY <1>0, <1>1, ReportUnchanged DEF jvars
<1>2. CASE Wrote(b, Cancelled(b), ok) /\ Cancels(Cancelled(b), rec[b])
  <2>1. b \in S /\ live[b] => Reported(b, Cancelled(b))
    <3> SUFFICES ASSUME b \in S, live[b] PROVE Reported(b, Cancelled(b))
      OBVIOUS
    <3>1. Unresolved(rec[b]) /\ Reported(b, rec[b])
      BY <1>0 DEF LiveOf, Reported
    <3>2. /\ Cancelled(b).phase = rec[b].phase
          /\ Cancelled(b).knownUnstarted = rec[b].knownUnstarted
      BY <1>2, <3>1 DEF Cancels, Unresolved, NeverEntered, Present
    <3> QED BY <1>2, <3>1, <3>2
            DEF Reported, Unresolved, Present, Settled, NeverEntered, Cancels,
                SameAdmission, SameVerdict
  <2>2. b \in S /\ live'[b] => Reported(b, rec[b])' /\ Reported(b, disk[b])'
    BY <1>0, <1>2, <2>1, ReportedKept
  <2> QED BY <1>2, <2>2 DEF Wrote
<1> QED BY <1>1, <1>2, CancellationWrites DEF AllInv, ExecutorInv

LEMMA RememberCancelLives ==
  ASSUME NEW S, AllInv(S), WritesWell \/ UNCHANGED jvars, NEW b \in Attempts, RememberCancel(b)
  PROVE  LiveInv(S)'
<1>1. /\ UNCHANGED <<mode, process, live, sent>>
      /\ \E ok \in BOOLEAN : RememberCancellation(b, ok)
  BY DEF RememberCancel
<1>2. /\ b \in S /\ live'[b] => Reported(b, rec[b])' /\ Reported(b, disk[b])'
      /\ \A a \in Attempts : a # b => rec'[a] = rec[a] /\ disk'[a] = disk[a]
  BY <1>1, CancellationReports
<1> QED BY <1>1, <1>2, ClientLives DEF process

-----------------------------------------------------------------------------
(* Cancellations.                                                            *)

\* A cancellation moves on; the others and the goroutines do not.
LEMMA CancelLives ==
  ASSUME NEW S, AllInv(S), UNCHANGED jvars, NEW c \in Cancellers,
         UNCHANGED <<mode, st, runner, outcome, workspaces, sent>>,
         \A a \in Attempts : live'[a] => live[a],
         \A d \in Cancellers : d # c => canc'[d] = canc[d],
         exec' = exec \/ (~Unconfirmed(c) /\ \E j \in Jobs : ForgetExecution(j)),
         Cancelling(S, c)'
  PROVE  LiveInv(S)'
<1>1. ASSUME NEW a \in Attempts PROVE LiveOf(S, a)'
  <2>1. LiveOf(S, a) /\ (KeptBack(a) => KeptBack(a)')
    BY DEF AllInv, LiveInv, KeptBack
  <2> QED BY <2>1, LiveKept DEF jvars
<1>2. ASSUME NEW d \in Cancellers, d # c PROVE Cancelling(S, d)'
  <2>1. ASSUME Unconfirmed(d)
        PROVE  LET a == canc[d].target IN
               /\ st'[a].cancelRequested
               /\ live'[a] => live[a] \/ ~DoneRunning(a)
    BY <2>1, TargetFacts
  <2> QED BY <1>2, <2>1, CancellingKept
<1> QED BY <1>1, <1>2 DEF LiveInv

\* The target of a cancellation is idle once its container is gone or it is not
\* tracked any more.
LEMMA RemovalEnds ==
  ASSUME NEW S, AllInv(S), NEW b \in Attempts, mode = "up", IsDocker(b),
         Remove(JobOf[b], FALSE), b \in S
  PROVE  ~live'[b]
<1>0. live \in [Attempts -> BOOLEAN] /\ b # NoAttempt
  BY ExecutorAssumption DEF AllInv, ExecutorInv, TypeOK
<1>1. CASE Tracked(b)
  BY <1>0, <1>1 DEF Remove, Tracked
<1>2. CASE ~Tracked(b)
  <2>1. ~live[b]
    BY <1>2, LiveFacts
  <2>2. \/ live' = live
        \/ live' = [live EXCEPT ![exec[JobOf[b]]] = FALSE]
    BY DEF Remove
  <2> QED BY <1>0, <2>1, <2>2
<1> QED BY <1>1, <1>2

LEMMA RemoveOnlyEnds ==
  ASSUME NEW S, AllInv(S), NEW j, NEW failed, Remove(j, failed)
  PROVE  \A a \in Attempts : live'[a] => live[a]
  BY DEF Remove, AllInv, ExecutorInv, TypeOK

LEMMA CancelStepLives ==
  ASSUME NEW S, AllInv(S), NEW c \in Cancellers,
         \/ CancelRemoves(c) \/ CancelJoins(c) \/ CancelTimesOut(c)
         \/ CancelRechecks(c) \/ CancelReturns(c)
  PROVE  LiveInv(S)'
<1>1. /\ UNCHANGED jvars /\ UNCHANGED <<mode, st, runner, outcome, workspaces, sent>>
      /\ canc[c].pc # "idle" /\ canc \in [Cancellers -> Cancellation]
      /\ canc[c] \in Cancellation
  BY DEF CancelRemoves, CancelJoins, CancelTimesOut, CancelRechecks, CancelReturns,
         outside, AllInv, ExecutorInv, TypeOK
<1> PICK b \in Attempts : b = canc[c].target
  BY <1>1 DEF AllInv, ExecutorInv, CancelsHaveTargets
<1>2. ASSUME canc' = [canc EXCEPT ![c] = NotCancelling]
      PROVE  Cancelling(S, c)'
  BY <1>1, <1>2 DEF NotCancelling, Cancelling, Unconfirmed
<1>3. /\ Unconfirmed(c) => /\ Cancelling(S, c) /\ mode = "up" /\ st[b].cancelRequested
      /\ rec' = rec /\ disk' = disk
  BY <1>1, TargetFacts DEF AllInv, LiveInv, jvars
<1>4. CASE CancelRemoves(c)
  <2>1. PICK failed \in BOOLEAN :
          /\ Remove(JobOf[b], failed)
          /\ canc' = [canc EXCEPT ![c] = [canc[c] EXCEPT !.pc = "wait",
                                                         !.failed = failed]]
    BY <1>4 DEF CancelRemoves
  <2>2. /\ canc'[c].pc = "wait" /\ canc'[c].target = b
        /\ canc'[c].knownUnstarted = canc[c].knownUnstarted
        /\ \A d \in Cancellers : d # c => canc'[d] = canc[d]
    BY <1>1, <2>1 DEF Cancellation
  <2>3. exec' = exec /\ Unconfirmed(c)
    BY <1>4 DEF CancelRemoves, Unconfirmed
  <2>4. Cancelling(S, c)'
    BY <1>1, <1>3, <2>2, <2>3 DEF Cancelling, Unconfirmed, Tracked
  <2> QED BY <1>1, <2>1, <2>2, <2>3, <2>4, RemoveOnlyEnds, CancelLives
<1>5. CASE CancelJoins(c)
  <2>1. /\ exec' = exec /\ live' = live /\ Unconfirmed(c)
        /\ \/ canc' = [canc EXCEPT ![c] = NotCancelling]
           \/ /\ canc' = [canc EXCEPT ![c] = [canc[c] EXCEPT !.pc = "commit"]]
              /\ canc[c].knownUnstarted
           \/ /\ canc' = [canc EXCEPT ![c] = [canc[c] EXCEPT !.pc = "recheck"]]
              /\ IsDocker(b)
    BY <1>5 DEF CancelJoins, outside, Unconfirmed, Verifiable
  <2>2. \A d \in Cancellers : d # c => canc'[d] = canc[d]
    BY <1>1, <2>1
  <2>3. canc[c].knownUnstarted /\ b \in S => ~live[b]
    BY <1>3, <2>1, LiveFacts, TargetFacts
  <2>4. Cancelling(S, c)'
    <3>1. CASE canc' = [canc EXCEPT ![c] = [canc[c] EXCEPT !.pc = "commit"]]
               /\ canc[c].knownUnstarted
      <4>1. /\ canc'[c].pc = "commit" /\ canc'[c].target = b
            /\ canc'[c].knownUnstarted = canc[c].knownUnstarted
        BY <1>1, <3>1 DEF Cancellation
      <4> QED BY <1>1, <1>3, <2>1, <2>3, <3>1, <4>1
              DEF Cancelling, Unconfirmed, Tracked
    <3>2. CASE canc' = [canc EXCEPT ![c] = [canc[c] EXCEPT !.pc = "recheck"]]
               /\ IsDocker(b)
      <4>1. /\ canc'[c].pc = "recheck" /\ canc'[c].target = b
            /\ canc'[c].knownUnstarted = canc[c].knownUnstarted
        BY <1>1, <3>2 DEF Cancellation
      <4> QED BY <1>1, <1>3, <2>1, <3>2, <4>1 DEF Cancelling, Unconfirmed, Tracked
    <3> QED BY <1>2, <2>1, <3>1, <3>2
  <2> QED BY <1>1, <2>1, <2>2, <2>4, CancelLives
<1>6. CASE CancelTimesOut(c)
  <2>1. /\ exec' = exec /\ live' = live
        /\ canc' = [canc EXCEPT ![c] = NotCancelling]
    BY <1>6 DEF CancelTimesOut, outside
  <2>2. \A d \in Cancellers : d # c => canc'[d] = canc[d]
    BY <1>1, <2>1
  <2> QED BY <1>1, <1>2, <2>1, <2>2, CancelLives
<1>7. CASE CancelRechecks(c)
  <2>1. PICK failed \in BOOLEAN :
          /\ Remove(JobOf[b], failed)
          /\ \/ canc' = [canc EXCEPT ![c] = NotCancelling]
             \/ /\ canc' = [canc EXCEPT ![c] = [canc[c] EXCEPT !.pc = "commit"]]
                /\ ~failed
    BY <1>7 DEF CancelRechecks
  <2>2. exec' = exec /\ Unconfirmed(c) /\ canc[c].pc = "recheck"
    BY <1>7 DEF CancelRechecks, Unconfirmed
  <2>3. \A d \in Cancellers : d # c => canc'[d] = canc[d]
    BY <1>1, <2>1
  <2>4. Cancelling(S, c)'
    <3>1. CASE canc' = [canc EXCEPT ![c] = [canc[c] EXCEPT !.pc = "commit"]] /\ ~failed
      <4>1. /\ canc'[c].pc = "commit" /\ canc'[c].target = b
            /\ canc'[c].knownUnstarted = canc[c].knownUnstarted
        BY <1>1, <3>1 DEF Cancellation
      <4>2. b \in S => ~live'[b]
        <5>1. IsDocker(b) /\ mode = "up" /\ failed = FALSE
          BY <1>3, <2>2, <3>1 DEF Cancelling
        <5> QED BY <2>1, <5>1, RemovalEnds
      <4> QED BY <1>1, <1>3, <2>2, <4>1, <4>2 DEF Cancelling, Unconfirmed, Tracked
    <3> QED BY <1>2, <2>1, <3>1
  <2> QED BY <1>1, <2>1, <2>2, <2>3, <2>4, RemoveOnlyEnds, CancelLives
<1>8. CASE CancelReturns(c)
  <2>1. /\ exec' = exec \/ ForgetExecution(JobOf[b])
        /\ live' = live /\ canc[c].pc = "return"
        /\ canc' = [canc EXCEPT ![c] = NotCancelling]
    BY <1>8 DEF CancelReturns, outside
  <2>2. /\ \A d \in Cancellers : d # c => canc'[d] = canc[d]
        /\ ~Unconfirmed(c) /\ JobOf[b] \in Jobs
    BY <1>1, <2>1, ExecutorAssumption DEF Unconfirmed
  <2> QED BY <1>1, <1>2, <2>1, <2>2, CancelLives
<1> QED BY <1>4, <1>5, <1>6, <1>7, <1>8

LEMMA CancelBeginLives ==
  ASSUME NEW S, AllInv(S), WritesWell \/ UNCHANGED jvars, NEW c \in Cancellers,
         NEW b \in Attempts, CancelBegins(c, b)
  PROVE  LiveInv(S)'
<1>1. /\ mode = "up" /\ canc[c].pc = "idle" /\ Tracked(b)
      /\ UNCHANGED <<mode, todo, exec, runner, outcome, workspaces, live, runs, sent>>
      /\ st \in [Attempts -> Flags] /\ canc \in [Cancellers -> Cancellation]
  BY DEF CancelBegins, AllInv, ExecutorInv, TypeOK
<1> DEFINE known == Cancelled(b).knownUnstarted
<1>2. PICK ok \in BOOLEAN :
        /\ RememberCancellation(b, ok)
        /\ \/ UNCHANGED <<st, canc>>
           \/ /\ canc' = [canc EXCEPT ![c] = [NotCancelling EXCEPT
                                                !.pc = "return", !.target = b]]
              /\ UNCHANGED st
           \/ /\ ok /\ ~st[b].stopConfirmed
              /\ st' = [st EXCEPT ![b].cancelRequested = TRUE]
              /\ \E pc \in {"remove", "wait"} :
                   canc' = [canc EXCEPT ![c] =
                     [pc |-> pc, target |-> b, knownUnstarted |-> known,
                      failed |-> FALSE]]
  BY DEF CancelBegins
<1>3. /\ b \in S /\ live'[b] => Reported(b, rec[b])' /\ Reported(b, disk[b])'
      /\ \A a \in Attempts : a # b => rec'[a] = rec[a] /\ disk'[a] = disk[a]
  BY <1>1, <1>2, CancellationReports
<1>4. \A a \in Attempts : /\ st[a].cancelRequested => st'[a].cancelRequested
                          /\ st'[a].stopConfirmed = st[a].stopConfirmed
                          /\ st'[a].stopUnverified = st[a].stopUnverified
  BY <1>1, <1>2 DEF Flags
<1>5. ASSUME NEW a \in Attempts PROVE LiveOf(S, a)'
  <2>0. LiveOf(S, a) /\ (KeptBack(a) => KeptBack(a)')
    BY <1>1, <1>4 DEF AllInv, LiveInv, KeptBack
  <2>1. CASE a # b
    BY <1>1, <1>3, <2>0, <2>1, LiveKept
  <2>2. CASE a = b
    <3>1. b \in S /\ live'[b] => Going(b)'
      BY <1>1, <2>0, <2>2 DEF LiveOf, Going
    <3> QED BY <1>3, <2>2, <3>1 DEF LiveOf
  <2> QED BY <2>1, <2>2
<1>6. ASSUME NEW d \in Cancellers, canc'[d] = canc[d] PROVE Cancelling(S, d)'
  <2>1. ASSUME Unconfirmed(d)
        PROVE  LET a == canc[d].target IN
               /\ st'[a].cancelRequested
               /\ live'[a] => live[a] \/ ~DoneRunning(a)
    BY <1>1, <1>4, <1>6, <2>1, TargetFacts DEF Tracked
  <2> QED BY <1>6, <2>1, CancellingKept
<1>7. ASSUME canc'[c] # canc[c] PROVE Cancelling(S, c)'
  <2>1. CASE canc' = [canc EXCEPT ![c] = [NotCancelling EXCEPT
                                            !.pc = "return", !.target = b]]
    <3>1. canc'[c] = [NotCancelling EXCEPT !.pc = "return", !.target = b]
      BY <1>1, <2>1
    <3> QED BY <3>1 DEF NotCancelling, Cancelling, Unconfirmed
  <2>2. ASSUME NEW pc \in {"remove", "wait"},
               ok, ~st[b].stopConfirmed,
               st' = [st EXCEPT ![b].cancelRequested = TRUE],
               canc' = [canc EXCEPT ![c] =
                 [pc |-> pc, target |-> b, knownUnstarted |-> known,
                  failed |-> FALSE]]
        PROVE  Cancelling(S, c)'
    <3>1. canc'[c].pc = pc /\ canc'[c].target = b /\ canc'[c].knownUnstarted = known
      BY <1>1, <2>2
    <3>2. Wrote(b, Cancelled(b), ok)
      BY <1>2, <2>2, CancellationWrites DEF AllInv, ExecutorInv
    <3>3. rec'[b].knownUnstarted = known /\ disk'[b].knownUnstarted = known
      BY <2>2, <3>2 DEF Wrote
    <3>4. st'[b].cancelRequested /\ ~st'[b].stopConfirmed
      BY <1>1, <2>2 DEF Flags
    <3>5. Tracked(b)'
      BY <1>1 DEF Tracked
    <3> QED BY <3>1, <3>3, <3>4, <3>5 DEF Cancelling, Unconfirmed, Tracked
  <2> QED BY <1>2, <1>7, <2>1, <2>2
<1>8. \A d \in Cancellers : d # c => canc'[d] = canc[d]
  BY <1>1, <1>2
<1> QED BY <1>5, <1>6, <1>7, <1>8 DEF LiveInv

\* The confirmation: here a stale cancellation would clear the flag of another
\* attempt's workspace.
LEMMA CommitLives ==
  ASSUME NEW S, ~StaleConfirm(S), AllInv(S), WritesWell \/ UNCHANGED jvars,
         NEW c \in Cancellers, CancelCommits(c)
  PROVE  LiveInv(S)'
<1>1. /\ canc[c].pc = "commit" /\ Unconfirmed(c)
      /\ UNCHANGED <<mode, exec, runner, outcome, live, sent>>
      /\ st \in [Attempts -> Flags] /\ canc \in [Cancellers -> Cancellation]
      /\ canc[c] \in Cancellation
  BY DEF CancelCommits, Unconfirmed, AllInv, ExecutorInv, TypeOK
<1> PICK b \in Attempts : b = canc[c].target
  BY <1>1, TargetFacts
<1>2. mode = "up" /\ (b \in S => ~live[b])
  BY <1>1, TargetFacts DEF AllInv, LiveInv, Cancelling
<1>3. PICK ok \in BOOLEAN :
        /\ Complete(b, "none", TRUE, ok)
        /\ \/ /\ st' = [st EXCEPT ![b] = [@ EXCEPT !.stopConfirmed = TRUE,
                                                   !.stopUnverified = FALSE,
                                                   !.held = FALSE]]
              /\ workspaces' = workspaces \ {JobOf[b]}
              /\ canc' = [canc EXCEPT ![c] = [canc[c] EXCEPT !.pc = "return"]]
           \/ /\ st' = [st EXCEPT ![b].stopUnverified = TRUE]
              /\ workspaces' = workspaces
              /\ canc' = [canc EXCEPT ![c] = NotCancelling]
  BY DEF CancelCommits
<1>4. /\ \A a \in Attempts : a # b => st'[a] = st[a]
      /\ st'[b].cancelRequested = st[b].cancelRequested
      /\ \A d \in Cancellers : d # c => canc'[d] = canc[d]
      /\ canc'[c].pc \in {"idle", "return"}
  <2>1. st[b] \in Flags
    BY <1>1
  <2>2. /\ \A a \in Attempts : a # b => st'[a] = st[a]
        /\ \A d \in Cancellers : d # c => canc'[d] = canc[d]
    BY <1>1, <1>3
  <2>3. st'[b].cancelRequested = st[b].cancelRequested
    <3>1. \/ st'[b] = [st[b] EXCEPT !.stopConfirmed = TRUE, !.stopUnverified = FALSE,
                                   !.held = FALSE]
          \/ st'[b] = [st[b] EXCEPT !.stopUnverified = TRUE]
      BY <1>1, <1>3
    <3> QED BY <2>1, <3>1 DEF Flags
  <2>4. canc'[c].pc \in {"idle", "return"}
    <3>1. canc'[c] = NotCancelling \/ canc'[c] = [canc[c] EXCEPT !.pc = "return"]
      BY <1>1, <1>3
    <3> QED BY <1>1, <3>1 DEF Cancellation, NotCancelling
  <2> QED BY <2>2, <2>3, <2>4
<1>5. \A a \in Attempts : a # b => rec'[a] = rec[a] /\ disk'[a] = disk[a]
  <2>1. CASE UNCHANGED jvars
    BY <2>1 DEF jvars
  <2>2. "none" \in Results \cup {"none"}
    OBVIOUS
  <2> QED BY <1>3, <2>1, <2>2, CompleteWrites DEF Wrote, AllInv, ExecutorInv
<1>6. ASSUME NEW a \in Attempts, a \in S, live[a], RuntimeOf[a] = "workspace",
             JobOf[a] \in workspaces
      PROVE  JobOf[a] \in workspaces'
  <2>1. a # b /\ Tracked(a)
    BY <1>2, <1>6, LiveFacts
  <2>2. JobOf[a] # JobOf[b] \/ JobOf[a] \in workspaces'
    BY <1>6, <2>1 DEF StaleConfirm
  <2>3. workspaces' = workspaces \ {JobOf[b]} \/ workspaces' = workspaces
    BY <1>3
  <2> QED BY <1>6, <2>2, <2>3
<1>7. ASSUME NEW a \in Attempts PROVE LiveOf(S, a)'
  <2>1. CASE ~(a \in S /\ live[a])
    BY <1>1, <2>1 DEF LiveOf
  <2>2. CASE a \in S /\ live[a]
    <3>1. a # b
      BY <1>2, <2>2
    <3>2. KeptBack(a) => KeptBack(a)'
      BY <1>3, <1>4, <1>6, <2>2, <3>1 DEF KeptBack
    <3> QED BY <1>1, <1>2, <1>4, <1>5, <3>1, <3>2, LiveKept DEF AllInv, LiveInv
  <2> QED BY <2>1, <2>2
<1>8. ASSUME NEW d \in Cancellers PROVE Cancelling(S, d)'
  <2>1. CASE d = c
    BY <1>4, <2>1 DEF Cancelling, Unconfirmed
  <2>2. CASE d # c
    <3>1. ASSUME Unconfirmed(d)
          PROVE  LET a == canc[d].target IN
                 /\ st'[a].cancelRequested
                 /\ live'[a] => live[a] \/ ~DoneRunning(a)
      BY <1>1, <1>4, <3>1, TargetFacts
    <3> QED BY <1>4, <2>2, <3>1, CancellingKept
  <2> QED BY <2>1, <2>2
<1> QED BY <1>7, <1>8 DEF LiveInv

-----------------------------------------------------------------------------
(* The end of a process, and the start of the next one.                      *)

LEMMA NotUpLives ==
  ASSUME NEW S, mode' # "up", \A c \in Cancellers : canc'[c].pc = "idle",
         \A a \in Attempts :
           a \in S /\ live'[a] => Reported(a, rec[a])' /\ Reported(a, disk[a])'
  PROVE  LiveInv(S)'
  BY DEF LiveInv, LiveOf, Going, Cancelling, Unconfirmed

LEMMA CrashLives ==
  ASSUME NEW S, AllInv(S), Crash \/ Restart
  PROVE  LiveInv(S)'
<1>1. /\ mode' # "up" /\ disk' = disk /\ live' = live /\ sent' = sent
      /\ rec' = rec \/ rec' = disk
  BY DEF Crash, Restart, Reopen, ProcessEnds, outside, jvars
<1>2. \A c \in Cancellers : canc'[c].pc = "idle"
  <2>1. CASE Crash
    BY <2>1 DEF Crash, ProcessEnds, NoCancel, NotCancelling
  <2>2. CASE Restart
    BY <2>2 DEF Restart, AllInv, ReservationInv, Joining
  <2> QED BY <2>1, <2>2
<1>3. ASSUME NEW a \in Attempts, a \in S, live'[a]
      PROVE  Reported(a, rec[a])' /\ Reported(a, disk[a])'
  BY <1>1, <1>3 DEF AllInv, LiveInv, LiveOf, Reported, Unresolved, Present, Settled,
     NeverEntered
<1> QED BY <1>1, <1>2, <1>3, NotUpLives

\* A step of restoreJournal on b, whose record stays in order.
LEMMA RestoringLives ==
  ASSUME NEW S, AllInv(S), NEW b \in Attempts, RestoreStep(b),
         \A a \in Attempts : live'[a] => live[a],
         \A a \in Attempts : a # b => rec'[a] = rec[a] /\ disk'[a] = disk[a],
         b \in S /\ live'[b] => Reported(b, rec[b])' /\ Reported(b, disk[b])'
  PROVE  LiveInv(S)'
<1>1. /\ mode = "restoring" /\ mode' # "up" /\ sent' = sent
      /\ canc' = canc \/ canc' = NoCancel
  BY DEF RestoreStep, RestoreSettled, RestoreUnstarted, RestoreNative,
         RestoreReattaches, RestoreStops, RestoreCannotVerify, Restored,
         TrackRestored, ProcessEnds, outside
<1>2. \A c \in Cancellers : canc'[c].pc = "idle"
  BY <1>1 DEF AllInv, ReservationInv, Joining, NoCancel, NotCancelling
<1>3. ASSUME NEW a \in Attempts, a \in S, live'[a]
      PROVE  Reported(a, rec[a])' /\ Reported(a, disk[a])'
  <2>1. CASE a # b
    BY <1>1, <1>3, <2>1 DEF AllInv, LiveInv, LiveOf, Reported, Unresolved, Present,
       Settled, NeverEntered
  <2> QED BY <1>3, <2>1
<1> QED BY <1>1, <1>2, <1>3, NotUpLives

LEMMA TrackedAgainLives ==
  ASSUME NEW S, AllInv(S), NEW b \in Attempts, NEW ok \in BOOLEAN, NEW blocked \in BOOLEAN,
         BlockReplay(b, blocked, ok), live'[b] => live[b], sent' = sent,
         blocked \/ (RuntimeOf[b] = "workspace" /\ rec[b].result = "success")
  PROVE  /\ b \in S /\ live'[b] => Reported(b, rec[b])' /\ Reported(b, disk[b])'
         /\ \A a \in Attempts : a # b => rec'[a] = rec[a] /\ disk'[a] = disk[a]
<1>0. LiveOf(S, b)
  BY DEF AllInv, LiveInv
<1>1. CASE UNCHANGED jvars
  BY <1>0, <1>1, ReportUnchanged DEF jvars
<1>2. ASSUME NEW r \in Record,
             Wrote(b, r, ok), SameAdmission(r, rec[b]), SameProgress(r, rec[b]),
             r.result = rec[b].result, r.stopVerified = rec[b].stopVerified,
             r.replayBlocked = blocked
      PROVE  /\ b \in S /\ live'[b] => Reported(b, rec[b])' /\ Reported(b, disk[b])'
             /\ \A a \in Attempts : a # b => rec'[a] = rec[a] /\ disk'[a] = disk[a]
  <2>1. b \in S /\ live[b] => Reported(b, r)
    BY <1>0, <1>2 DEF LiveOf, Reported, Unresolved, Present, Settled, NeverEntered,
                      SameAdmission, SameProgress
  <2>2. b \in S /\ live'[b] => Reported(b, rec[b])' /\ Reported(b, disk[b])'
    BY <1>0, <1>2, <2>1, ReportedKept
  <2> QED BY <1>2, <2>2 DEF Wrote
<1> QED BY <1>1, <1>2, BlockReplayWrites DEF AllInv, ExecutorInv

LEMMA RestoreLives ==
  ASSUME NEW S, AllInv(S), NEW b \in Attempts, RestoreStep(b)
  PROVE  LiveInv(S)'
<1>0. live \in [Attempts -> BOOLEAN] /\ JournalInv
  BY DEF AllInv, ExecutorInv, TypeOK
<1>1. CASE RestoreSettled(b)
  <2>1. UNCHANGED jvars /\ live' = live /\ sent' = sent /\ LiveOf(S, b)
    BY <1>1 DEF RestoreSettled, outside, AllInv, LiveInv
  <2>2. b \in S /\ live'[b] => Reported(b, rec[b])' /\ Reported(b, disk[b])'
    BY <2>1, ReportUnchanged
  <2> QED BY <2>1, <2>2, RestoringLives DEF jvars
<1>2. CASE RestoreUnstarted(b)
  <2>1. PICK ok \in BOOLEAN : RecoverUnstarted(b, ok)
    BY <1>2 DEF RestoreUnstarted
  <2>2. live' = live /\ (b \in S => ~live[b])
    BY <1>2, LiveFacts DEF RestoreUnstarted, outside, Unresolved
  <2>3. \A a \in Attempts : a # b => rec'[a] = rec[a] /\ disk'[a] = disk[a]
    <3>1. CASE UNCHANGED jvars
      BY <3>1 DEF jvars
    <3> QED BY <1>0, <2>1, <3>1, RecoverWrites DEF Wrote
  <2> QED BY <2>2, <2>3, RestoringLives
<1>3. CASE RestoreNative(b) \/ RestoreReattaches(b) \/ RestoreCannotVerify(b)
  <2>1. PICK ok \in BOOLEAN, blocked \in BOOLEAN :
          /\ BlockReplay(b, blocked, ok)
          /\ blocked \/ (RuntimeOf[b] = "workspace" /\ rec[b].result = "success")
    <3>1. CASE RestoreReattaches(b)
      BY <3>1 DEF RestoreReattaches, Reattachable
    <3>2. CASE RestoreNative(b) \/ RestoreCannotVerify(b)
      BY <3>2 DEF RestoreNative, RestoreCannotVerify
    <3> QED BY <1>3, <3>1, <3>2
  <2>2. sent' = sent /\ \A a \in Attempts : live'[a] => live[a]
    BY <1>0, <1>3 DEF RestoreNative, RestoreReattaches, RestoreCannotVerify, outside
  <2> QED BY <2>1, <2>2, TrackedAgainLives, RestoringLives
<1>4. CASE RestoreStops(b)
  <2> DEFINE result == IF ReplacedAtRestart(b) THEN "failure" ELSE rec[b].result
  <2>1. PICK ok \in BOOLEAN : Complete(b, result, TRUE, ok)
    BY <1>4 DEF RestoreStops
  <2>2. ~live'[b] /\ \A a \in Attempts : live'[a] => live[a]
    BY <1>0, <1>4 DEF RestoreStops
  <2>3. result \in Results \cup {"none"}
    BY <1>0, RecordsTyped DEF Record, Results
  <2> HIDE DEF result
  <2>4. \A a \in Attempts : a # b => rec'[a] = rec[a] /\ disk'[a] = disk[a]
    <3>1. CASE UNCHANGED jvars
      BY <3>1 DEF jvars
    <3> QED BY <1>0, <2>1, <2>3, <3>1, CompleteWrites DEF Wrote
  <2> QED BY <2>2, <2>4, RestoringLives
<1> QED BY <1>1, <1>2, <1>3, <1>4 DEF RestoreStep

LEMMA RestoreEndLives ==
  ASSUME NEW S, AllInv(S), RestoreEnds
  PROVE  LiveInv(S)'
<1>1. /\ mode = "restoring" /\ todo = {} /\ rec' = rec /\ disk' = disk
      /\ UNCHANGED <<process, live, sent>>
  BY DEF RestoreEnds, jvars, outside
<1>2. ASSUME NEW a \in Attempts, a \in S, live'[a]
      PROVE  Reported(a, rec[a])' /\ Reported(a, disk[a])' /\ Going(a)'
  <2>1. Reported(a, rec[a]) /\ Reported(a, disk[a])
    BY <1>1, <1>2 DEF AllInv, LiveInv, LiveOf
  <2>2. runner[a] = "done"
    <3>1. AttemptInv(a) /\ runner[a] \in Steps
      BY DEF AllInv, ReservationInv, ExecutorInv, TypeOK
    <3>2. st[a].held
      BY <1>1, <2>1, <3>1 DEF AttemptInv, Reserved, Reported
    <3> QED BY <1>1, <3>1, <3>2 DEF AttemptInv, Tracking, Active
  <2>3. runner'[a] = "done"
    BY <1>1, <2>2 DEF process
  <2>4. Going(a)'
    BY <2>3 DEF Going
  <2> QED BY <1>1, <2>1, <2>4
          DEF Reported, Unresolved, Present, Settled, NeverEntered
<1>3. \A c \in Cancellers : canc'[c].pc = "idle"
  BY <1>1 DEF process, AllInv, ReservationInv, Joining
<1> QED BY <1>2, <1>3 DEF LiveInv, LiveOf, Cancelling, Unconfirmed

LEMMA InitLives == ASSUME NEW S, Init PROVE LiveInv(S)
  BY DEF Init, LiveInv, LiveOf, Cancelling, Unconfirmed, NoCancel, NotCancelling

LEMMA StepsLive ==
  ASSUME NEW S, AllInv(S), [Next]_vars, [~StaleConfirm(S)]_vars
  PROVE  LiveInv(S)'
<1>1. CASE UNCHANGED vars
  <2>1. UNCHANGED jvars /\ mode' = mode /\ UNCHANGED process /\ UNCHANGED outside
    BY <1>1 DEF vars
  <2>2. ASSUME NEW a \in Attempts PROVE LiveOf(S, a)'
    <3>1. LiveOf(S, a) /\ (KeptBack(a) => KeptBack(a)')
      BY <2>1 DEF AllInv, LiveInv, KeptBack, process
    <3> QED BY <2>1, <3>1, LiveKept DEF jvars, process, outside
  <2>3. \A c \in Cancellers : Cancelling(S, c)'
    <3>1. \A a \in Attempts : Tracked(a) => Tracked(a)'
      BY <2>1 DEF Tracked, process
    <3> QED BY <2>1, <3>1, CancellersUndisturbed DEF process, outside
  <2> QED BY <2>2, <2>3 DEF LiveInv
<1>2. CASE Restart
  BY <1>2, CrashLives
<1>3. CASE Next /\ ~Restart /\ ~StaleConfirm(S)
  <2>1. WritesWell \/ UNCHANGED jvars
    BY <1>3, StepsWriteWell DEF AllInv
  <2>2. ASSUME NEW a \in Attempts,
               RunnerStep(a) \/ RunnerPrepareFails(a) \/ BackendStarts(a)
        PROVE  LiveInv(S)'
    BY <2>1, <2>2, EarlyRunnerLives, BackendStartLives, RunReturnLives, SettleLives,
       FinishLives DEF RunnerStep
  <2>3. ASSUME NEW a \in Attempts,
               \/ Start(a) \/ Defer(a) \/ BackendEnds(a) \/ RememberCancel(a)
               \/ RejectAttempt(a) \/ SendResult(a) \/ AcknowledgeResult(a)
        PROVE  LiveInv(S)'
    BY <2>1, <2>3, StartLives, DeferLives, EndLives, RememberCancelLives,
       RejectLives, SendLives, AcknowledgeLives
  <2>4. ASSUME NEW c \in Cancellers, CancelStep(c) PROVE LiveInv(S)'
    BY <1>3, <2>1, <2>4, CancelStepLives, CommitLives DEF CancelStep
  <2>5. ASSUME NEW c \in Cancellers, NEW a \in Attempts, CancelBegins(c, a)
        PROVE  LiveInv(S)'
    BY <2>1, <2>5, CancelBeginLives
  <2>6. CASE Crash \/ RestoreEnds
    BY <2>6, CrashLives, RestoreEndLives
  <2> QED BY <1>3, <2>2, <2>3, <2>4, <2>5, <2>6, RestoreLives DEF Next
<1> QED BY <1>1, <1>2, <1>3


LEMMA UndisputedAreSafe ==
  ASSUME ExecutorInv, [Next]_vars
  PROVE  ~StaleConfirm(Undisputed)
<1> SUFFICES ASSUME StaleConfirm(Undisputed) PROVE FALSE
  OBVIOUS
<1>1. PICK c \in Cancellers, a \in Attempts :
        /\ a \in Undisputed /\ RuntimeOf[a] = "workspace" /\ CancelCommits(c)
        /\ canc[c].target # a /\ JobOf[canc[c].target] = JobOf[a]
  BY DEF StaleConfirm
<1>2. canc[c].target \in Attempts
  BY <1>1 DEF CancelCommits, ExecutorInv, CancelsHaveTargets
<1> QED BY <1>1, <1>2 DEF Undisputed

\* What goes on outside the agent is accounted for: in the records, in the
\* goroutines, and in what was told to the coordinator.  Always for the
\* undisputed attempts, however many cancellations overlap; for all of them
\* while no confirmation clears the flag of another attempt's workspace.
THEOREM ExecutorAccountsForLive ==
  /\ Spec => []LiveInv(Undisputed)
  /\ Spec /\ [][~StaleConfirm(Attempts)]_vars => []LiveInv(Attempts)
<1>1. /\ Init => LiveInv(Undisputed)
      /\ Init => LiveInv(Attempts)
  BY InitLives
<1>2. ASSUME ExecutorInv, ReservationInv, ToldInv, LiveInv(Undisputed), [Next]_vars
      PROVE  LiveInv(Undisputed)'
  BY <1>2, StepsLive, UndisputedAreSafe DEF AllInv
<1>3. ASSUME ExecutorInv, ReservationInv, ToldInv, LiveInv(Attempts), [Next]_vars,
             [~StaleConfirm(Attempts)]_vars
      PROVE  LiveInv(Attempts)'
  BY <1>3, StepsLive DEF AllInv
<1>4. Spec => []LiveInv(Undisputed)
  BY <1>1, <1>2, ExecutorInvariant, ExecutorReserves, ExecutorTellsTheTruth, PTL DEF Spec
<1>5. Spec /\ [][~StaleConfirm(Attempts)]_vars => []LiveInv(Attempts)
  BY <1>1, <1>3, ExecutorInvariant, ExecutorReserves, ExecutorTellsTheTruth, PTL DEF Spec
<1> QED BY <1>4, <1>5

-----------------------------------------------------------------------------
(* The promises, for the attempts in S.                                      *)

VerifiedAreStopped(S) ==
  \A a \in Attempts : a \in S /\ disk[a].stopVerified => ~live[a]

PromisedAreStopped(S) == \A a \in promised : a \in S => ~live[a]

LiveAreReserved(S) ==
  mode = "up" => \A a \in Attempts : a \in S /\ live[a] => Tracked(a) /\ st[a].held

ReplayableAreSettled(S) ==
  \A a \in Attempts :
    /\ a \in S /\ mode = "up" /\ live[a]
    /\ rec[a].result # "none" /\ ~rec[a].replayBlocked
    => RuntimeOf[a] = "workspace" /\ rec[a].result = "success"

LEMMA AllInvariant ==
  /\ Spec => []AllInv(Undisputed)
  /\ Spec /\ [][~StaleConfirm(Attempts)]_vars => []AllInv(Attempts)
<1>1. /\ ExecutorInv /\ ReservationInv /\ ToldInv /\ LiveInv(Undisputed)
           => AllInv(Undisputed)
      /\ ExecutorInv /\ ReservationInv /\ ToldInv /\ LiveInv(Attempts)
           => AllInv(Attempts)
  BY DEF AllInv
<1> QED BY <1>1, ExecutorAccountsForLive, ExecutorInvariant, ExecutorReserves,
           ExecutorTellsTheTruth, PTL

\* The proof of a stop on disk is never ahead of the stop, whatever fails
\* between the removal, the join and the write: of an undisputed attempt in
\* every behaviour, of any while no confirmation is stale.
THEOREM ExecutorVerifiesStops ==
  /\ Spec => []VerifiedAreStopped(Undisputed)
  /\ Spec /\ [][~StaleConfirm(Attempts)]_vars => []StopVerifiedMeansStopped
<1>1. AllInv(Undisputed) => VerifiedAreStopped(Undisputed)
  BY LiveFacts DEF VerifiedAreStopped
<1>2. AllInv(Attempts) => StopVerifiedMeansStopped
  BY LiveFacts DEF StopVerifiedMeansStopped
<1> QED BY <1>1, <1>2, AllInvariant, PTL

\* What the coordinator was told is stopped does not work, and never will: the
\* promise stays, and so does this.  The same two cases.
THEOREM ExecutorKeepsPromises ==
  /\ Spec => []PromisedAreStopped(Undisputed)
  /\ Spec /\ [][~StaleConfirm(Attempts)]_vars => []PromisedMeansStopped
<1>1. ASSUME NEW S, AllInv(S), NEW a \in promised, a \in S, live[a] PROVE FALSE
  <2>1. a \in Attempts /\ Dead(rec[a])
    BY <1>1 DEF AllInv, ExecutorInv, TypeOK, ToldInv, Told
  <2> QED BY <1>1, <2>1, LiveFacts
<1>2. AllInv(Undisputed) => PromisedAreStopped(Undisputed)
  BY <1>1 DEF PromisedAreStopped
<1>3. AllInv(Attempts) => PromisedMeansStopped
  <2>1. AllInv(Attempts) => promised \subseteq Attempts
    BY DEF AllInv, ExecutorInv, TypeOK
  <2> QED BY <1>1, <2>1 DEF PromisedMeansStopped
<1> QED BY <1>2, <1>3, AllInvariant, PTL

\* While an attempt may be working, the GPU is reserved for it and a
\* cancellation finds it.  The same two cases.
THEOREM ExecutorReservesForLive ==
  /\ Spec => []LiveAreReserved(Undisputed)
  /\ Spec /\ [][~StaleConfirm(Attempts)]_vars => []LiveIsReserved
<1>1. AllInv(Undisputed) => LiveAreReserved(Undisputed)
  BY LiveFacts DEF LiveAreReserved
<1>2. AllInv(Attempts) => LiveIsReserved
  BY LiveFacts DEF LiveIsReserved
<1> QED BY <1>1, <1>2, AllInvariant, PTL

\* A result that may be sent is the last word, unless it says that a workspace
\* is running.  The same two cases.
THEOREM ExecutorReplaysTheSettled ==
  /\ Spec => []ReplayableAreSettled(Undisputed)
  /\ Spec /\ [][~StaleConfirm(Attempts)]_vars => []ReplayableIsSettled
<1>1. AllInv(Undisputed) => ReplayableAreSettled(Undisputed)
  BY DEF AllInv, LiveInv, LiveOf, Reported, ReplayableAreSettled
<1>2. AllInv(Attempts) => ReplayableIsSettled
  BY DEF AllInv, LiveInv, LiveOf, Reported, ReplayableIsSettled
<1> QED BY <1>1, <1>2, AllInvariant, PTL

-----------------------------------------------------------------------------
(* The executor and its journal implement AttemptLifecycle.                  *)

Verdict == [a \in Attempts |-> IF disk[a].accepted THEN disk[a].result ELSE "none"]

\* What the coordinator sees of the attempts in S, and what may happen to it.
BegunOf(S) == {a \in Attempts : a \in S /\ runs[a] > 0}
WorkingOf(S) == {a \in Attempts : a \in S /\ live[a]}
PromisedOf(S) == promised \cap S
VerdictOf(S) == [a \in Attempts \cap S |-> Verdict[a]]

BeginOf(S, a) ==
  /\ WorkingOf(S) = {} /\ a \notin BegunOf(S) \cup PromisedOf(S)
  /\ VerdictOf(S)[a] = "none"
  /\ BegunOf(S)' = BegunOf(S) \cup {a} /\ WorkingOf(S)' = {a}
  /\ PromisedOf(S)' = PromisedOf(S) /\ VerdictOf(S)' = VerdictOf(S)

EndOf(S, a) ==
  /\ a \in WorkingOf(S) /\ WorkingOf(S)' = WorkingOf(S) \ {a}
  /\ BegunOf(S)' = BegunOf(S)
  /\ PromisedOf(S)' = PromisedOf(S) /\ VerdictOf(S)' = VerdictOf(S)

PromiseOf(S, a) ==
  /\ PromisedOf(S)' = PromisedOf(S) \cup {a} /\ a \notin WorkingOf(S)
  /\ BegunOf(S)' = BegunOf(S) /\ WorkingOf(S)' = WorkingOf(S)
  /\ VerdictOf(S)' = VerdictOf(S)

SettleOf(S, a, v) ==
  /\ VerdictOf(S)[a] = "none" /\ v # "none" /\ (a \in WorkingOf(S) => v = "success")
  /\ VerdictOf(S)' = [VerdictOf(S) EXCEPT ![a] = v]
  /\ BegunOf(S)' = BegunOf(S) /\ WorkingOf(S)' = WorkingOf(S)
  /\ PromisedOf(S)' = PromisedOf(S)

Effect(S) ==
  \/ /\ BegunOf(S)' = BegunOf(S) /\ WorkingOf(S)' = WorkingOf(S)
     /\ PromisedOf(S)' = PromisedOf(S) /\ VerdictOf(S)' = VerdictOf(S)
  \/ \E a \in Attempts \cap S :
       \/ BeginOf(S, a) \/ EndOf(S, a) \/ PromiseOf(S, a)
       \/ \E v \in Promises!Verdicts : SettleOf(S, a, v)

\* The undisputed attempts, as the coordinator sees them.
Kept == INSTANCE AttemptLifecycle WITH
  Attempts <- Undisputed,
  begun <- BegunOf(Undisputed),
  active <- WorkingOf(Undisputed),
  promised <- PromisedOf(Undisputed),
  verdict <- VerdictOf(Undisputed)

UndisputedLifecycle == Kept!Spec

\* Only an acknowledgement changes a verdict.
LEMMA VerdictKept ==
  ASSUME NEW S, AllInv(S), WritesWell \/ UNCHANGED jvars \/ Reopen,
         \A a \in Attempts : ~AcknowledgeResult(a)
  PROVE  Verdict' = Verdict
<1>1. CASE disk' = disk
  BY <1>1 DEF Verdict
<1>2. CASE WritesWell
  <2>1. PICK b \in Attempts, r \in Record, ok \in BOOLEAN :
          /\ Wrote(b, r, ok) /\ Keeps(r, rec[b])
          /\ r.accepted => rec[b].accepted
    BY <1>2 DEF WritesWell
  <2>2. ASSUME NEW a \in Attempts PROVE Verdict'[a] = Verdict[a]
    BY <2>1 DEF Wrote, Keeps, Verdict
  <2> QED BY <2>2 DEF Verdict
<1> QED BY <1>1, <1>2 DEF jvars, Reopen

\* What does nothing the coordinator relies on.
LEMMA StutterRefines ==
  ASSUME NEW S, runs' = runs, live' = live, promised' = promised, Verdict' = Verdict
  PROVE  Effect(S)
<1>1. /\ BegunOf(S)' = BegunOf(S) /\ WorkingOf(S)' = WorkingOf(S)
      /\ PromisedOf(S)' = PromisedOf(S) /\ VerdictOf(S)' = VerdictOf(S)
  BY DEF BegunOf, WorkingOf, PromisedOf, VerdictOf
<1> QED BY <1>1 DEF Effect

LEMMA EndRefines ==
  ASSUME NEW S, live \in [Attempts -> BOOLEAN], NEW b,
         \/ live' = live
         \/ live' = [live EXCEPT ![b] = FALSE],
         runs' = runs, promised' = promised, Verdict' = Verdict
  PROVE  Effect(S)
<1>1. CASE live' = live
  BY <1>1, StutterRefines
<1>2. CASE live' # live
  <2>1. live' = [live EXCEPT ![b] = FALSE] /\ b \in Attempts /\ live[b]
    BY <1>2
  <2>2. /\ BegunOf(S)' = BegunOf(S)
        /\ PromisedOf(S)' = PromisedOf(S) /\ VerdictOf(S)' = VerdictOf(S)
    BY DEF BegunOf, PromisedOf, VerdictOf
  <2>3. CASE b \in S
    <3>1. b \in WorkingOf(S) /\ WorkingOf(S)' = WorkingOf(S) \ {b}
      BY <2>1, <2>3 DEF WorkingOf
    <3> QED BY <2>1, <2>2, <2>3, <3>1 DEF Effect, EndOf
  <2>4. CASE b \notin S
    <3>1. WorkingOf(S)' = WorkingOf(S)
      BY <2>1, <2>4 DEF WorkingOf
    <3> QED BY <2>2, <3>1 DEF Effect
  <2> QED BY <2>3, <2>4
<1> QED BY <1>1, <1>2

LEMMA PromiseRefines ==
  ASSUME NEW S, NEW b \in Attempts, b \in S => ~live[b],
         promised' = promised \/ promised' = promised \cup {b},
         runs' = runs, live' = live, Verdict' = Verdict
  PROVE  Effect(S)
<1>1. CASE promised' = promised
  BY <1>1, StutterRefines
<1>2. CASE promised' = promised \cup {b}
  <2>1. /\ b \notin WorkingOf(S) /\ WorkingOf(S)' = WorkingOf(S)
        /\ BegunOf(S)' = BegunOf(S) /\ VerdictOf(S)' = VerdictOf(S)
    BY DEF WorkingOf, BegunOf, VerdictOf
  <2>2. CASE b \in S
    <3>1. PromisedOf(S)' = PromisedOf(S) \cup {b}
      BY <1>2, <2>2 DEF PromisedOf
    <3> QED BY <2>1, <2>2, <3>1 DEF Effect, PromiseOf
  <2>3. CASE b \notin S
    <3>1. PromisedOf(S)' = PromisedOf(S)
      BY <1>2, <2>3 DEF PromisedOf
    <3> QED BY <2>1, <3>1 DEF Effect
  <2> QED BY <2>2, <2>3
<1> QED BY <1>1, <1>2

\* The work begins alone, once, and not after a promise or a verdict.
LEMMA BeginRefines ==
  ASSUME NEW S, AllInv(S), RunOnceInv, NEW b \in Attempts, BackendStarts(b)
  PROVE  Effect(S)
<1>1. /\ Active(b) /\ runner[b] = "run"
      /\ UNCHANGED <<jvars, promised>>
      /\ live' = [live EXCEPT ![b] = TRUE] /\ runs' = [runs EXCEPT ![b] = @ + 1]
      /\ live \in [Attempts -> BOOLEAN] /\ runs \in [Attempts -> 0 .. MaxRuns]
  BY DEF BackendStarts, Active, AllInv, ExecutorInv, TypeOK
<1>2. /\ mode = "up" /\ (b \in S => ~live[b]) /\ Follows(b, rec[b]) /\ Follows(b, disk[b])
  BY <1>1, RunnerFacts
<1>3. b \in S => WorkingOf(S) = {}
  <2> SUFFICES ASSUME b \in S, NEW a \in Attempts, a \in S, live[a] PROVE FALSE
    BY DEF WorkingOf
  <2>1. st[a].held
    BY <1>2, LiveFacts
  <2>2. st[b].held
    BY <1>1 DEF AllInv, ReservationInv, AttemptInv, Tracking
  <2>3. a = b
    BY <2>1, <2>2 DEF AllInv, ReservationInv, OneReservation
  <2> QED BY <1>2, <2>3
<1>4. b \notin BegunOf(S)
  BY <1>1 DEF RunOnceInv, BegunOf
<1>5. b \notin PromisedOf(S)
  <2>1. rec[b].phase = "running" /\ ~rec[b].stopVerified
    BY <1>1, <1>2 DEF Follows
  <2>2. Valid(rec[b])
    BY <2>1 DEF AllInv, ToldInv, Backed, Present
  <2>3. b \notin promised
    BY <2>1, <2>2 DEF Valid, AllInv, ToldInv, Told, Dead
  <2> QED BY <2>3 DEF PromisedOf
<1>6. Verdict[b] = "none" /\ Verdict' = Verdict
  BY <1>1, <1>2 DEF Verdict, Follows, jvars
<1>7. PromisedOf(S)' = PromisedOf(S) /\ VerdictOf(S)' = VerdictOf(S)
  BY <1>1, <1>6 DEF PromisedOf, VerdictOf
<1>8. CASE b \in S
  <2>1. BegunOf(S)' = BegunOf(S) \cup {b}
    BY <1>1, <1>8 DEF BegunOf, MaxRuns
  <2>2. WorkingOf(S)' = WorkingOf(S) \cup {b}
    BY <1>1, <1>8 DEF WorkingOf
  <2>3. VerdictOf(S)[b] = "none"
    BY <1>6, <1>8 DEF VerdictOf
  <2>4. WorkingOf(S)' = {b}
    BY <1>3, <1>8, <2>2
  <2>5. BeginOf(S, b)
    BY <1>3, <1>4, <1>5, <1>7, <1>8, <2>1, <2>3, <2>4 DEF BeginOf
  <2> QED BY <1>8, <2>5 DEF Effect
<1>9. CASE b \notin S
  <2>1. BegunOf(S)' = BegunOf(S)
    BY <1>1, <1>9 DEF BegunOf
  <2>2. WorkingOf(S)' = WorkingOf(S)
    BY <1>1, <1>9 DEF WorkingOf
  <2> QED BY <1>7, <2>1, <2>2 DEF Effect
<1> QED BY <1>8, <1>9

\* A result is accepted once, and a failure only of what has stopped.
LEMMA SettleRefines ==
  ASSUME NEW S, AllInv(S), NEW b \in Attempts, AcknowledgeResult(b)
  PROVE  Effect(S)
<1>1. PICK ok \in BOOLEAN : Accept(b, ok)
  BY DEF AcknowledgeResult
<1>2. /\ UNCHANGED <<live, runs, promised>>
      /\ b \in sent /\ rec[b].result # "none" /\ ~rec[b].accepted
  BY DEF AcknowledgeResult, outside
<1>3. CASE Verdict' = Verdict
  BY <1>2, <1>3, StutterRefines
<1>4. CASE Verdict' # Verdict
  <2>1. disk' # disk
    BY <1>4 DEF Verdict
  <2>2. PICK r \in Record :
          Wrote(b, r, ok) /\ r.accepted /\ r.result = rec[b].result
    BY <1>1, <2>1, AcceptWrites DEF jvars, AllInv, ExecutorInv
  <2>3. /\ \A a \in Attempts : a # b => disk'[a] = disk[a]
        /\ disk'[b] \in {disk[b], r} /\ (disk'[b] # disk[b] => disk[b] = rec[b])
    BY <2>2 DEF Wrote
  <2>4. disk'[b] # disk[b]
    <3>1. ASSUME disk'[b] = disk[b] PROVE Verdict' = Verdict
      <4>1. \A a \in Attempts : disk'[a] = disk[a]
        BY <2>3, <3>1
      <4> QED BY <4>1 DEF Verdict
    <3> QED BY <1>4, <3>1
  <2>5. /\ Verdict[b] = "none" /\ Verdict'[b] = rec[b].result
        /\ \A a \in Attempts : a # b => Verdict'[a] = Verdict[a]
    BY <1>2, <2>2, <2>3, <2>4 DEF Verdict
  <2>6. rec[b].result \in Promises!Verdicts
    BY RecordsTyped DEF Promises!Verdicts, Record, Results, AllInv, ExecutorInv
  <2>7. b \in S /\ live[b] => rec[b].result = "success"
    BY <1>2 DEF AllInv, LiveInv, LiveOf, Reported
  <2>8. /\ BegunOf(S)' = BegunOf(S) /\ WorkingOf(S)' = WorkingOf(S)
        /\ PromisedOf(S)' = PromisedOf(S)
    BY <1>2 DEF BegunOf, WorkingOf, PromisedOf
  <2>9. CASE b \in S
    <3>1. PICK v \in Promises!Verdicts : v = rec[b].result
      BY <2>6
    <3>2. VerdictOf(S)' = [VerdictOf(S) EXCEPT ![b] = v] /\ VerdictOf(S)[b] = "none"
      BY <2>5, <2>9, <3>1 DEF VerdictOf
    <3>3. b \in WorkingOf(S) => v = "success"
      BY <2>7, <3>1 DEF WorkingOf
    <3>4. SettleOf(S, b, v)
      BY <1>2, <2>8, <3>1, <3>2, <3>3 DEF SettleOf
    <3> QED BY <2>9, <3>4, Zenon DEF Effect
  <2>10. CASE b \notin S
    <3>1. VerdictOf(S)' = VerdictOf(S)
      BY <2>5, <2>10 DEF VerdictOf
    <3> QED BY <2>8, <3>1 DEF Effect
  <2> QED BY <2>9, <2>10
<1> QED BY <1>3, <1>4

\* Every step is one of the coordinator's view, or does not show in it.
LEMMA StepRefines ==
  ASSUME NEW S, AllInv(S), RunOnceInv, [Next]_vars, AllInv(S)'
  PROVE  Effect(S)
<1>0. live \in [Attempts -> BOOLEAN] /\ live' \in [Attempts -> BOOLEAN]
  BY DEF AllInv, ExecutorInv, TypeOK
<1>1. CASE UNCHANGED vars
  BY <1>1, StutterRefines DEF vars, jvars, outside, Verdict
<1>2. ASSUME NEW b \in Attempts, AcknowledgeResult(b)
      PROVE  Effect(S)
  BY <1>2, SettleRefines
<1>3. ASSUME NEW b \in Attempts, BackendStarts(b)
      PROVE  Effect(S)
  BY <1>3, BeginRefines
<1>4. CASE Next /\ \A a \in Attempts : ~AcknowledgeResult(a) /\ ~BackendStarts(a)
  <2>1. Verdict' = Verdict
    BY <1>4, VerdictKept, StepsWriteWell DEF AllInv
  <2>2. ASSUME NEW b \in Attempts,
               \/ Start(b) \/ Defer(b) \/ RunnerEnters(b) \/ RunnerAssigns(b)
               \/ RunnerFinishes(b) \/ RunnerPrepareFails(b) \/ RejectAttempt(b)
               \/ SendResult(b) \/ RestoreSettled(b) \/ RestoreUnstarted(b)
               \/ RestoreNative(b) \/ RestoreReattaches(b)
        PROVE  Effect(S)
    <3>1. UNCHANGED <<runs, live, promised>>
      BY <2>2 DEF Start, Defer, RunnerEnters, RunnerAssigns, RunnerFinishes,
         RunnerPrepareFails, RejectAttempt, SendResult, RestoreSettled,
         RestoreUnstarted, RestoreNative, RestoreReattaches, outside
    <3> QED BY <2>1, <3>1, StutterRefines
  <2>3. ASSUME NEW b \in Attempts,
               \/ BackendEnds(b) \/ RunReturns(b) \/ RunnerSettles(b)
               \/ RestoreStops(b) \/ RestoreCannotVerify(b)
        PROVE  Effect(S)
    <3>1. UNCHANGED <<runs, promised>>
      BY <2>3 DEF BackendEnds, RunReturns, RunnerSettles, RestoreStops,
         RestoreCannotVerify
    <3>2. \/ live' = live
          \/ \E a : live' = [live EXCEPT ![a] = FALSE]
      <4>1. CASE RunReturns(b)
        <5>1. RuntimeOf[b] \in {"ollama", "docker-custom", "workspace"}
          BY JournalAssumption DEF Runtimes
        <5>2. ASSUME NEW result, live' = [live EXCEPT ![b] = @ /\ result = "failure"]
              PROVE  live' = live \/ live' = [live EXCEPT ![b] = FALSE]
          <6>1. CASE result = "failure"
            BY <1>0, <5>2, <6>1
          <6>2. CASE result # "failure"
            BY <1>0, <5>2, <6>2
          <6> QED BY <6>1, <6>2
        <5> QED BY <4>1, <5>1, <5>2 DEF RunReturns
      <4>2. CASE RunnerSettles(b)
        BY <4>2 DEF RunnerSettles, Remove
      <4> QED BY <2>3, <4>1, <4>2 DEF BackendEnds, RestoreStops, RestoreCannotVerify
    <3> QED BY <1>0, <2>1, <3>1, <3>2, EndRefines
  <2>4. ASSUME NEW c \in Cancellers, CancelStep(c), ~CancelCommits(c)
        PROVE  Effect(S)
    <3>1. UNCHANGED <<runs, promised>>
      BY <2>4 DEF CancelStep, CancelRemoves, CancelJoins, CancelTimesOut,
         CancelRechecks, CancelReturns, outside
    <3>2. \/ live' = live
          \/ \E a : live' = [live EXCEPT ![a] = FALSE]
      BY <2>4 DEF CancelStep, CancelRemoves, CancelJoins, CancelTimesOut,
         CancelRechecks, CancelReturns, outside, Remove
    <3> QED BY <1>0, <2>1, <3>1, <3>2, EndRefines
  <2>5. ASSUME NEW b \in Attempts, UNCHANGED <<runs, live>>,
               promised' = promised \/ promised' = promised \cup {b}
        PROVE  Effect(S)
    <3>1. CASE promised' = promised
      BY <2>1, <2>5, <3>1, StutterRefines
    <3>2. CASE promised' = promised \cup {b}
      <4>1. Dead(rec[b])'
        BY <3>2 DEF AllInv, ToldInv, Told
      <4>2. b \in S => ~live'[b]
        BY <4>1 DEF AllInv, LiveInv, LiveOf, Reported, Unresolved, Settled,
                    NeverEntered, Dead
      <4> QED BY <2>1, <2>5, <3>2, <4>2, PromiseRefines
    <3> QED BY <2>5, <3>1, <3>2
  <2>6. ASSUME NEW c \in Cancellers, CancelCommits(c)
        PROVE  Effect(S)
    <3>1. canc[c].target \in Attempts
      BY <2>6 DEF CancelCommits, AllInv, ExecutorInv, CancelsHaveTargets
    <3> QED BY <2>5, <2>6, <3>1 DEF CancelCommits
  <2>7. ASSUME NEW c \in Cancellers, NEW b \in Attempts, CancelBegins(c, b)
        PROVE  Effect(S)
    BY <2>5, <2>7 DEF CancelBegins
  <2>8. ASSUME NEW b \in Attempts, RememberCancel(b)
        PROVE  Effect(S)
    BY <2>5, <2>8 DEF RememberCancel
  <2>9. CASE Crash \/ Restart \/ RestoreEnds
    <3>1. UNCHANGED <<runs, live, promised>>
      BY <2>9 DEF Crash, Restart, RestoreEnds, outside
    <3> QED BY <2>1, <3>1, StutterRefines
  <2> QED BY <1>4, <2>2, <2>3, <2>4, <2>6, <2>7, <2>8, <2>9
          DEF Next, RunnerStep, RestoreStep
<1> QED BY <1>1, <1>2, <1>3, <1>4

LEMMA EffectIsAllowed ==
  ASSUME promised \in SUBSET Attempts, (promised \in SUBSET Attempts)'
  PROVE  /\ Effect(Attempts) => [Promises!Next]_Promises!lvars
         /\ Effect(Undisputed) => [Kept!Next]_Kept!lvars
<1>1. /\ BegunOf(Attempts) = {a \in Attempts : runs[a] > 0}
      /\ WorkingOf(Attempts) = {a \in Attempts : live[a]}
      /\ PromisedOf(Attempts) = promised
      /\ VerdictOf(Attempts) = Verdict
  BY DEF BegunOf, WorkingOf, PromisedOf, VerdictOf, Verdict
<1>2. /\ BegunOf(Attempts)' = {a \in Attempts : runs'[a] > 0}
      /\ WorkingOf(Attempts)' = {a \in Attempts : live'[a]}
      /\ PromisedOf(Attempts)' = promised'
      /\ VerdictOf(Attempts)' = Verdict'
  BY DEF BegunOf, WorkingOf, PromisedOf, VerdictOf, Verdict
<1>3. ASSUME NEW a \in Attempts PROVE
        /\ BeginOf(Attempts, a) => Promises!Begin(a)
        /\ EndOf(Attempts, a) => Promises!End(a)
        /\ PromiseOf(Attempts, a) => Promises!Promise(a)
        /\ \A v \in Promises!Verdicts : SettleOf(Attempts, a, v) => Promises!Settle(a, v)
  BY <1>1, <1>2 DEF BeginOf, EndOf, PromiseOf, SettleOf, Promises!Begin, Promises!End,
     Promises!Promise, Promises!Settle, Verdict
<1>4. Effect(Attempts) => [Promises!Next]_Promises!lvars
  <2>1. CASE \E a \in Attempts \cap Attempts :
               \/ BeginOf(Attempts, a) \/ EndOf(Attempts, a) \/ PromiseOf(Attempts, a)
               \/ \E v \in Promises!Verdicts : SettleOf(Attempts, a, v)
    BY <1>3, <2>1, Zenon DEF Promises!Next
  <2>2. CASE /\ BegunOf(Attempts)' = BegunOf(Attempts)
             /\ WorkingOf(Attempts)' = WorkingOf(Attempts)
             /\ PromisedOf(Attempts)' = PromisedOf(Attempts)
             /\ VerdictOf(Attempts)' = VerdictOf(Attempts)
    BY <1>1, <1>2, <2>2 DEF Promises!lvars, Verdict
  <2> QED BY <2>1, <2>2 DEF Effect
<1>5. Promises!Verdicts = Kept!Verdicts /\ Attempts \cap Undisputed = Undisputed
  BY DEF Promises!Verdicts, Kept!Verdicts, Undisputed
<1>6. ASSUME NEW a \in Undisputed PROVE
        /\ BeginOf(Undisputed, a) => Kept!Begin(a)
        /\ EndOf(Undisputed, a) => Kept!End(a)
        /\ PromiseOf(Undisputed, a) => Kept!Promise(a)
        /\ \A v \in Kept!Verdicts : SettleOf(Undisputed, a, v) => Kept!Settle(a, v)
  BY DEF BeginOf, EndOf, PromiseOf, SettleOf, Kept!Begin, Kept!End, Kept!Promise,
     Kept!Settle
<1>7. Effect(Undisputed) => [Kept!Next]_Kept!lvars
  <2>1. CASE \E a \in Attempts \cap Undisputed :
               \/ BeginOf(Undisputed, a) \/ EndOf(Undisputed, a)
               \/ PromiseOf(Undisputed, a)
               \/ \E v \in Promises!Verdicts : SettleOf(Undisputed, a, v)
    BY <1>5, <1>6, <2>1, Zenon DEF Kept!Next
  <2>2. CASE /\ BegunOf(Undisputed)' = BegunOf(Undisputed)
             /\ WorkingOf(Undisputed)' = WorkingOf(Undisputed)
             /\ PromisedOf(Undisputed)' = PromisedOf(Undisputed)
             /\ VerdictOf(Undisputed)' = VerdictOf(Undisputed)
    BY <2>2 DEF Kept!lvars
  <2> QED BY <2>1, <2>2 DEF Effect
<1> QED BY <1>4, <1>7

\* The executor and its journal implement what the coordinator relies on,
\* whatever crashes, failed writes and failed removals happen below: for the
\* undisputed attempts in every behaviour, for all attempts in one without a
\* stale confirmation.
THEOREM ExecutorImplementsLifecycle ==
  /\ Spec => UndisputedLifecycle
  /\ Spec /\ [][~StaleConfirm(Attempts)]_vars => Lifecycle
<1>1. /\ Init => Promises!Init
      /\ Init => Kept!Init
  BY DEF Init, JournalInit, NoRecord, Promises!Init, Kept!Init, Undisputed, BegunOf,
     WorkingOf, PromisedOf, VerdictOf, Verdict
<1>3. ASSUME AllInv(Attempts), AllInv(Attempts)', RunOnceInv, [Next]_vars
      PROVE  [Promises!Next]_Promises!lvars
  <2>1. promised \in SUBSET Attempts /\ (promised \in SUBSET Attempts)'
    BY <1>3 DEF AllInv, ExecutorInv, TypeOK
  <2>2. Effect(Attempts)
    BY <1>3, StepRefines
  <2> QED BY <2>1, <2>2, EffectIsAllowed
<1>4. ASSUME AllInv(Undisputed), AllInv(Undisputed)', RunOnceInv, [Next]_vars
      PROVE  [Kept!Next]_Kept!lvars
  <2>1. promised \in SUBSET Attempts /\ (promised \in SUBSET Attempts)'
    BY <1>4 DEF AllInv, ExecutorInv, TypeOK
  <2>2. Effect(Undisputed)
    BY <1>4, StepRefines
  <2> QED BY <2>1, <2>2, EffectIsAllowed
<1>5. Spec /\ [][~StaleConfirm(Attempts)]_vars => Lifecycle
  BY <1>1, <1>3, AllInvariant, RunOnceInvariant, PTL DEF Spec, Lifecycle, Promises!Spec
<1>6. Spec => UndisputedLifecycle
  BY <1>1, <1>4, AllInvariant, RunOnceInvariant, PTL
     DEF Spec, UndisputedLifecycle, Kept!Spec
<1> QED BY <1>5, <1>6

-----------------------------------------------------------------------------
(* Cancellations of one job that do not overlap.                             *)

\* No two cancellations of one job are between their steps.
OneAtATime ==
  \A c, d \in Cancellers :
    c # d /\ Unconfirmed(c) /\ Unconfirmed(d) =>
      JobOf[canc[c].target] # JobOf[canc[d].target]

\* What a cancellation was asked for is still the execution of the job.
TargetsTracked ==
  \A c \in Cancellers : Unconfirmed(c) =>
    Tracked(canc[c].target) /\ ~st[canc[c].target].stopConfirmed

\* A step that begins no cancellation and forgets the target of none.
LEMMA TargetsUndisturbed ==
  ASSUME AllInv(Undisputed), TargetsTracked,
         \A c \in Cancellers :
           Unconfirmed(c)' => Unconfirmed(c) /\ canc'[c].target = canc[c].target,
         \A a \in Attempts :
           st[a].cancelRequested /\ rec[a].cancelRequested
           /\ Tracked(a) /\ ~st[a].stopConfirmed
             => Tracked(a)' /\ ~st'[a].stopConfirmed
  PROVE  TargetsTracked'
<1> SUFFICES ASSUME NEW c \in Cancellers, Unconfirmed(c)'
             PROVE  (Tracked(canc[c].target) /\ ~st[canc[c].target].stopConfirmed)'
  BY DEF TargetsTracked
<1>1. Unconfirmed(c) /\ canc'[c].target = canc[c].target
  OBVIOUS
<1> PICK a \in Attempts : a = canc[c].target
  BY <1>1, TargetFacts
<1>2. st[a].cancelRequested /\ rec[a].cancelRequested
  BY <1>1, TargetFacts
<1>3. Tracked(a) /\ ~st[a].stopConfirmed
  BY <1>1 DEF TargetsTracked
<1>4. Tracked(a)' /\ ~st'[a].stopConfirmed
  BY <1>2, <1>3
<1> QED BY <1>1, <1>4 DEF Tracked

\* ForgetExecution leaves an execution whose cancellation is not confirmed.
LEMMA ForgettingSpares ==
  ASSUME AllInv(Undisputed), NEW a \in Attempts, st[a].cancelRequested,
         ~st[a].stopConfirmed, Tracked(a),
         exec' = exec \/ \E j \in Jobs : ForgetExecution(j)
  PROVE  Tracked(a)'
<1>0. exec \in [Jobs -> Attempts \cup {NoAttempt}] /\ JobOf[a] \in Jobs
  BY ExecutorAssumption DEF AllInv, ExecutorInv, TypeOK
<1>1. ASSUME NEW j \in Jobs, Forgettable(j) PROVE exec[j] # a
  BY <1>1 DEF Forgettable
<1>2. ASSUME NEW j \in Jobs, ForgetExecution(j) PROVE exec'[JobOf[a]] = exec[JobOf[a]]
  <2>1. CASE Forgettable(j)
    <3>1. exec' = [exec EXCEPT ![j] = NoAttempt] /\ j # JobOf[a]
      BY <1>1, <1>2, <2>1 DEF ForgetExecution, Tracked
    <3> QED BY <1>0, <3>1
  <2> QED BY <1>2, <2>1 DEF ForgetExecution
<1> QED BY <1>2 DEF Tracked

LEMMA RunnersSpareTargets ==
  ASSUME AllInv(Undisputed), TargetsTracked, NEW b \in Attempts,
         \/ Start(b) \/ RunnerStep(b) \/ RunnerPrepareFails(b) \/ BackendStarts(b)
  PROVE  TargetsTracked'
<1>0. /\ st \in [Attempts -> Flags] /\ exec \in [Jobs -> Attempts \cup {NoAttempt}]
  BY DEF AllInv, ExecutorInv, TypeOK
<1>1. canc' = canc
  BY DEF Start, RunnerStep, RunnerEnters, RunnerAssigns, RunReturns, RunnerSettles,
         RunnerFinishes, RunnerPrepareFails, BackendStarts, outside
<1>2. CASE Start(b)
  <2>1. exec[JobOf[b]] = NoAttempt
    BY <1>2 DEF Start
  <2>2. \A a \in Attempts : Tracked(a) => a # b /\ JobOf[a] # JobOf[b]
    BY <2>1, ExecutorAssumption DEF Tracked
  <2>3. \/ exec' = exec /\ st' = st
        \/ /\ exec' = [exec EXCEPT ![JobOf[b]] = b]
           /\ st' = [st EXCEPT ![b] = [NoFlags EXCEPT !.held = TRUE]]
    BY <1>2 DEF Start
  <2>4. \A a \in Attempts : Tracked(a) => st'[a] = st[a] /\ exec'[JobOf[a]] = exec[JobOf[a]]
    BY <1>0, <2>2, <2>3, ExecutorAssumption
  <2> QED BY <1>1, <2>4, TargetsUndisturbed DEF Tracked, Unconfirmed
<1>3. CASE ~Start(b)
  <2>1. exec' = exec
    BY <1>3 DEF RunnerStep, RunnerEnters, RunnerAssigns, RunReturns, RunnerSettles,
       RunnerFinishes, RunnerPrepareFails, BackendStarts, outside
  <2>2. \/ st' = st
        \/ st' = [st EXCEPT ![b].stopUnverified = TRUE]
        \/ /\ StoppedByRunner(b)
           /\ st' = [st EXCEPT ![b] = [@ EXCEPT !.stopConfirmed = TRUE, !.held = FALSE]]
    BY <1>3 DEF RunnerStep, RunnerEnters, RunnerAssigns, RunReturns, RunnerSettles,
       RunnerFinishes, RunnerPrepareFails, BackendStarts, outside
  <2>3. ASSUME NEW a \in Attempts, st[a].cancelRequested, ~st[a].stopConfirmed
        PROVE  ~st'[a].stopConfirmed
    <3>1. CASE st' = st
      BY <2>3, <3>1
    <3>2. CASE st' = [st EXCEPT ![b].stopUnverified = TRUE]
      BY <1>0, <2>3, <3>2 DEF Flags
    <3>3. CASE /\ StoppedByRunner(b)
               /\ st' = [st EXCEPT ![b] = [@ EXCEPT !.stopConfirmed = TRUE,
                                                    !.held = FALSE]]
      <4>1. a # b
        BY <2>3, <3>3 DEF StoppedByRunner
      <4> QED BY <1>0, <2>3, <3>3, <4>1
    <3> QED BY <2>2, <3>1, <3>2, <3>3
  <2> QED BY <1>1, <2>1, <2>3, TargetsUndisturbed DEF Tracked, Unconfirmed
<1> QED BY <1>2, <1>3

LEMMA ClientsSpareTargets ==
  ASSUME AllInv(Undisputed), TargetsTracked, NEW b \in Attempts,
         \/ Defer(b) \/ BackendEnds(b) \/ RememberCancel(b) \/ RejectAttempt(b)
         \/ SendResult(b) \/ AcknowledgeResult(b)
  PROVE  TargetsTracked'
<1>1. /\ canc' = canc /\ st' = st
      /\ exec' = exec \/ ForgetExecution(JobOf[b])
  BY DEF Defer, BackendEnds, RememberCancel, RejectAttempt, SendResult,
         AcknowledgeResult, process
<1>2. JobOf[b] \in Jobs
  BY ExecutorAssumption
<1>3. exec' = exec \/ \E j \in Jobs : ForgetExecution(j)
  BY <1>1, <1>2
<1>4. \A a \in Attempts :
        st[a].cancelRequested /\ ~st[a].stopConfirmed /\ Tracked(a) => Tracked(a)'
  BY <1>3, ForgettingSpares
<1>5. \A c \in Cancellers :
        Unconfirmed(c)' => Unconfirmed(c) /\ canc'[c].target = canc[c].target
  BY <1>1 DEF Unconfirmed
<1> QED BY <1>1, <1>4, <1>5, TargetsUndisturbed

LEMMA CancellersSpareTargets ==
  ASSUME AllInv(Undisputed), TargetsTracked, NEW c \in Cancellers,
         \/ CancelRemoves(c) \/ CancelJoins(c) \/ CancelTimesOut(c)
         \/ CancelRechecks(c) \/ CancelReturns(c)
  PROVE  TargetsTracked'
<1>1. /\ canc \in [Cancellers -> Cancellation] /\ canc[c] \in Cancellation
  BY DEF AllInv, ExecutorInv, TypeOK
<1>2. st' = st /\ (exec' = exec \/ ForgetExecution(JobOf[canc[c].target]))
  BY DEF CancelRemoves, CancelJoins, CancelTimesOut, CancelRechecks, CancelReturns,
         outside
<1>3. CASE canc[c].pc # "idle"
  <2>1. JobOf[canc[c].target] \in Jobs
    BY <1>3, ExecutorAssumption DEF AllInv, ExecutorInv, CancelsHaveTargets
  <2>2. \A a \in Attempts :
          st[a].cancelRequested /\ ~st[a].stopConfirmed /\ Tracked(a) => Tracked(a)'
    BY <1>2, <2>1, ForgettingSpares
  <2>3. \/ canc' = [canc EXCEPT ![c] = NotCancelling]
        \/ /\ Unconfirmed(c)
           /\ \E pc \in CancelSteps, failed \in BOOLEAN :
                canc' = [canc EXCEPT ![c] = [canc[c] EXCEPT !.pc = pc, !.failed = failed]]
    <3>1. CASE CancelRemoves(c)
      <4>1. "wait" \in CancelSteps
        BY DEF CancelSteps
      <4> QED BY <3>1, <4>1 DEF CancelRemoves, Unconfirmed
    <3>2. CASE CancelJoins(c) \/ CancelRechecks(c)
      <4>1. \/ canc' = [canc EXCEPT ![c] = NotCancelling]
            \/ /\ Unconfirmed(c)
               /\ \E pc \in {"commit", "recheck"} :
                    canc' = [canc EXCEPT ![c].pc = pc]
        BY <3>2 DEF CancelJoins, CancelRechecks, Unconfirmed
      <4>2. ASSUME NEW pc \in {"commit", "recheck"}, canc' = [canc EXCEPT ![c].pc = pc]
            PROVE  /\ pc \in CancelSteps /\ canc[c].failed \in BOOLEAN
                   /\ canc' = [canc EXCEPT ![c] = [canc[c] EXCEPT !.pc = pc,
                                                        !.failed = canc[c].failed]]
        <5>1. [canc[c] EXCEPT !.pc = pc]
                = [canc[c] EXCEPT !.pc = pc, !.failed = canc[c].failed]
          BY <1>1 DEF Cancellation
        <5> QED BY <1>1, <4>2, <5>1 DEF Cancellation, CancelSteps
      <4> QED BY <4>1, <4>2
    <3>3. CASE CancelTimesOut(c) \/ CancelReturns(c)
      BY <3>3 DEF CancelTimesOut, CancelReturns
    <3> QED BY <3>1, <3>2, <3>3
  <2>4. ASSUME NEW d \in Cancellers, Unconfirmed(d)'
        PROVE  Unconfirmed(d) /\ canc'[d].target = canc[d].target
    <3>1. CASE d # c
      BY <1>1, <2>3, <2>4, <3>1 DEF Unconfirmed
    <3>2. CASE d = c
      <4>1. CASE canc' = [canc EXCEPT ![c] = NotCancelling]
        BY <1>1, <2>4, <3>2, <4>1 DEF Unconfirmed, NotCancelling
      <4>2. CASE /\ Unconfirmed(c)
                 /\ \E pc \in CancelSteps, failed \in BOOLEAN :
                      canc' = [canc EXCEPT ![c] = [canc[c] EXCEPT !.pc = pc,
                                                                  !.failed = failed]]
        BY <1>1, <3>2, <4>2 DEF Cancellation
      <4> QED BY <2>3, <4>1, <4>2
    <3> QED BY <3>1, <3>2
  <2> QED BY <1>2, <2>2, <2>4, TargetsUndisturbed
<1>4. canc[c].pc # "idle"
  BY DEF CancelRemoves, CancelJoins, CancelTimesOut, CancelRechecks, CancelReturns
<1> QED BY <1>3, <1>4

LEMMA BeginningTracks ==
  ASSUME AllInv(Undisputed), TargetsTracked, NEW c \in Cancellers,
         NEW b \in Attempts, CancelBegins(c, b)
  PROVE  TargetsTracked'
<1>1. /\ canc[c].pc = "idle" /\ Tracked(b) /\ exec' = exec
      /\ st \in [Attempts -> Flags] /\ canc \in [Cancellers -> Cancellation]
  BY DEF CancelBegins, AllInv, ExecutorInv, TypeOK
<1>2. \/ st' = st /\ canc' = canc
      \/ /\ canc' = [canc EXCEPT ![c] = [NotCancelling EXCEPT !.pc = "return",
                                                              !.target = b]]
         /\ st' = st
      \/ /\ ~st[b].stopConfirmed
         /\ st' = [st EXCEPT ![b].cancelRequested = TRUE]
         /\ \E pc \in {"remove", "wait"}, unstarted \in {Cancelled(b).knownUnstarted} :
              canc' = [canc EXCEPT ![c] =
                [pc |-> pc, target |-> b, knownUnstarted |-> unstarted,
                 failed |-> FALSE]]
  BY DEF CancelBegins
<1>3. \A a \in Attempts : st'[a].stopConfirmed = st[a].stopConfirmed
  BY <1>1, <1>2 DEF Flags
<1>4. ASSUME NEW d \in Cancellers, Unconfirmed(d)'
      PROVE  (Tracked(canc[d].target) /\ ~st[canc[d].target].stopConfirmed)'
  <2>1. CASE canc'[d] = canc[d]
    <3>1. Unconfirmed(d)
      BY <1>4, <2>1 DEF Unconfirmed
    <3>2. canc[d].target \in Attempts
      BY <3>1, TargetFacts
    <3>3. Tracked(canc[d].target) /\ ~st[canc[d].target].stopConfirmed
      BY <3>1 DEF TargetsTracked
    <3> QED BY <1>1, <1>3, <2>1, <3>2, <3>3 DEF Tracked
  <2>2. CASE canc'[d] # canc[d]
    <3>1. d = c
      BY <1>1, <1>2, <2>2
    <3>2. canc'[c].pc # "return"
      BY <1>4, <3>1 DEF Unconfirmed
    <3>3. canc'[c].target = b /\ ~st[b].stopConfirmed
      <4>1. CASE st' = st /\ canc' = canc
        BY <2>2, <4>1
      <4>2. CASE canc' = [canc EXCEPT ![c] = [NotCancelling EXCEPT !.pc = "return",
                                                                   !.target = b]]
        <5>1. canc'[c] = [NotCancelling EXCEPT !.pc = "return", !.target = b]
          BY <1>1, <4>2
        <5> QED BY <3>2, <5>1 DEF NotCancelling
      <4>3. CASE /\ ~st[b].stopConfirmed
                 /\ \E pc \in {"remove", "wait"},
                       unstarted \in {Cancelled(b).knownUnstarted} :
                      canc' = [canc EXCEPT ![c] =
                        [pc |-> pc, target |-> b, knownUnstarted |-> unstarted,
                         failed |-> FALSE]]
        BY <1>1, <4>3
      <4> QED BY <1>2, <4>1, <4>2, <4>3
    <3> QED BY <1>1, <1>3, <3>1, <3>3 DEF Tracked
  <2> QED BY <2>1, <2>2
<1> QED BY <1>4 DEF TargetsTracked

\* The confirmation of one cancellation releases its own attempt, and while no
\* other is at work on the job, nobody else's target.
LEMMA CommitSparesTargets ==
  ASSUME AllInv(Undisputed), TargetsTracked, OneAtATime, NEW c \in Cancellers,
         CancelCommits(c)
  PROVE  TargetsTracked'
<1>1. /\ canc[c].pc = "commit" /\ Unconfirmed(c) /\ exec' = exec
      /\ st \in [Attempts -> Flags] /\ canc \in [Cancellers -> Cancellation]
      /\ canc[c] \in Cancellation
  BY DEF CancelCommits, Unconfirmed, AllInv, ExecutorInv, TypeOK
<1> PICK b \in Attempts : b = canc[c].target
  BY <1>1, TargetFacts
<1>2. /\ \E flags \in {[st[b] EXCEPT !.stopConfirmed = TRUE, !.stopUnverified = FALSE,
                                     !.held = FALSE],
                       [st[b] EXCEPT !.stopUnverified = TRUE]} :
           st' = [st EXCEPT ![b] = flags]
      /\ \/ canc' = [canc EXCEPT ![c] = [canc[c] EXCEPT !.pc = "return"]]
         \/ canc' = [canc EXCEPT ![c] = NotCancelling]
  BY <1>1 DEF CancelCommits
<1>3. /\ \A a \in Attempts : a # b => st'[a] = st[a]
      /\ \A d \in Cancellers : d # c => canc'[d] = canc[d]
  BY <1>1, <1>2
<1>4. canc'[c].pc \in {"idle", "return"}
  BY <1>1, <1>2 DEF Cancellation, NotCancelling
<1>5. ASSUME NEW d \in Cancellers, Unconfirmed(d)'
      PROVE  (Tracked(canc[d].target) /\ ~st[canc[d].target].stopConfirmed)'
  <2>1. d # c /\ canc'[d] = canc[d]
    BY <1>3, <1>4, <1>5 DEF Unconfirmed
  <2>2. Unconfirmed(d)
    BY <1>5, <2>1 DEF Unconfirmed
  <2>3. canc[d].target \in Attempts /\ canc[d].target # b
    BY <1>1, <2>1, <2>2, TargetFacts DEF OneAtATime
  <2>4. Tracked(canc[d].target) /\ ~st[canc[d].target].stopConfirmed
    BY <2>2 DEF TargetsTracked
  <2> QED BY <1>1, <1>3, <2>1, <2>3, <2>4 DEF Tracked
<1> QED BY <1>5 DEF TargetsTracked

LEMMA TargetsKept ==
  ASSUME AllInv(Undisputed), TargetsTracked, OneAtATime, [Next]_vars
  PROVE  TargetsTracked'
<1>1. CASE UNCHANGED vars
  <2>1. UNCHANGED <<canc, st, exec>>
    BY <1>1 DEF vars, process
  <2> QED BY <2>1 DEF TargetsTracked, Unconfirmed, Tracked
<1>2. ASSUME NEW b \in Attempts, RestoreStep(b)
      PROVE  TargetsTracked'
  <2>1. mode = "restoring" /\ (canc' = canc \/ canc' = NoCancel)
    BY <1>2 DEF RestoreStep, RestoreSettled, RestoreUnstarted, RestoreNative,
       RestoreReattaches, RestoreStops, RestoreCannotVerify, Restored,
       TrackRestored, ProcessEnds
  <2>2. \A c \in Cancellers : canc'[c].pc = "idle"
    BY <2>1 DEF AllInv, ReservationInv, Joining, NoCancel, NotCancelling
  <2> QED BY <2>2 DEF TargetsTracked, Unconfirmed
<1>3. CASE Crash \/ Restart \/ RestoreEnds
  <2>1. \A c \in Cancellers : canc'[c].pc = "idle"
    <3>1. CASE Crash
      BY <3>1 DEF Crash, ProcessEnds, NoCancel, NotCancelling
    <3>2. CASE Restart \/ RestoreEnds
      <4>1. mode # "up" /\ canc' = canc
        BY <3>2 DEF Restart, RestoreEnds, process
      <4> QED BY <4>1 DEF AllInv, ReservationInv, Joining
    <3> QED BY <1>3, <3>1, <3>2
  <2> QED BY <2>1 DEF TargetsTracked, Unconfirmed
<1>4. ASSUME NEW c \in Cancellers, CancelStep(c)
      PROVE  TargetsTracked'
  BY <1>4, CancellersSpareTargets, CommitSparesTargets DEF CancelStep
<1>5. ASSUME NEW c \in Cancellers, NEW b \in Attempts, CancelBegins(c, b)
      PROVE  TargetsTracked'
  BY <1>5, BeginningTracks
<1>6. ASSUME NEW b \in Attempts,
             \/ Start(b) \/ Defer(b) \/ RunnerStep(b) \/ RunnerPrepareFails(b)
             \/ BackendStarts(b) \/ BackendEnds(b) \/ RememberCancel(b)
             \/ RejectAttempt(b) \/ SendResult(b) \/ AcknowledgeResult(b)
      PROVE  TargetsTracked'
  BY <1>6, RunnersSpareTargets, ClientsSpareTargets
<1> QED BY <1>1, <1>2, <1>3, <1>4, <1>5, <1>6 DEF Next

LEMMA TargetsStayTracked == Spec /\ []OneAtATime => []TargetsTracked
<1>1. Init => TargetsTracked
  BY DEF Init, NoCancel, NotCancelling, TargetsTracked, Unconfirmed
<1>2. AllInv(Undisputed) /\ TargetsTracked /\ OneAtATime /\ [Next]_vars => TargetsTracked'
  BY TargetsKept
<1> QED BY <1>1, <1>2, AllInvariant, PTL DEF Spec

\* While the cancellations of one job do not overlap, no confirmation is stale:
\* a cancellation that confirms a stop still finds its own attempt under the
\* job, so the flag it clears is that attempt's.  With this, what was proved for
\* a behaviour without a stale confirmation holds of every attempt.
THEOREM ExecutorConfirmsItsTarget ==
  Spec /\ []OneAtATime => [][~StaleConfirm(Attempts)]_vars
<1>1. TargetsTracked => ~StaleConfirm(Attempts)
  <2> SUFFICES ASSUME TargetsTracked, StaleConfirm(Attempts) PROVE FALSE
    OBVIOUS
  <2>1. PICK c \in Cancellers, a \in Attempts :
          /\ Tracked(a) /\ CancelCommits(c) /\ canc[c].target # a
          /\ JobOf[canc[c].target] = JobOf[a]
    BY DEF StaleConfirm
  <2>2. Unconfirmed(c)
    BY <2>1 DEF CancelCommits, Unconfirmed
  <2> QED BY <2>1, <2>2 DEF TargetsTracked, Tracked
<1> QED BY <1>1, TargetsStayTracked, PTL

\* What a removal for a job can end is the execution tracked for it.
LEMMA RemovalEndsTheTracked ==
  ASSUME AllInv(Undisputed), NEW j, NEW failed \in BOOLEAN, Remove(j, failed),
         NEW a \in Attempts, live[a], ~live'[a]
  PROVE  exec[j] = a
  BY DEF Remove, AllInv, ExecutorInv, TypeOK

\* While the cancellations of one job do not overlap, none can have the target of
\* another forgotten, so that is what a removal for the job still finds
\* (cancelContext, removeContainers).  The hypothesis is needed: executor_overlap.
THEOREM ExecutorCancelsItsTarget ==
  Spec /\ []OneAtATime => CancelTouchesOnlyItsAttempt
<1> DEFINE Touches(c, a) == /\ canc[c].pc \in {"remove", "recheck"} /\ canc'[c] # canc[c]
                            /\ live[a] /\ ~live'[a]
<1>1. ASSUME AllInv(Undisputed), TargetsTracked, Next,
             NEW c \in Cancellers, NEW a \in Attempts, Touches(c, a)
      PROVE  canc[c].target = a \/ mode' = "down"
  <2>1. canc[c].target \in Attempts /\ Tracked(canc[c].target)
    BY <1>1, TargetFacts DEF TargetsTracked, Unconfirmed
  <2>2. ASSUME NEW d \in Cancellers, CancelRemoves(d) \/ CancelRechecks(d)
        PROVE  canc[c].target = a
    <3>1. d = c
      <4>1. \E r : canc' = [canc EXCEPT ![d] = r]
        <5>1. ASSUME CancelRechecks(d), canc' = [canc EXCEPT ![d].pc = "commit"]
              PROVE  \E r : canc' = [canc EXCEPT ![d] = r]
          BY <5>1
        <5> QED BY <2>2, <5>1 DEF CancelRemoves, CancelRechecks
      <4>2. canc \in [Cancellers -> Cancellation]
        BY <1>1 DEF AllInv, ExecutorInv, TypeOK
      <4> QED BY <1>1, <4>1, <4>2
    <3>2. PICK failed \in BOOLEAN : Remove(JobOf[canc[c].target], failed)
      BY <2>2, <3>1 DEF CancelRemoves, CancelRechecks
    <3>3. exec[JobOf[canc[c].target]] = a
      BY <1>1, <3>2, RemovalEndsTheTracked
    <3> QED BY <2>1, <3>3 DEF Tracked
  <2>3. ASSUME NEW d \in Cancellers,
               CancelJoins(d) \/ CancelTimesOut(d) \/ CancelCommits(d) \/ CancelReturns(d)
        PROVE  FALSE
    BY <1>1, <2>3 DEF CancelJoins, CancelTimesOut, CancelCommits, CancelReturns, outside
  <2>4. ASSUME NEW d \in Cancellers, NEW b \in Attempts, CancelBegins(d, b) PROVE FALSE
    BY <1>1, <2>4 DEF CancelBegins
  <2>5. ASSUME NEW b \in Attempts, RestoreStep(b) PROVE FALSE
    <3>1. mode = "restoring"
      BY <2>5 DEF RestoreStep, RestoreSettled, RestoreUnstarted, RestoreNative,
         RestoreReattaches, RestoreStops, RestoreCannotVerify
    <3>2. mode = "up"
      BY <1>1, TargetFacts DEF Unconfirmed
    <3> QED BY <3>1, <3>2
  <2>6. ASSUME NEW b \in Attempts,
               \/ Start(b) \/ Defer(b) \/ RunnerStep(b) \/ RunnerPrepareFails(b)
               \/ BackendStarts(b) \/ BackendEnds(b) \/ RememberCancel(b)
               \/ RejectAttempt(b) \/ SendResult(b) \/ AcknowledgeResult(b)
        PROVE  canc' = canc
    BY <2>6
       DEF Start, Defer, RunnerStep, RunnerEnters, RunnerAssigns, RunReturns, RunnerSettles,
           RunnerFinishes, RunnerPrepareFails, BackendStarts, BackendEnds, RememberCancel,
           RejectAttempt, SendResult, AcknowledgeResult, process
  <2>7. CASE Crash
    BY <2>7 DEF Crash, ProcessEnds
  <2>8. CASE Restart \/ RestoreEnds
    BY <1>1, <2>8 DEF Restart, RestoreEnds, process
  <2> QED BY <1>1, <2>2, <2>3, <2>4, <2>5, <2>6, <2>7, <2>8 DEF Next, CancelStep
<1>2. AllInv(Undisputed) /\ TargetsTracked /\ [Next]_vars =>
        [\A c \in Cancellers, a \in Attempts :
           Touches(c, a) => canc[c].target = a \/ mode' = "down"]_vars
  BY <1>1
<1> QED BY <1>2, AllInvariant, TargetsStayTracked, PTL DEF Spec, CancelTouchesOnlyItsAttempt
=============================================================================
