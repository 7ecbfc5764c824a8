-------------------------- MODULE PoolClient_proofs --------------------------
(***************************************************************************)
(* What the pool client guarantees, for every set of attempts and jobs, any *)
(* mixture of attempts with and without tokens, every capacity, and any     *)
(* order of messages, failed writes, crashes and restarts.                  *)
(***************************************************************************)
EXTENDS PoolClient, AttemptJournal_proofs

(***************************************************************************)
(* The journal, as the client sees it.                                      *)
(***************************************************************************)

\* What no operation of the journal takes back from the record of attempt a.  Only
\* a workspace that was reported as running is reported again.
Grows(a, q, r) ==
  /\ Present(q) => Present(r)
  /\ q.cancelRequested => r.cancelRequested
  /\ q.accepted => r.accepted
  /\ q.result # "none" => /\ r.result # "none"
                          /\ RuntimeOf[a] # "workspace" => r.result = q.result

\* A record asks for the runtime of its attempt or for none, and the file of a record
\* knows whatever memory does.
Recording(a) ==
  /\ {rec[a].runtime, disk[a].runtime} \subseteq {"none", RuntimeOf[a]}
  /\ Grows(a, rec[a], disk[a])
  /\ a \in recovered => Present(rec[a])

Journals == JournalInv /\ \A a \in Attempts : Recording(a)

(***************************************************************************)
(* Starts, and what a process that is not up has in memory.                 *)
(***************************************************************************)

Startup ==
  /\ mode # "up" =>
       /\ lock = Free /\ active = NoAttempt
       /\ \A j \in Jobs : deferred[j] = NoAttempt
       /\ \A k \in Keys : cancelling[k] = NotCancelling
       /\ \A a \in Attempts :
            /\ run[a].pc \in {"idle", "done"}
            /\ run[a].tracked => run[a].held
  /\ mode = "down" =>
       \A a \in Attempts : ~run[a].tracked /\ ~tombstones[a].set
  /\ mode \in {"down", "restoring"} => results = Nothing
  /\ mode = "adopting" => results = files
  /\ mode \in {"restoring", "adopting", "loading"} => ~fault
  /\ mode = "restoring" => todo \subseteq recovered /\ todo \subseteq Recorded(rec)
                           /\ \A a \in Attempts : ~tombstones[a].set

(***************************************************************************)
(* The slot of the GPU.                                                     *)
(***************************************************************************)

Starting(a) == run[a].pc \in {"started", "entered", "running"}

\* At most one attempt is between its start and the end of runJob, and as long as it
\* is, its job has no result and no deferred retry.
Slot ==
  /\ active # NoAttempt =>
       /\ run[active].pc \in {"started", "entered", "running", "returned"}
       /\ ~Filled(JobOf[active]) /\ deferred[JobOf[active]] = NoAttempt
  /\ \A a \in Attempts :
       /\ run[a].pc \in {"started", "entered", "running", "returned"} => active = a
       /\ Starting(a) => /\ run[a].tracked /\ run[a].held
                         /\ Present(rec[a]) /\ rec[a].result = "none"
       /\ run[a].pc = "returned" =>
            run[a].outcome \in Results /\ (~fault => rec[a].result = run[a].outcome)
       /\ run[a].tracked /\ ~fault =>
            a \in recovered \/ rec[a].result # "none" \/ Starting(a)

(***************************************************************************)
(* The outbox.                                                              *)
(***************************************************************************)

\* A result is in the place of its job, or of its own if it has a token.
Placed(k, p) ==
  p # Empty =>
    /\ p.attempt \in Attempts /\ p.result \in Results
    /\ k = JobOf[p.attempt] \/ (k = p.attempt /\ HasToken(k))

\* The record of its attempt has the result p.
Explained(p) ==
  LET r == rec[p.attempt] IN
  /\ r.result # "none"
  /\ RuntimeOf[p.attempt] # "workspace" => r.result = p.result

\* The result p in the place k was left by an agent without a journal.
Inherited(k, p) == ~Present(disk[p.attempt]) /\ k = JobOf[p.attempt]

Outbox ==
  \A k \in Keys :
    /\ Placed(k, results[k]) /\ Placed(k, files[k])
    /\ Filled(k) => \/ Explained(results[k])
                    \/ mode = "adopting" /\ Inherited(k, results[k])
    /\ files[k] # Empty => \/ Explained(files[k])
                           \/ /\ mode \in {"down", "restoring", "adopting"}
                              /\ Inherited(k, files[k])
    /\ k \in Jobs /\ mode \in {"adopting", "loading", "up"} /\ files[k] # Empty =>
         results[k].attempt = files[k].attempt

Answered ==
  \A a \in Attempts :
    answers[a] # {} =>
      /\ rec[a].result # "none"
      /\ RuntimeOf[a] # "workspace" => answers[a] = {rec[a].result}

(***************************************************************************)
(* Deferred retries.                                                        *)
(***************************************************************************)

\* Attempt a is not at work, and has no result but a rejection.
Waiting(a) ==
  /\ HasToken(a) /\ a # active /\ ~run[a].tracked
  /\ rec[a].result \in {"none", "failure"}

\* A deferred attempt was admitted and never started, and nobody cancelled it.  It
\* has an answer only if it was offered again when admission was fenced.
Deferred ==
  \A j \in Jobs : deferred[j] # NoAttempt =>
    LET d == deferred[j] IN
    /\ JobOf[d] = j /\ Waiting(d)
    /\ Present(rec[d]) /\ d \notin recovered
    /\ rec[d].knownUnstarted /\ ~rec[d].cancelRequested
    /\ ~fenced => rec[d].result = "none"
    /\ cancelling[d].pc = "idle"

\* What the holder of assignmentsMu is about to reject was taken out of the queue.
Rejecting ==
  lock.pc = "reject" =>
    /\ lock.attempt \in Attempts /\ lock.key \in Keys
    /\ cancelling[lock.key].pc = "idle"
    /\ Waiting(lock.attempt)
    /\ deferred[JobOf[lock.attempt]] = NoAttempt
    /\ lock.key \in Attempts => /\ lock.key = lock.attempt
                                /\ rec[lock.key].cancelRequested

\* A cancellation is remembered in the journal before it is in memory.
Entombing == \A a \in Attempts : tombstones[a].set => rec[a].cancelRequested

(***************************************************************************)
(* Cancellations.                                                           *)
(***************************************************************************)

\* A cancelled attempt that does not work never will.
Barred(a) == rec[a].cancelRequested /\ ~Working(a)

Stops ==
  /\ \A k \in Keys :
       LET a == cancelling[k].target IN
       /\ cancelling[k].pc = "wait" =>
            /\ a \in Attempts /\ JobOf[a] = JobOfKey(k)
            /\ rec[a].cancelRequested
            /\ k \in Attempts => a = k
       /\ cancelling[k].pc = "stopped" =>
            /\ a # NoAttempt => Barred(a) /\ (k \in Attempts => a = k)
            /\ k \in Attempts => Barred(k)
  /\ \A a \in promised : Barred(a)

\* Who waits for a tracked execution that is over: the result of its job, or the
\* canceller that stopped it.
Awaited ==
  ~fault => \A a \in Attempts :
    run[a].tracked /\ ~run[a].held /\ run[a].pc = "done" =>
      \/ Filled(JobOf[a])
      \/ \E k \in Keys : /\ cancelling[k].pc = "stopped" /\ cancelling[k].target = a
                         /\ JobOfKey(k) = JobOf[a]

\* A job's attempts all have tokens or none has.  A job that is ever cancelled by
\* its name alone (ClientAssumption) is then one dispatched without tokens.
NoMixedJobs ==
  \A a, b \in Attempts : JobOf[a] = JobOf[b] => (HasToken(a) <=> HasToken(b))

Queued ==
  mode \in {"loading", "up"} /\ ~fault =>
    \A a \in Attempts :
      rec[a].result # "none" /\ ~rec[a].accepted =>
        \/ mode = "loading" /\ a \in todo
        \/ \E k \in Keys : results[k].attempt = a
        \/ run[a].pc = "returned"

(***************************************************************************)
(* The induction.                                                           *)
(***************************************************************************)

ClientTypes ==
  /\ OutboxTypeOK
  /\ mode \in {"down", "restoring", "adopting", "loading", "up"}
  /\ todo \in SUBSET Attempts
  /\ lock \in [pc : {"free", "drain", "reject"}, key : Keys \cup {NoAttempt},
               attempt : Attempts \cup {NoAttempt}]
  /\ tombstones \in [Attempts -> Tombstone]
  /\ fenced \in BOOLEAN
  /\ deferred \in [Jobs -> Attempts \cup {NoAttempt}]
  /\ active \in Attempts \cup {NoAttempt}
  /\ cancelling \in [Keys -> Cancellation]
  /\ run \in [Attempts -> Run]
  /\ answers \in [Attempts -> SUBSET Results]
  /\ promised \in SUBSET Attempts

ClientInv ==
  /\ Journals
  /\ ClientTypes
  /\ Startup
  /\ Slot
  /\ Outbox
  /\ Answered
  /\ Deferred
  /\ Rejecting
  /\ Entombing
  /\ Stops
  /\ Awaited
  /\ NoMixedJobs => Queued

(***************************************************************************)
(* The operations of the journal.                                           *)
(***************************************************************************)

\* What every operation does to the records: nothing when the journal is fenced, and
\* never less than before.
Moves ==
  /\ Journals'
  /\ recovered' = recovered
  /\ fault => fault' /\ rec' = rec
  /\ \A a \in Attempts : Grows(a, rec[a], rec'[a])

\* The record of a is the only one that changes.
Only(a) == \A b \in Attempts : b # a => rec'[b] = rec[b]

LEMMA GrowsItself == ASSUME NEW a, NEW r PROVE Grows(a, r, r)
BY DEF Grows

LEMMA StillMoves ==
  ASSUME Journals, UNCHANGED jvars
  PROVE  Moves /\ rec' = rec /\ fault' = fault
<1>1. JournalInv'
  BY UnchangedKeepsInv DEF Journals
<1>2. \A a \in Attempts : Recording(a)'
  BY DEF Journals, Recording, jvars, Grows, Present
<1> QED BY <1>1, <1>2, GrowsItself DEF Moves, Journals, jvars

LEMMA StoreMoves ==
  ASSUME Journals, JournalInv',
         NEW a \in Attempts, NEW r \in Record, NEW ok \in BOOLEAN,
         Grows(a, rec[a], r), r.runtime \in {"none", RuntimeOf[a]}, Store(a, r, ok)
  PROVE  /\ Moves /\ Only(a)
         /\ ok => ~fault /\ ~fault' /\ rec' = [rec EXCEPT ![a] = r] /\ rec'[a] = r
         /\ ~ok => rec' = rec /\ fault'
<1>1. rec \in [Attempts -> Record] /\ disk \in [Attempts -> Record]
  BY DEF Journals, JournalInv, JournalTypeOK
<1>2. recovered' = recovered
  BY DEF Store, Written, Fenced, jvars
<1>3. CASE ~fault /\ ok /\ Written(a, r)
  <2>1. /\ rec' = [rec EXCEPT ![a] = r] /\ disk' = [disk EXCEPT ![a] = r] /\ ~fault'
    BY <1>3 DEF Written
  <2>2. rec'[a] = r /\ disk'[a] = r
    BY <1>1, <2>1
  <2>3. \A b \in Attempts : b # a => rec'[b] = rec[b] /\ disk'[b] = disk[b]
    BY <1>1, <2>1
  <2>4. \A b \in Attempts : Recording(b)'
    <3>1. Recording(a)'
      BY <1>2, <2>2 DEF Journals, Recording, Grows
    <3>2. ASSUME NEW b \in Attempts, b # a PROVE Recording(b)'
      BY <1>2, <2>3, <3>2 DEF Journals, Recording, Grows, Present
    <3> QED BY <3>1, <3>2
  <2>5. \A b \in Attempts : Grows(b, rec[b], rec'[b])
    BY <2>2, <2>3, GrowsItself
  <2> QED BY <1>2, <1>3, <2>1, <2>2, <2>3, <2>4, <2>5 DEF Moves, Only, Journals
<1>4. CASE ~fault /\ ~ok /\ Fenced(a, r)
  <2>1. rec' = rec /\ fault' /\ disk' \in {disk, [disk EXCEPT ![a] = r]}
    BY <1>4 DEF Fenced
  <2>2. disk'[a] \in {disk[a], r} /\ \A b \in Attempts : b # a => disk'[b] = disk[b]
    BY <1>1, <2>1
  <2>3. \A b \in Attempts : Recording(b)'
    <3>1. Recording(a)'
      BY <1>2, <2>1, <2>2 DEF Journals, Recording, Grows, Present
    <3>2. ASSUME NEW b \in Attempts, b # a PROVE Recording(b)'
      BY <1>2, <2>1, <2>2, <3>2 DEF Journals, Recording, Grows, Present
    <3> QED BY <3>1, <3>2
  <2> QED BY <1>2, <1>4, <2>1, <2>3, GrowsItself DEF Moves, Only, Journals
<1>5. CASE fault /\ ~ok /\ UNCHANGED jvars
  BY <1>5, StillMoves DEF Only
<1> QED BY <1>3, <1>4, <1>5 DEF Store

LEMMA RecordFacts ==
  ASSUME Journals, NEW a \in Attempts
  PROVE  /\ rec[a] \in Record /\ rec[a].runtime \in {"none", RuntimeOf[a]}
         /\ ~Present(rec[a]) => rec[a] = NoRecord
BY DEF Journals, JournalInv, JournalTypeOK, AbsentIsFresh, Recording

LEMMA AdmitMoves ==
  ASSUME Journals, NEW a \in Attempts, NEW ok \in BOOLEAN, Admit(a, ok)
  PROVE  /\ Moves /\ Only(a)
         /\ ok => /\ Admissible(a) /\ ~fault /\ ~fault'
                  /\ Present(rec'[a]) /\ rec'[a].knownUnstarted
                  /\ ~rec'[a].cancelRequested
                  /\ rec[a].result = "none" /\ rec'[a].result = "none"
         /\ ~ok => rec' = rec
<1>1. JournalInv'
  BY AdmitKeepsInv DEF Journals
<1>2. CASE Admissible(a) /\ Store(a, Admitted(a), ok)
  <2>1. /\ Admitted(a) \in Record /\ Admitted(a).runtime = RuntimeOf[a]
        /\ Admitted(a).knownUnstarted /\ Present(Admitted(a))
        /\ Admitted(a).cancelRequested = rec[a].cancelRequested
        /\ Admitted(a).result = rec[a].result /\ Admitted(a).accepted = rec[a].accepted
    BY RecordFacts, JournalAssumption DEF Admitted, Record, Present
  <2>2. rec[a].result = "none" /\ ~rec[a].cancelRequested
    BY <1>2, RecordFacts DEF Admissible, NoRecord
  <2>3. Grows(a, rec[a], Admitted(a))
    BY <2>1 DEF Grows
  <2> QED BY <1>1, <1>2, <2>1, <2>2, <2>3, StoreMoves
<1>3. CASE Refused(ok)
  BY <1>3, StillMoves DEF Refused, Only
<1> QED BY <1>2, <1>3 DEF Admit

LEMMA RunningMoves ==
  ASSUME Journals, NEW a \in Attempts, NEW ok \in BOOLEAN, Running(a, ok)
  PROVE  /\ Moves /\ Only(a)
         /\ ok => ~rec[a].cancelRequested
         /\ rec'[a].result = rec[a].result
         /\ ~ok => rec' = rec
<1> DEFINE r == [rec[a] EXCEPT !.phase = "running", !.knownUnstarted = FALSE]
<1>1. JournalInv'
  BY RunningKeepsInv DEF Journals
<1>2. CASE rec[a].knownUnstarted /\ ~rec[a].cancelRequested /\ Store(a, r, ok)
  <2>1. /\ r \in Record /\ r.runtime = rec[a].runtime /\ Present(r)
        /\ r.cancelRequested = rec[a].cancelRequested
        /\ r.result = rec[a].result /\ r.accepted = rec[a].accepted
    <3>1. rec[a] \in Record
      BY RecordFacts
    <3>2. r \in Record
      BY <3>1 DEF Record
    <3> QED BY <3>1, <3>2 DEF Record, Present
  <2> HIDE DEF r
  <2>2. Grows(a, rec[a], r) /\ r.runtime \in {"none", RuntimeOf[a]}
    BY <2>1, RecordFacts DEF Grows
  <2> QED BY <1>1, <1>2, <2>1, <2>2, StoreMoves
<1>3. CASE Refused(ok)
  BY <1>3, StillMoves DEF Refused, Only
<1> QED BY <1>2, <1>3 DEF Running

LEMMA AssignMoves ==
  ASSUME Journals, NEW a \in Attempts, NEW ok \in BOOLEAN, AssignDockerDaemon(a, ok)
  PROVE  Moves /\ Only(a) /\ rec'[a].result = rec[a].result
<1> DEFINE r == [rec[a] EXCEPT !.daemon = TRUE]
<1>1. JournalInv'
  BY AssignDockerDaemonKeepsInv DEF Journals
<1>2. CASE Store(a, r, ok)
  <2>1. /\ r \in Record /\ r.runtime = rec[a].runtime /\ r.phase = rec[a].phase
        /\ r.cancelRequested = rec[a].cancelRequested
        /\ r.result = rec[a].result /\ r.accepted = rec[a].accepted
    <3>1. rec[a] \in Record
      BY RecordFacts
    <3>2. r \in Record
      BY <3>1 DEF Record
    <3> QED BY <3>1, <3>2 DEF Record
  <2> HIDE DEF r
  <2>2. Grows(a, rec[a], r) /\ r.runtime \in {"none", RuntimeOf[a]}
    BY <2>1, RecordFacts DEF Grows, Present
  <2> QED BY <1>1, <1>2, <2>1, <2>2, StoreMoves
<1>3. CASE Refused(ok)
  BY <1>3, StillMoves DEF Refused, Only
<1> QED BY <1>2, <1>3 DEF AssignDockerDaemon

\* A completion with a result is the first one of its attempt, or takes back that a
\* workspace is running.
LEMMA CompleteMoves ==
  ASSUME Journals, NEW a \in Attempts, NEW ok \in BOOLEAN,
         NEW result \in Results \cup {"none"}, NEW stopped \in BOOLEAN,
         Complete(a, result, stopped, ok),
         \/ result = "none" \/ result = rec[a].result
         \/ rec[a].result = "none" \/ RuntimeOf[a] = "workspace"
  PROVE  /\ Moves /\ Only(a)
         /\ ok => /\ ~fault'
                  /\ rec'[a].result = IF result = "none" THEN rec[a].result ELSE result
         /\ ~ok => rec' = rec /\ (Present(rec[a]) => fault')
<1>1. JournalInv'
  BY CompleteKeepsInv DEF Journals
<1>2. CASE Present(rec[a]) /\ Store(a, Completed(a, result, stopped), ok)
  <2> DEFINE kept == IF result = "none" THEN rec[a].result ELSE result
             blocked == /\ ~stopped
                        /\ ~(rec[a].runtime = "workspace" /\ kept = "success")
                        /\ ~rec[a].knownUnstarted
             r == [rec[a] EXCEPT !.phase = "finished", !.stopVerified = stopped,
                                 !.result = kept, !.replayBlocked = blocked]
  <2>1. Completed(a, result, stopped) = r
    BY DEF Completed
  <2>2. kept \in Results \cup {"none"} /\ blocked \in BOOLEAN
    BY RecordFacts DEF Record
  <2>3. /\ r \in Record /\ r.runtime = rec[a].runtime /\ Present(r)
        /\ r.cancelRequested = rec[a].cancelRequested
        /\ r.result = kept /\ r.accepted = rec[a].accepted
    <3> HIDE DEF kept, blocked
    <3>1. rec[a] \in Record
      BY RecordFacts
    <3>2. r \in Record
      BY <2>2, <3>1 DEF Record
    <3> QED BY <3>1, <3>2 DEF Record, Present
  <2>4. kept # "none" \/ rec[a].result = "none"
    BY DEF Results
  <2>5. Grows(a, rec[a], r) /\ r.runtime \in {"none", RuntimeOf[a]}
    <3> HIDE DEF r
    <3> QED BY <2>3, <2>4, RecordFacts DEF Grows
  <2> HIDE DEF r
  <2> QED BY <1>1, <1>2, <2>1, <2>3, <2>5, StoreMoves
<1>3. CASE ~Present(rec[a]) /\ Refused(ok)
  BY <1>3, StillMoves DEF Refused, Only
<1> QED BY <1>2, <1>3 DEF Complete

LEMMA CancellationMoves ==
  ASSUME Journals, NEW a \in Attempts, NEW ok \in BOOLEAN, RememberCancellation(a, ok)
  PROVE  /\ Moves /\ Only(a)
         /\ ok => ~fault' /\ rec'[a].cancelRequested
         /\ rec'[a].result = rec[a].result
         /\ rec'[a].knownUnstarted \/ ~rec[a].knownUnstarted
         /\ ~ok => rec' = rec
<1>1. JournalInv'
  BY RememberCancellationKeepsInv DEF Journals
<1>2. CASE Store(a, Cancelled(a), ok)
  <2> DEFINE never == /\ Docker(rec[a].runtime) /\ ~rec[a].daemon
                      /\ rec[a].phase = "running"
             phase == IF ~Present(rec[a]) THEN "unknown"
                      ELSE IF never THEN "unstarted" ELSE rec[a].phase
             known == rec[a].knownUnstarted \/ never
             r == [rec[a] EXCEPT !.cancelRequested = TRUE,
                                 !.phase = phase, !.knownUnstarted = known]
  <2>1. Cancelled(a) = r
    BY DEF Cancelled
  <2>2. known \in BOOLEAN /\ (rec[a].knownUnstarted => known)
    OBVIOUS
  <2>3. phase \in {"absent", "unknown", "unstarted", "running", "finished"}
        /\ phase # "absent"
    BY RecordFacts DEF Record, Present
  <2>4. /\ r \in Record /\ r.runtime = rec[a].runtime /\ Present(r)
        /\ r.cancelRequested /\ r.knownUnstarted = known
        /\ r.result = rec[a].result /\ r.accepted = rec[a].accepted
    <3> HIDE DEF phase, known
    <3>1. rec[a] \in Record
      BY RecordFacts
    <3>2. r \in Record
      BY <2>2, <2>3, <3>1 DEF Record
    <3> QED BY <2>3, <3>1, <3>2 DEF Record, Present
  <2> HIDE DEF r, known
  <2>5. Grows(a, rec[a], r) /\ r.runtime \in {"none", RuntimeOf[a]}
    BY <2>4, RecordFacts DEF Grows
  <2> QED BY <1>1, <1>2, <2>1, <2>2, <2>4, <2>5, StoreMoves
<1>3. CASE Refused(ok)
  BY <1>3, StillMoves DEF Refused, Only
<1> QED BY <1>2, <1>3 DEF RememberCancellation

LEMMA ResultMoves ==
  ASSUME Journals, NEW a \in Attempts, NEW ok \in BOOLEAN, NEW result \in Results,
         RememberResult(a, result, ok)
  PROVE  /\ Moves /\ Only(a)
         /\ ok => /\ ~fault'
                  /\ rec'[a].result =
                       IF rec[a].result = "none" THEN result ELSE rec[a].result
         /\ ~ok => rec' = rec
         /\ rec[a].result # "none" => ok = ~fault /\ rec' = rec
         /\ ~ok /\ rec[a].result = "none" /\ Present(rec[a]) => fault'
         /\ Present(rec[a]) => /\ rec'[a].knownUnstarted = rec[a].knownUnstarted
                               /\ rec'[a].cancelRequested = rec[a].cancelRequested
<1>1. JournalInv'
  BY RememberResultKeepsInv DEF Journals
<1>2. CASE rec[a].result # "none" /\ ok = ~fault /\ UNCHANGED jvars
  <2>1. Moves /\ rec' = rec /\ fault' = fault
    BY <1>2, StillMoves
  <2>2. (ok => ~fault') /\ Only(a)
    BY <1>2, <2>1 DEF Only
  <2> QED BY <1>2, <2>1, <2>2
<1>3. CASE rec[a].result = "none" /\ Store(a, ResultRemembered(a, result), ok)
  <2> DEFINE r == ResultRemembered(a, result)
             blocked == \/ rec[a].replayBlocked
                        \/ rec[a].phase = "unknown" /\ ~rec[a].stopVerified
  <2>1. /\ r \in Record /\ r.runtime = rec[a].runtime /\ Present(r)
        /\ r.cancelRequested = rec[a].cancelRequested
        /\ r.result = result /\ r.accepted = rec[a].accepted
        /\ Present(rec[a]) => r.knownUnstarted = rec[a].knownUnstarted
    <3>1. CASE Present(rec[a])
      <4>1. r = [rec[a] EXCEPT !.result = result, !.replayBlocked = blocked]
        BY <3>1 DEF ResultRemembered
      <4>2. blocked \in BOOLEAN
        OBVIOUS
      <4>3. rec[a] \in Record
        BY RecordFacts
      <4> HIDE DEF r, blocked
      <4>4. r \in Record
        BY <4>1, <4>2, <4>3 DEF Record
      <4> QED BY <3>1, <4>1, <4>3, <4>4 DEF Record, Present
    <3>2. CASE ~Present(rec[a])
      BY <3>2, RecordFacts DEF ResultRemembered, Record, Present
    <3> QED BY <3>1, <3>2
  <2> HIDE DEF r
  <2>2. Grows(a, rec[a], r) /\ r.runtime \in {"none", RuntimeOf[a]}
    BY <1>3, <2>1, RecordFacts DEF Grows
  <2>3. Store(a, r, ok)
    BY <1>3 DEF r
  <2> QED BY <1>1, <1>3, <2>1, <2>2, <2>3, StoreMoves
<1>4. CASE rec[a].result = "none" /\ ~Present(rec[a]) /\ Refused(ok)
  BY <1>4, StillMoves DEF Refused, Only
<1> QED BY <1>2, <1>3, <1>4 DEF RememberResult

LEMMA LegacyMoves ==
  ASSUME Journals, NEW a \in Attempts, NEW result \in Results,
         RememberLegacyResult(a, result, TRUE), ~Present(rec[a])
  PROVE  /\ Moves /\ Only(a) /\ ~fault'
         /\ Present(rec'[a]) /\ rec'[a].result = result
<1> DEFINE r == [rec[a] EXCEPT !.phase = "unknown", !.legacy = TRUE,
                               !.result = result, !.replayBlocked = TRUE]
<1>1. JournalInv'
  BY RememberLegacyResultKeepsInv DEF Journals
<1>2. Store(a, r, TRUE)
  BY DEF RememberLegacyResult, Refused
<1>3. rec[a].result = "none"
  BY RecordFacts DEF NoRecord
<1>4. /\ r \in Record /\ r.runtime = rec[a].runtime /\ Present(r)
      /\ r.cancelRequested = rec[a].cancelRequested
      /\ r.result = result /\ r.accepted = rec[a].accepted
  <2>1. rec[a] \in Record
    BY RecordFacts
  <2>2. r \in Record
    BY <2>1 DEF Record
  <2> QED BY <2>1, <2>2 DEF Record, Present
<1> HIDE DEF r
<1>5. Grows(a, rec[a], r) /\ r.runtime \in {"none", RuntimeOf[a]}
  BY <1>3, <1>4, RecordFacts DEF Grows
<1> QED BY <1>1, <1>2, <1>4, <1>5, StoreMoves

LEMMA BlockMoves ==
  ASSUME Journals, NEW a \in Attempts, NEW blocked \in BOOLEAN,
         BlockReplay(a, blocked, TRUE)
  PROVE  Moves /\ Only(a) /\ ~fault' /\ rec'[a].result = rec[a].result
<1> DEFINE r == [rec[a] EXCEPT !.replayBlocked = blocked]
<1>1. JournalInv'
  BY BlockReplayKeepsInv DEF Journals
<1>2. CASE ~fault /\ UNCHANGED jvars
  BY <1>2, StillMoves DEF Only
<1>3. CASE Store(a, r, TRUE)
  <2>1. /\ r \in Record /\ r.runtime = rec[a].runtime /\ r.phase = rec[a].phase
        /\ r.cancelRequested = rec[a].cancelRequested
        /\ r.result = rec[a].result /\ r.accepted = rec[a].accepted
    <3>1. rec[a] \in Record
      BY RecordFacts
    <3>2. r \in Record
      BY <3>1 DEF Record
    <3> QED BY <3>1, <3>2 DEF Record
  <2> HIDE DEF r
  <2>2. Grows(a, rec[a], r) /\ r.runtime \in {"none", RuntimeOf[a]}
    BY <2>1, RecordFacts DEF Grows, Present
  <2> QED BY <1>1, <1>3, <2>1, <2>2, StoreMoves
<1> QED BY <1>2, <1>3 DEF BlockReplay, Refused

LEMMA AcceptMoves ==
  ASSUME Journals, NEW a \in Attempts, NEW ok \in BOOLEAN, Accept(a, ok)
  PROVE  /\ Moves /\ Only(a)
         /\ ok => ~fault' /\ (Present(rec[a]) => rec'[a].accepted)
         /\ rec'[a].result = rec[a].result
         /\ rec'[a].knownUnstarted = rec[a].knownUnstarted
         /\ rec'[a].cancelRequested = rec[a].cancelRequested
         /\ ~ok => rec' = rec
<1> DEFINE r == [rec[a] EXCEPT !.accepted = TRUE]
<1>1. JournalInv'
  BY AcceptKeepsInv DEF Journals
<1>2. CASE ~Present(rec[a]) /\ ok = ~fault /\ UNCHANGED jvars
  <2>1. Moves /\ rec' = rec /\ fault' = fault
    BY <1>2, StillMoves
  <2>2. (ok => ~fault') /\ Only(a)
    BY <1>2, <2>1 DEF Only
  <2> QED BY <1>2, <2>1, <2>2
<1>3. CASE Store(a, r, ok)
  <2>1. /\ r \in Record /\ r.runtime = rec[a].runtime /\ r.phase = rec[a].phase
        /\ r.cancelRequested = rec[a].cancelRequested
        /\ r.knownUnstarted = rec[a].knownUnstarted
        /\ r.result = rec[a].result /\ r.accepted
    <3>1. rec[a] \in Record
      BY RecordFacts
    <3>2. r \in Record
      BY <3>1 DEF Record
    <3> QED BY <3>1, <3>2 DEF Record
  <2> HIDE DEF r
  <2>2. Grows(a, rec[a], r) /\ r.runtime \in {"none", RuntimeOf[a]}
    BY <2>1, RecordFacts DEF Grows, Present
  <2> QED BY <1>1, <1>3, <2>1, <2>2, StoreMoves
<1> QED BY <1>2, <1>3 DEF Accept

LEMMA RecoverMoves ==
  ASSUME Journals, NEW a \in Attempts, RecoverUnstarted(a, TRUE)
  PROVE  /\ Moves /\ Only(a) /\ ~fault'
         /\ rec'[a].result =
              IF rec[a].result = "none" THEN "failure" ELSE rec[a].result
<1> DEFINE result == IF rec[a].result = "none" THEN "failure" ELSE rec[a].result
           r == [rec[a] EXCEPT
                   !.knownUnstarted = TRUE, !.stopVerified = TRUE,
                   !.replayBlocked = FALSE, !.phase = "finished",
                   !.result = result]
<1>1. JournalInv'
  BY RecoverUnstartedKeepsInv DEF Journals
<1>2. Store(a, r, TRUE)
  BY DEF RecoverUnstarted, Refused
<1>3. result \in Results /\ (rec[a].result # "none" => result = rec[a].result)
  BY RecordFacts DEF Record, Results
<1>4. /\ r \in Record /\ r.runtime = rec[a].runtime /\ Present(r)
      /\ r.cancelRequested = rec[a].cancelRequested
      /\ r.result = result /\ r.accepted = rec[a].accepted
  <2> HIDE DEF result
  <2>1. rec[a] \in Record
    BY RecordFacts
  <2>2. r \in Record
    BY <1>3, <2>1 DEF Record
  <2> QED BY <2>1, <2>2 DEF Record, Present
<1> HIDE DEF r, result
<1>5. Grows(a, rec[a], r) /\ r.runtime \in {"none", RuntimeOf[a]}
  BY <1>3, <1>4, RecordFacts DEF Grows, Results
<1>6. Moves /\ Only(a) /\ ~fault' /\ rec'[a].result = result
  BY <1>1, <1>2, <1>4, <1>5, StoreMoves
<1> QED BY <1>6 DEF result

(***************************************************************************)
(* What a step that leaves a part of the state alone keeps of the invariant. *)
(***************************************************************************)

LEMMA KeysApart ==
  /\ Jobs \subseteq Keys /\ Attempts \subseteq Keys
  /\ \A a \in Attempts : JobOf[a] \in Jobs /\ a \notin Jobs /\ a # NoAttempt
  /\ \A j \in Jobs : j \notin Attempts
BY OutboxAssumption DEF Keys

LEMMA EmptyHasNoAttempt ==
  ASSUME NEW k, NEW p, Placed(k, p)
  PROVE  p.attempt = NoAttempt <=> p = Empty
BY OutboxAssumption DEF Placed, Empty

LEMMA ExplainedStays ==
  ASSUME Moves, NEW p, p.attempt \in Attempts, Explained(p)
  PROVE  /\ rec'[p.attempt].result # "none"
         /\ RuntimeOf[p.attempt] # "workspace" => rec'[p.attempt].result = p.result
BY DEF Moves, Explained, Grows

LEMMA OutboxStays ==
  ASSUME Outbox, Moves, UNCHANGED outboxVars, mode = "up", mode' = "up"
  PROVE  Outbox'
<1> SUFFICES ASSUME NEW k \in Keys
             PROVE  /\ Filled(k)' => Explained(results[k])'
                    /\ files'[k] # Empty => Explained(files[k])'
  BY DEF Outbox, outboxVars
<1>1. results' = results /\ files' = files
  BY DEF outboxVars
<1>2. ASSUME Filled(k)' PROVE Explained(results[k])'
  <2>1. results[k].attempt \in Attempts /\ Explained(results[k])
    BY <1>1, <1>2 DEF Outbox, Placed, Filled
  <2> QED BY <1>1, <2>1, ExplainedStays DEF Explained
<1>3. ASSUME files'[k] # Empty PROVE Explained(files[k])'
  <2>1. files[k].attempt \in Attempts /\ Explained(files[k])
    BY <1>1, <1>3 DEF Outbox, Placed
  <2> QED BY <1>1, <2>1, ExplainedStays DEF Explained
<1> QED BY <1>2, <1>3

LEMMA AnsweredStays ==
  ASSUME Answered, Moves, UNCHANGED answers
  PROVE  Answered'
BY DEF Answered, Moves, Grows

\* No execution takes a step, and none that is under way is forgotten.
SameSteps ==
  \A a \in Attempts :
    /\ run'[a].pc = run[a].pc /\ run'[a].outcome = run[a].outcome
    /\ run'[a].tracked => run[a].tracked
    /\ Starting(a) => run'[a].tracked /\ run'[a].held

LEMMA SlotKeeps ==
  ASSUME Slot, ClientTypes, Moves, SameSteps, active' = active,
         active # NoAttempt => /\ rec'[active].result = rec[active].result
                               /\ ~Filled(JobOf[active])'
                               /\ deferred'[JobOf[active]] = NoAttempt
  PROVE  Slot'
<1>1. active' # NoAttempt =>
        /\ run'[active'].pc \in {"started", "entered", "running", "returned"}
        /\ ~Filled(JobOf[active])' /\ deferred'[JobOf[active']] = NoAttempt
  BY DEF Slot, SameSteps, ClientTypes
<1>2. \A a \in Attempts : /\ Present(rec[a]) => Present(rec'[a])
                          /\ rec[a].result # "none" => rec'[a].result # "none"
  BY DEF Moves, Grows
<1>3. recovered' = recovered /\ (fault => fault')
  BY DEF Moves
<1>4. ASSUME NEW a \in Attempts, run[a].pc \in {"started", "entered", "running", "returned"}
      PROVE  active = a /\ rec'[a].result = rec[a].result
  BY <1>4, OutboxAssumption DEF Slot
<1>5. \A a \in Attempts : Starting(a)' <=> Starting(a)
  BY DEF SameSteps, Starting
<1>6. ASSUME NEW a \in Attempts
      PROVE  /\ Starting(a)' => /\ run'[a].tracked /\ run'[a].held
                                /\ Present(rec'[a]) /\ rec'[a].result = "none"
             /\ run'[a].pc = "returned" =>
                  run'[a].outcome \in Results /\ (~fault' => rec'[a].result = run'[a].outcome)
             /\ run'[a].tracked /\ ~fault' =>
                  a \in recovered' \/ rec'[a].result # "none" \/ Starting(a)'
  <2>1. Starting(a)' => /\ run'[a].tracked /\ run'[a].held
                        /\ Present(rec'[a]) /\ rec'[a].result = "none"
    BY <1>2, <1>4, <1>5 DEF Slot, SameSteps, Starting
  <2>2. run'[a].pc = "returned" =>
          run'[a].outcome \in Results /\ (~fault' => rec'[a].result = run'[a].outcome)
    BY <1>3, <1>4 DEF Slot, SameSteps
  <2>3. run'[a].tracked /\ ~fault' =>
          a \in recovered' \/ rec'[a].result # "none" \/ Starting(a)'
    BY <1>2, <1>3, <1>5 DEF Slot, SameSteps
  <2> QED BY <2>1, <2>2, <2>3
<1>7. \A a \in Attempts :
        run'[a].pc \in {"started", "entered", "running", "returned"} => active' = a
  BY <1>4 DEF SameSteps
<1> QED BY <1>1, <1>6, <1>7 DEF Slot

LEMMA SlotStays ==
  ASSUME Slot, ClientTypes, Moves, UNCHANGED <<run, active>>,
         active # NoAttempt => /\ rec'[active].result = rec[active].result
                               /\ ~Filled(JobOf[active])'
                               /\ deferred'[JobOf[active]] = NoAttempt
  PROVE  Slot'
<1>1. SameSteps
  BY DEF SameSteps, Slot
<1> QED BY <1>1, SlotKeeps

\* Nothing a deferred attempt depends on changes.
Untouched(a) ==
  /\ a # active' /\ ~run'[a].tracked /\ cancelling'[a].pc = "idle"
  /\ rec'[a].knownUnstarted = rec[a].knownUnstarted
  /\ rec'[a].cancelRequested = rec[a].cancelRequested
  /\ rec'[a].result \in {rec[a].result, "failure"}
  /\ rec'[a].result = rec[a].result \/ fenced'

LEMMA DeferredStays ==
  ASSUME Deferred, Moves, fenced => fenced',
         \A j \in Jobs : deferred'[j] # NoAttempt =>
            deferred'[j] = deferred[j] /\ deferred[j] \in Attempts /\ Untouched(deferred[j])
  PROVE  Deferred'
<1> SUFFICES ASSUME NEW j \in Jobs, NEW d \in Attempts,
                    deferred'[j] = d, deferred[j] = d, Untouched(d)
             PROVE  /\ JobOf[d] = j /\ Waiting(d)'
                    /\ Present(rec'[d]) /\ d \notin recovered'
                    /\ rec'[d].knownUnstarted /\ ~rec'[d].cancelRequested
                    /\ ~fenced' => rec'[d].result = "none"
                    /\ cancelling'[d].pc = "idle"
  BY DEF Deferred, Waiting
<1>2. /\ JobOf[d] = j /\ HasToken(d) /\ rec[d].result \in {"none", "failure"}
      /\ Present(rec[d]) /\ d \notin recovered
      /\ rec[d].knownUnstarted /\ ~rec[d].cancelRequested
      /\ ~fenced => rec[d].result = "none"
  BY OutboxAssumption DEF Deferred, Waiting
<1>3. Present(rec'[d]) /\ recovered' = recovered
  BY <1>2 DEF Moves, Grows
<1>4. Waiting(d)'
  BY <1>2 DEF Waiting, Untouched
<1> QED BY <1>2, <1>3, <1>4 DEF Untouched

LEMMA RejectingStays ==
  ASSUME Rejecting, UNCHANGED lock,
         lock.pc = "reject" =>
           /\ lock.attempt # active' /\ ~run'[lock.attempt].tracked
           /\ rec'[lock.attempt].result \in {rec[lock.attempt].result, "failure"}
           /\ deferred'[JobOf[lock.attempt]] = NoAttempt
           /\ cancelling'[lock.key].pc = "idle"
           /\ lock.key \in Attempts /\ rec[lock.key].cancelRequested =>
                rec'[lock.key].cancelRequested
  PROVE  Rejecting'
BY DEF Rejecting, Waiting

LEMMA EntombingStays ==
  ASSUME Entombing, Moves, UNCHANGED tombstones
  PROVE  Entombing'
BY DEF Entombing, Moves, Grows

LEMMA BarredStays ==
  ASSUME Moves, NEW a \in Attempts, Barred(a), Working(a)' => Working(a)
  PROVE  Barred(a)'
BY DEF Moves, Grows, Barred

LEMMA StopsStays ==
  ASSUME Stops, ClientTypes, Moves, promised' = promised,
         \A k \in Keys : \/ cancelling'[k] = cancelling[k]
                         \/ cancelling'[k].pc \notin {"wait", "stopped"},
         \A a \in Attempts : rec[a].cancelRequested /\ Working(a)' => Working(a)
  PROVE  Stops'
<1>1. \A a \in Attempts : Barred(a) => Barred(a)'
  BY BarredStays DEF Barred
<1>2. \A a \in Attempts : rec[a].cancelRequested => rec'[a].cancelRequested
  BY DEF Moves, Grows
<1>3. ASSUME NEW k \in Keys, cancelling'[k] = cancelling[k],
             NEW a, a = cancelling[k].target
      PROVE  /\ cancelling[k].pc = "wait" =>
                  /\ a \in Attempts /\ JobOf[a] = JobOfKey(k)
                  /\ rec'[a].cancelRequested
                  /\ k \in Attempts => a = k
             /\ cancelling[k].pc = "stopped" =>
                  /\ a # NoAttempt => Barred(a)' /\ (k \in Attempts => a = k)
                  /\ k \in Attempts => Barred(k)'
  <2>1. a \in Attempts \cup {NoAttempt}
    BY <1>3 DEF ClientTypes, Cancellation
  <2> QED BY <1>1, <1>2, <1>3, <2>1 DEF Stops
<1>4. \A a \in promised' : Barred(a)'
  BY <1>1 DEF Stops, ClientTypes
<1>5. ASSUME NEW k \in Keys, cancelling'[k].pc \in {"wait", "stopped"}
      PROVE  cancelling'[k] = cancelling[k]
  BY <1>5
<1> QED BY <1>3, <1>4, <1>5 DEF Stops, Barred, Working

LEMMA AwaitedStays ==
  ASSUME Awaited, fault => fault',
         \A a \in Attempts :
           run'[a].tracked /\ ~run'[a].held /\ run'[a].pc = "done" =>
             run[a].tracked /\ ~run[a].held /\ run[a].pc = "done",
         \A a \in Attempts : Filled(JobOf[a]) => Filled(JobOf[a])',
         \A k \in Keys : cancelling[k].pc = "stopped" => cancelling'[k] = cancelling[k]
  PROVE  Awaited'
BY DEF Awaited

LEMMA QueuedStays ==
  ASSUME Queued, Moves, mode = "up", mode' = "up",
         \A a \in Attempts : rec'[a].result # "none" /\ rec[a].result = "none" /\ ~fault' =>
            \/ \E k \in Keys : results'[k].attempt = a
            \/ run'[a].pc = "returned",
         \A a \in Attempts : run[a].pc = "returned" => run'[a].pc = "returned",
         \A k \in Keys : results[k].attempt \in Attempts =>
            results'[k].attempt = results[k].attempt
  PROVE  Queued'
<1> SUFFICES ASSUME ~fault', NEW a \in Attempts, rec'[a].result # "none", ~rec'[a].accepted
             PROVE  \/ \E k \in Keys : results'[k].attempt = a
                    \/ run'[a].pc = "returned"
  BY DEF Queued
<1>1. ~fault /\ ~rec[a].accepted
  BY DEF Moves, Grows
<1>2. CASE rec[a].result = "none"
  BY <1>2
<1>3. CASE rec[a].result # "none"
  BY <1>1, <1>3 DEF Queued
<1> QED BY <1>2, <1>3

(***************************************************************************)
(* Answers: a result is queued, or not.                                     *)
(***************************************************************************)

Queues(k, a, result) ==
  LET p == [attempt |-> a, result |-> result] IN
  /\ k = JobOf[a] \/ (k = a /\ HasToken(a))
  /\ results[k].attempt \in {NoAttempt, a}
  /\ ~fault' /\ rec'[a].result = result
  /\ results' = [results EXCEPT ![k] = p]
  /\ files' \in {files, [files EXCEPT ![k] = p]}

\* What every answer to attempt a does.
Answer(a, result) ==
  /\ Moves /\ Only(a)
  /\ Present(rec[a]) => /\ rec'[a].knownUnstarted = rec[a].knownUnstarted
                        /\ rec'[a].cancelRequested = rec[a].cancelRequested
  /\ \/ rec' = rec /\ UNCHANGED outboxVars
     \/ \E k \in Keys : Queues(k, a, result)

LEMMA PutAnswers ==
  ASSUME Journals, NEW a \in Attempts, NEW result \in Results, NEW k \in Keys,
         k = JobOf[a] \/ (k = a /\ HasToken(a)),
         results[k].attempt \in {NoAttempt, a},
         ~fault => rec[a].result \in {"none", result},
         Put(k, a, result)
  PROVE  /\ Answer(a, result)
         /\ ~fault' /\ rec[a].result # "none" => Queues(k, a, result)
<1> DEFINE p == [attempt |-> a, result |-> result]
<1>1. PICK ok \in BOOLEAN :
        /\ RememberResult(a, result, ok)
        /\ \/ ok /\ results' = [results EXCEPT ![k] = p] /\ Persist(k, p)
           \/ ~ok /\ UNCHANGED outboxVars
  BY DEF Put
<1>2. /\ Moves /\ Only(a)
      /\ Present(rec[a]) => /\ rec'[a].knownUnstarted = rec[a].knownUnstarted
                            /\ rec'[a].cancelRequested = rec[a].cancelRequested
  BY <1>1, ResultMoves
<1>3. CASE ok
  <2>1. ~fault' /\ rec'[a].result = IF rec[a].result = "none" THEN result ELSE rec[a].result
    BY <1>1, <1>3, ResultMoves
  <2>2. rec'[a].result = result
    BY <1>2, <2>1 DEF Moves
  <2>3. results' = [results EXCEPT ![k] = p] /\ files' \in {files, [files EXCEPT ![k] = p]}
    BY <1>1, <1>3 DEF Persist
  <2> QED BY <1>2, <2>1, <2>2, <2>3 DEF Answer, Queues
<1>4. CASE ~ok
  <2>1. rec' = rec /\ UNCHANGED outboxVars
    BY <1>1, <1>4, ResultMoves
  <2>2. rec[a].result # "none" => fault'
    <3>1. rec[a].result # "none" => fault
      BY <1>1, <1>4 DEF RememberResult
    <3> QED BY <1>2, <3>1 DEF Moves
  <2> QED BY <1>2, <2>1, <2>2 DEF Answer
<1> QED BY <1>3, <1>4

LEMMA IgnoreAnswers ==
  ASSUME Journals, NEW a \in Attempts, NEW result, Ignore
  PROVE  Answer(a, result)
BY StillMoves DEF Ignore, Answer, Only

LEMMA QueueResultAnswers ==
  ASSUME Journals, Outbox, NEW a \in Attempts, NEW result \in Results,
         ~fault => rec[a].result \in {"none", result}, QueueResult(a, result)
  PROVE  /\ Answer(a, result)
         /\ ~Filled(JobOf[a]) /\ ~fault' /\ rec[a].result # "none" =>
              Queues(JobOf[a], a, result)
<1> DEFINE j == JobOf[a]
           b == results[j].attempt
<1>0. j \in Jobs /\ j \in Keys /\ j \notin Attempts
  BY KeysApart
<1>1. CASE Occupied(a)
  <2>1. Ignore
    BY <1>1 DEF QueueResult
  <2>2. Filled(j)
    BY <1>1 DEF Occupied, Filled, Empty
  <2> QED BY <2>1, <2>2, IgnoreAnswers
<1>2. CASE ~Occupied(a)
  <2>1. b \in {NoAttempt, a}
    <3> SUFFICES ASSUME b # NoAttempt PROVE b = a
      OBVIOUS
    <3>1. ~HasToken(b) /\ ~HasToken(a)
      BY <1>2 DEF Occupied
    <3>2. Placed(j, results[j]) /\ results[j] # Empty
      BY <1>0 DEF Outbox, Empty
    <3>3. b \in Attempts /\ j = JobOf[b]
      BY <1>0, <3>2 DEF Placed
    <3> QED BY <3>1, <3>3, OutboxAssumption DEF HasToken
  <2>2. Put(j, a, result)
    BY <1>2 DEF QueueResult
  <2> QED BY <1>0, <2>1, <2>2, PutAnswers
<1> QED BY <1>1, <1>2

LEMMA RejectionAnswers ==
  ASSUME Journals, ClientTypes, NEW a \in Attempts, NEW result \in Results,
         ~fault => rec[a].result \in {"none", result}, QueueAttemptRejection(a, result)
  PROVE  /\ Answer(a, result)
         /\ \A k \in Keys : k # a => results'[k] = results[k]
<1>1. CASE ~HasToken(a) \/ Filled(a)
  BY <1>1, IgnoreAnswers DEF QueueAttemptRejection, Ignore, outboxVars
<1>2. CASE ~(~HasToken(a) \/ Filled(a))
  <2>1. Put(a, a, result) /\ results[a].attempt \in {NoAttempt, a}
    BY <1>2 DEF QueueAttemptRejection, Filled, Empty
  <2>2. Answer(a, result)
    BY <1>2, <2>1, PutAnswers, KeysApart
  <2>3. \A k \in Keys : k # a => results'[k] = results[k]
    BY <2>1 DEF Put, outboxVars, ClientTypes, OutboxTypeOK
  <2> QED BY <2>2, <2>3
<1> QED BY <1>1, <1>2

LEMMA AnswerKeepsPlaces ==
  ASSUME ClientTypes, NEW a \in Attempts, NEW result \in Results, Answer(a, result)
  PROVE  /\ \A k \in Keys : Filled(k) => Filled(k)'
         /\ \A k \in Keys : results[k].attempt \in Attempts =>
              results'[k].attempt = results[k].attempt
         /\ rec[a].result = "none" /\ rec'[a].result # "none" =>
              \E k \in Keys : results'[k].attempt = a
         /\ rec'[a].result \in {rec[a].result, result}
         /\ OutboxTypeOK'
<1>1. results \in [Keys -> Pending] /\ files \in [Keys -> Pending]
  BY DEF ClientTypes, OutboxTypeOK
<1>2. CASE rec' = rec /\ UNCHANGED outboxVars
  BY <1>1, <1>2 DEF outboxVars, Filled, OutboxTypeOK
<1>3. CASE \E k \in Keys : Queues(k, a, result)
  <2>0. PICK k \in Keys : Queues(k, a, result)
    BY <1>3
  <2> DEFINE p == [attempt |-> a, result |-> result]
  <2>1. /\ results' = [results EXCEPT ![k] = p]
        /\ files' \in {files, [files EXCEPT ![k] = p]}
        /\ rec'[a].result = result /\ results[k].attempt \in {NoAttempt, a}
    BY <2>0 DEF Queues
  <2>2. p \in Pending /\ p # Empty /\ p.attempt = a
    BY OutboxAssumption DEF Pending, Empty
  <2> HIDE DEF p
  <2>3. results'[k] = p /\ \A l \in Keys : l # k => results'[l] = results[l]
    BY <1>1, <2>1
  <2>4. OutboxTypeOK'
    BY <1>1, <2>1, <2>2 DEF OutboxTypeOK
  <2>5. \A l \in Keys : results[l].attempt \in Attempts =>
           results'[l].attempt = results[l].attempt
    BY <2>1, <2>2, <2>3, OutboxAssumption
  <2>6. \A l \in Keys : Filled(l) => Filled(l)'
    BY <2>2, <2>3 DEF Filled
  <2> QED BY <2>1, <2>2, <2>3, <2>4, <2>5, <2>6
<1> QED BY <1>2, <1>3 DEF Answer

LEMMA AnswerKeepsOutbox ==
  ASSUME ClientTypes, Outbox, mode = "up", mode' = "up",
         NEW a \in Attempts, NEW result \in Results, Answer(a, result)
  PROVE  Outbox'
<1>1. results \in [Keys -> Pending] /\ files \in [Keys -> Pending]
  BY DEF ClientTypes, OutboxTypeOK
<1>2. CASE rec' = rec /\ UNCHANGED outboxVars
  BY <1>2, OutboxStays DEF Answer
<1>3. ASSUME NEW k \in Keys, Queues(k, a, result) PROVE Outbox'
  <2> DEFINE p == [attempt |-> a, result |-> result]
  <2>1. /\ results' = [results EXCEPT ![k] = p]
        /\ files' \in {files, [files EXCEPT ![k] = p]}
        /\ rec'[a].result = result /\ results[k].attempt \in {NoAttempt, a}
        /\ k = JobOf[a] \/ (k = a /\ HasToken(a))
    BY <1>3 DEF Queues
  <2>2. /\ p # Empty /\ p.attempt = a /\ p.result = result /\ Placed(k, p)
        /\ result # "none"
    BY <2>1, OutboxAssumption DEF Empty, Placed, Results
  <2> HIDE DEF p
  <2>3. results'[k] = p /\ \A l \in Keys : l # k => results'[l] = results[l]
    BY <1>1, <2>1
  <2>4. files'[k] \in {files[k], p} /\ \A l \in Keys : l # k => files'[l] = files[l]
    BY <1>1, <2>1
  <2>5. ASSUME NEW l \in Keys, NEW q, q \in {results[l], files[l]}, q # Empty
        PROVE  /\ rec'[q.attempt].result # "none"
               /\ RuntimeOf[q.attempt] # "workspace" => rec'[q.attempt].result = q.result
    <3>1. q.attempt \in Attempts /\ Explained(q)
      BY <2>5 DEF Outbox, Placed, Filled
    <3> QED BY <3>1, ExplainedStays DEF Answer
  <2>6. ASSUME NEW l \in Keys, NEW q, q \in {results'[l], files'[l]}, q # Empty
        PROVE  /\ Placed(l, q)
               /\ rec'[q.attempt].result # "none"
               /\ RuntimeOf[q.attempt] # "workspace" => rec'[q.attempt].result = q.result
    <3>1. CASE q = p /\ l = k
      BY <2>1, <2>2, <3>1
    <3>2. CASE q \in {results[l], files[l]}
      BY <2>5, <2>6, <3>2 DEF Outbox
    <3> QED BY <2>3, <2>4, <2>6, <3>1, <3>2
  <2>7. ASSUME NEW l \in Jobs, files'[l] # Empty
        PROVE  results'[l].attempt = files'[l].attempt
    <3>1. l \in Keys
      BY KeysApart
    <3>2. CASE l # k
      BY <2>3, <2>4, <2>7, <3>1, <3>2 DEF Outbox
    <3>3. CASE l = k /\ files'[l] = p
      BY <2>3, <3>3
    <3>4. CASE l = k /\ files'[l] = files[l]
      <4>1. results[l].attempt = files[l].attempt /\ files[l].attempt \in Attempts
        BY <2>7, <3>1, <3>4 DEF Outbox, Placed
      <4>2. files[l].attempt = a
        BY <2>1, <3>4, <4>1, OutboxAssumption
      <4> QED BY <2>2, <2>3, <3>4, <4>2
    <3> QED BY <2>4, <3>2, <3>3, <3>4
  <2> QED
    <3>1. \A l \in Keys : Placed(l, results'[l]) /\ Placed(l, files'[l])
      BY <2>6 DEF Placed
    <3> QED BY <2>6, <2>7, <3>1 DEF Outbox, Explained, Filled
<1> QED BY <1>2, <1>3 DEF Answer

(***************************************************************************)
(* Assignments.                                                             *)
(***************************************************************************)

LEMMA NotStarting ==
  ASSUME Slot, NEW a \in Attempts, a # active \/ ~run[a].tracked
  PROVE  ~Starting(a) /\ ~Working(a)
BY DEF Slot, Starting, Working

\* A step that does nothing but answer attempt a.
LEMMA AnswerKeepsInv ==
  ASSUME ClientInv, mode = "up", lock.pc # "reject",
         NEW a \in Attempts, Answer(a, "failure"), a # active,
         active # NoAttempt => results'[JobOf[active]] = results[JobOf[active]],
         deferred' \in {deferred, [deferred EXCEPT ![JobOf[a]] = NoAttempt]},
         deferred'[JobOf[a]] = a => fenced,
         UNCHANGED <<control, tombstones, fenced, active, cancelling, run, coordinator>>
  PROVE  ClientInv'
<1> USE DEF ClientInv
<1>1. /\ mode' = mode /\ todo' = todo /\ lock' = lock /\ tombstones' = tombstones
      /\ fenced' = fenced /\ active' = active
      /\ cancelling' = cancelling /\ run' = run /\ answers' = answers
      /\ promised' = promised
      /\ deferred' \in [Jobs -> Attempts \cup {NoAttempt}]
      /\ \A j \in Jobs : deferred'[j] # NoAttempt => deferred'[j] = deferred[j]
  BY DEF control, coordinator, ClientTypes
<1>2. Moves /\ Only(a) /\ "failure" \in Results
  BY DEF Answer, Results
<1>3. Journals'
  BY <1>2 DEF Moves
<1>4. ClientTypes'
  BY <1>1, <1>2, AnswerKeepsPlaces DEF ClientTypes
<1>5. Startup'
  BY <1>1 DEF Startup
<1>6. Slot'
  <2>1. active # NoAttempt => /\ rec'[active].result = rec[active].result
                              /\ ~Filled(JobOf[active])'
                              /\ deferred'[JobOf[active]] = NoAttempt
    BY <1>1, <1>2, KeysApart DEF Slot, Only, Filled, ClientTypes
  <2> QED BY <1>1, <1>2, <2>1, SlotStays
<1>7. Outbox'
  BY <1>1, <1>2, AnswerKeepsOutbox
<1>8. Answered'
  BY <1>1, <1>2, AnsweredStays
<1>9. Deferred'
  <2> SUFFICES ASSUME NEW j \in Jobs, deferred'[j] # NoAttempt, NEW d, d = deferred[j]
               PROVE  d \in Attempts /\ Untouched(d)
    BY <1>1, <1>2, DeferredStays
  <2>1. /\ d \in Attempts /\ JobOf[d] = j /\ d # active /\ ~run[d].tracked
        /\ cancelling[d].pc = "idle" /\ Present(rec[d]) /\ deferred'[j] = d
    BY <1>1 DEF ClientTypes, Deferred, Waiting
  <2>2. CASE d = a
    <3>1. fenced' /\ rec'[a].result \in {rec[a].result, "failure"}
      BY <1>1, <1>2, <2>1, <2>2, AnswerKeepsPlaces
    <3>2. /\ rec'[a].knownUnstarted = rec[a].knownUnstarted
          /\ rec'[a].cancelRequested = rec[a].cancelRequested
      BY <2>1, <2>2 DEF Answer
    <3> QED BY <1>1, <2>1, <2>2, <3>1, <3>2 DEF Untouched
  <2>3. CASE d # a
    <3>1. rec'[d] = rec[d]
      BY <1>2, <2>1, <2>3 DEF Only
    <3> QED BY <1>1, <2>1, <3>1 DEF Untouched
  <2> QED BY <2>1, <2>2, <2>3
<1>10. Rejecting' /\ Entombing'
  BY <1>1, <1>2, EntombingStays DEF Rejecting
<1>11. Stops'
  BY <1>1, <1>2, StopsStays DEF Working
<1>12. Awaited'
  BY <1>1, <1>2, KeysApart, AnswerKeepsPlaces, AwaitedStays DEF Moves
<1>13. NoMixedJobs => Queued'
  BY <1>1, <1>2, AnswerKeepsPlaces, QueuedStays DEF Only
<1> QED BY <1>3, <1>4, <1>5, <1>6, <1>7, <1>8, <1>9, <1>10, <1>11, <1>12, <1>13

LEMMA RejectedKeepsInv ==
  ASSUME ClientInv, NEW a \in Attempts,
         \/ DispatchCancelled(a) \/ DispatchSecondRetry(a) \/ DispatchUnwantedRetry(a)
         \/ DispatchFenced(a)
  PROVE  ClientInv'
<1> USE DEF ClientInv
<1>1. /\ mode = "up" /\ lock.pc # "reject" /\ rec[a].result = "none"
  BY DEF DispatchCancelled, DispatchSecondRetry, DispatchUnwantedRetry, DispatchFenced,
         Retries, Admissions, Unanswered, Ready, Free
<1>2. active # NoAttempt =>
        /\ active \in Attempts /\ JobOf[active] \in Keys /\ JobOf[active] \notin Attempts
        /\ ~Filled(JobOf[active]) /\ deferred[JobOf[active]] = NoAttempt
  BY KeysApart DEF ClientTypes, Slot
<1>3. "failure" \in Results
  BY DEF Results
<1>4. CASE Rejected(a) /\ a # active /\ (deferred[JobOf[a]] = a => fenced)
  <2>1. Answer(a, "failure") /\ \A k \in Keys : k # a => results'[k] = results[k]
    BY <1>1, <1>3, <1>4, RejectionAnswers DEF Rejected, Reject
  <2>2. active # NoAttempt => results'[JobOf[active]] = results[JobOf[active]]
    BY <1>2, <2>1
  <2> QED BY <1>1, <1>4, <2>1, <2>2, AnswerKeepsInv DEF Rejected, admission
<1>5. CASE DispatchCancelled(a)
  <2>1. Rejected(a) /\ a # active /\ tombstones[a].set
    BY <1>5 DEF DispatchCancelled, Tracks
  <2>2. deferred[JobOf[a]] # a
    BY <2>1, KeysApart DEF Entombing, Deferred
  <2> QED BY <1>4, <2>1, <2>2
<1>6. CASE DispatchSecondRetry(a)
  <2>1. Rejected(a) /\ deferred[JobOf[a]] \notin {NoAttempt, a}
    BY <1>6 DEF DispatchSecondRetry
  <2>2. a # active
    BY <1>2, <2>1, KeysApart
  <2> QED BY <1>4, <2>1, <2>2
<1>7. CASE DispatchUnwantedRetry(a)
  <2>1. /\ Rejected(a) /\ deferred[JobOf[a]] = NoAttempt
        /\ results[JobOf[a]].attempt # NoAttempt
    BY <1>7 DEF DispatchUnwantedRetry, Retries
  <2>2. a # active
    BY <1>2, <2>1, KeysApart DEF Filled, Empty
  <2> QED BY <1>4, <2>1, <2>2, KeysApart
<1>8. CASE DispatchFenced(a) /\ Rejected(a)
  BY <1>4, <1>8 DEF DispatchFenced, Tracks
<1>9. CASE /\ DispatchFenced(a) /\ ~Busy(JobOf[a]) /\ QueueResult(a, "failure")
           /\ UNCHANGED <<control, admission, cancelling, run, coordinator>>
  <2>1. Answer(a, "failure")
    BY <1>1, <1>3, <1>9, QueueResultAnswers
  <2>2. a # active /\ (active # NoAttempt => JobOf[active] # JobOf[a]) /\ fenced
    BY <1>9, KeysApart DEF Busy, DispatchFenced
  <2>3. \A k \in Keys : k # JobOf[a] => results'[k] = results[k]
    BY <1>9 DEF QueueResult, Ignore, Put, outboxVars, ClientTypes, OutboxTypeOK
  <2>4. active # NoAttempt => results'[JobOf[active]] = results[JobOf[active]]
    BY <1>2, <2>2, <2>3
  <2> QED BY <1>1, <1>9, <2>1, <2>2, <2>4, AnswerKeepsInv DEF admission
<1> QED BY <1>5, <1>6, <1>7, <1>8, <1>9 DEF DispatchFenced

LEMMA DispatchRetryKeepsInv ==
  ASSUME ClientInv, NEW a \in Attempts, DispatchRetry(a)
  PROVE  ClientInv'
<1> USE DEF ClientInv
<1>1. /\ mode' = mode /\ todo' = todo /\ lock' = lock /\ tombstones' = tombstones
      /\ fenced' = fenced /\ active' = active /\ UNCHANGED outboxVars
      /\ cancelling' = cancelling /\ run' = run /\ answers' = answers
      /\ promised' = promised
  BY DEF DispatchRetry, control, coordinator
<1>2. /\ mode = "up" /\ lock.pc # "reject" /\ HasToken(a) /\ Admissible(a)
      /\ cancelling[a].pc = "idle" /\ deferred[JobOf[a]] = NoAttempt
      /\ Filled(JobOf[a])
  BY DEF DispatchRetry, Retries, Admissions, Unanswered, Ready, Free,
         AssignmentCancelling, Filled, Empty
<1>3. PICK ok \in BOOLEAN :
        /\ Admit(a, ok)
        /\ deferred' = IF ok THEN [deferred EXCEPT ![JobOf[a]] = a] ELSE deferred
  BY DEF DispatchRetry
<1>4. Moves /\ Only(a) /\ (~ok => rec' = rec)
  BY <1>3, AdmitMoves
<1>5. ok => /\ ~fault /\ Present(rec'[a]) /\ rec'[a].knownUnstarted
            /\ ~rec'[a].cancelRequested
            /\ rec[a].result = "none" /\ rec'[a].result = "none"
  BY <1>3, AdmitMoves
<1>6. rec'[a].result = rec[a].result
  BY <1>4, <1>5
<1>7. deferred \in [Jobs -> Attempts \cup {NoAttempt}] /\ JobOf[a] \in Jobs
  BY KeysApart DEF ClientTypes
<1>8. a # active /\ (active # NoAttempt => JobOf[active] # JobOf[a])
  BY <1>2, OutboxAssumption DEF Slot
<1>9. /\ \A j \in Jobs : j # JobOf[a] => deferred'[j] = deferred[j]
      /\ deferred'[JobOf[a]] = IF ok THEN a ELSE NoAttempt
  BY <1>2, <1>3, <1>7
<1>10. Journals' /\ ClientTypes' /\ Startup'
  <2>1. deferred' \in [Jobs -> Attempts \cup {NoAttempt}]
    BY <1>3, <1>7
  <2> QED BY <1>1, <1>2, <1>4, <2>1 DEF Moves, ClientTypes, Startup, OutboxTypeOK, outboxVars
<1>11. Slot'
  <2>1. active # NoAttempt => /\ rec'[active].result = rec[active].result
                              /\ ~Filled(JobOf[active])'
                              /\ deferred'[JobOf[active]] = NoAttempt
    <3>1. active # NoAttempt =>
            /\ active \in Attempts /\ JobOf[active] \in Jobs
            /\ ~Filled(JobOf[active]) /\ deferred[JobOf[active]] = NoAttempt
      BY KeysApart DEF Slot, ClientTypes
    <3> QED BY <1>1, <1>4, <1>8, <1>9, <3>1 DEF Only, Filled, outboxVars
  <2> QED BY <1>1, <1>4, <2>1, SlotStays
<1>12. Outbox' /\ Answered'
  BY <1>1, <1>2, <1>4, OutboxStays, AnsweredStays
<1>13. Deferred'
  <2> SUFFICES ASSUME NEW j \in Jobs, NEW d, deferred'[j] = d, d # NoAttempt
               PROVE  /\ JobOf[d] = j /\ Waiting(d)'
                      /\ Present(rec'[d]) /\ d \notin recovered'
                      /\ rec'[d].knownUnstarted /\ ~rec'[d].cancelRequested
                      /\ ~fenced' => rec'[d].result = "none"
                      /\ cancelling'[d].pc = "idle"
    BY DEF Deferred, Waiting
  <2>1. recovered' = recovered
    BY <1>4 DEF Moves
  <2>2. CASE j = JobOf[a]
    <3>1. ok /\ d = a
      BY <1>9, <2>2
    <3>2. a \notin recovered
      BY <1>2 DEF Admissible, Journals, Recording
    <3>3. ~run[a].tracked
      BY <1>5, <1>8, <3>1, <3>2, NotStarting DEF Slot
    <3>4. Waiting(a)'
      BY <1>1, <1>2, <1>5, <1>8, <3>1, <3>3 DEF Waiting
    <3> QED BY <1>1, <1>2, <1>5, <2>1, <2>2, <3>1, <3>2, <3>4
  <2>3. CASE j # JobOf[a]
    <3>1. /\ d = deferred[j] /\ d \in Attempts /\ d # a
      BY <1>7, <1>9, <2>3 DEF Deferred
    <3>2. rec'[d] = rec[d]
      BY <1>4, <3>1 DEF Only
    <3>3. Waiting(d)'
      BY <1>1, <3>1, <3>2 DEF Deferred, Waiting
    <3> QED BY <1>1, <2>1, <3>1, <3>2, <3>3 DEF Deferred
  <2> QED BY <2>2, <2>3
<1>14. Rejecting' /\ Entombing'
  BY <1>1, <1>2, <1>4, EntombingStays DEF Rejecting
<1>15. Stops'
  BY <1>1, <1>4, StopsStays DEF Working
<1>16. Awaited'
  BY <1>1, <1>4, AwaitedStays DEF Moves, Filled, outboxVars
<1>17. NoMixedJobs => Queued'
  BY <1>1, <1>2, <1>4, <1>6, QueuedStays DEF Only, outboxVars
<1> QED BY <1>10, <1>11, <1>12, <1>13, <1>14, <1>15, <1>16, <1>17

\* startAssignmentLocked, for a new assignment and for a deferred one.
LEMMA StartAssignmentKeepsInv ==
  ASSUME ClientInv, mode = "up", lock.pc # "reject", NEW a \in Attempts,
         rec[a].result \in {"none", "failure"}, ~Filled(JobOf[a]),
         active # NoAttempt => JobOf[active] # JobOf[a],
         deferred' = [deferred EXCEPT ![JobOf[a]] = NoAttempt],
         StartAssignment(a),
         UNCHANGED <<control, tombstones, fenced, cancelling, coordinator>>
  PROVE  ClientInv'
<1> USE DEF ClientInv
<1>1. /\ mode' = mode /\ todo' = todo /\ lock' = lock /\ tombstones' = tombstones
      /\ fenced' = fenced /\ cancelling' = cancelling /\ answers' = answers
      /\ promised' = promised
  BY DEF control, coordinator
<1>2. /\ deferred \in [Jobs -> Attempts \cup {NoAttempt}] /\ run \in [Attempts -> Run]
      /\ JobOf[a] \in Jobs /\ active \in Attempts \cup {NoAttempt} /\ a # NoAttempt
  BY KeysApart DEF ClientTypes
<1>3. /\ deferred'[JobOf[a]] = NoAttempt
      /\ \A j \in Jobs : j # JobOf[a] => deferred'[j] = deferred[j]
      /\ deferred' \in [Jobs -> Attempts \cup {NoAttempt}]
  BY <1>2
<1>4. CASE QueueResult(a, "failure") /\ UNCHANGED <<active, run>>
  <2>1. Answer(a, "failure")
    BY <1>4, QueueResultAnswers DEF Results
  <2>2. \A k \in Keys : k # JobOf[a] => results'[k] = results[k]
    BY <1>4 DEF QueueResult, Ignore, Put, outboxVars, ClientTypes, OutboxTypeOK
  <2>3. active # NoAttempt => results'[JobOf[active]] = results[JobOf[active]]
    BY <1>2, <2>2, KeysApart
  <2>4. a # active
    BY <1>2
  <2> QED BY <1>2, <1>3, <1>4, <2>1, <2>3, <2>4, AnswerKeepsInv
<1>5. ASSUME NEW ok \in BOOLEAN, CanStart(a), Admit(a, ok), UNCHANGED outboxVars,
             \/ ~ok /\ UNCHANGED <<active, run>>
             \/ /\ ok
                /\ active' = a
                /\ run' = [run EXCEPT ![a] =
                     [@ EXCEPT !.pc = "started", !.tracked = TRUE, !.held = TRUE]]
      PROVE  ClientInv'
  <2>1. Moves /\ Only(a) /\ (~ok => rec' = rec)
    BY <1>5, AdmitMoves
  <2>2. ok => /\ ~fault /\ Present(rec'[a]) /\ rec'[a].knownUnstarted
              /\ rec[a].result = "none" /\ rec'[a].result = "none"
    BY <1>5, AdmitMoves
  <2>3. rec'[a].result = rec[a].result /\ active = NoAttempt
    BY <1>5, <2>1, <2>2 DEF CanStart
  <2>4. \A b \in Attempts : b # a => run'[b] = run[b]
    BY <1>2, <1>5
  <2>5. CASE ok
    <3>1. active' = a /\ run' = [run EXCEPT ![a] =
            [run[a] EXCEPT !.pc = "started", !.tracked = TRUE, !.held = TRUE]]
      BY <1>5, <2>5
    <3>2. /\ run'[a] \in Run /\ run'[a].pc = "started"
          /\ run'[a].tracked /\ run'[a].held
      BY <1>2, <3>1 DEF Run, WorkSteps
    <3>3. run' \in [Attempts -> Run]
      BY <1>2, <3>1, <3>2
    <3>4. Journals' /\ ClientTypes' /\ Startup'
      BY <1>1, <1>3, <1>5, <2>1, <3>1, <3>3
         DEF Moves, ClientTypes, Startup, OutboxTypeOK, outboxVars
    <3>5. Slot'
      <4>1. \A b \in Attempts : b # a => run'[b].pc \in {"idle", "done"}
        <5> SUFFICES ASSUME NEW b \in Attempts, b # a PROVE run[b].pc \in {"idle", "done"}
          BY <2>4
        <5>1. run[b].pc \in WorkSteps
          BY <1>2 DEF Run
        <5> QED BY <2>3, <5>1, OutboxAssumption DEF Slot, WorkSteps
      <4>2. \A b \in Attempts : b # a => ~Starting(b)' /\ ~Starting(b)
        BY <2>4, <4>1 DEF Starting
      <4>3. \A b \in Attempts : b # a /\ run'[b].tracked /\ ~fault' =>
              b \in recovered' \/ rec'[b].result # "none"
        BY <2>1, <2>4, <4>2 DEF Slot, Moves, Only
      <4>4. ~Filled(JobOf[a])'
        BY <1>5 DEF Filled, outboxVars
      <4> QED BY <1>3, <2>2, <2>5, <3>1, <3>2, <4>1, <4>2, <4>3, <4>4 DEF Slot, Starting
    <3>6. Deferred'
      <4> SUFFICES ASSUME NEW j \in Jobs, deferred'[j] # NoAttempt, NEW d, d = deferred[j]
                   PROVE  d \in Attempts /\ Untouched(d) /\ deferred'[j] = d
        BY <1>1, <2>1, DeferredStays
      <4>1. /\ d \in Attempts /\ JobOf[d] = j /\ d # a /\ ~run[d].tracked
            /\ cancelling[d].pc = "idle" /\ deferred'[j] = d
        BY <1>2, <1>3 DEF Deferred, Waiting
      <4> QED BY <1>1, <2>1, <2>4, <3>1, <4>1 DEF Untouched, Only
    <3>7. Stops'
      BY <1>1, <2>1, <2>4, <3>2, StopsStays DEF Working
    <3>8. Awaited'
      BY <1>1, <1>5, <2>1, <2>4, <3>2, AwaitedStays DEF Moves, Filled, outboxVars
    <3>9. NoMixedJobs => Queued'
      <4>1. \A b \in Attempts : run[b].pc # "returned"
        BY <2>3, OutboxAssumption DEF Slot
      <4> QED BY <1>1, <1>5, <2>1, <2>3, <4>1, QueuedStays DEF Only, outboxVars
    <3>10. Outbox' /\ Answered' /\ Rejecting' /\ Entombing'
      BY <1>1, <1>5, <2>1, OutboxStays, AnsweredStays, EntombingStays DEF Rejecting
    <3> QED BY <3>4, <3>5, <3>6, <3>7, <3>8, <3>9, <3>10
  <2>6. CASE ~ok
    <3>1. Answer(a, "failure") /\ a # active /\ UNCHANGED <<active, run>>
      BY <1>2, <1>5, <2>1, <2>3, <2>6 DEF Answer
    <3> QED BY <1>3, <2>3, <3>1, AnswerKeepsInv
  <2> QED BY <2>5, <2>6
<1> QED BY <1>4, <1>5 DEF StartAssignment

LEMMA DispatchNewKeepsInv ==
  ASSUME ClientInv, NEW a \in Attempts, DispatchNew(a)
  PROVE  ClientInv'
<1> USE DEF ClientInv
<1>1. /\ mode = "up" /\ lock.pc # "reject" /\ rec[a].result = "none"
      /\ deferred[JobOf[a]] = NoAttempt /\ ~Filled(JobOf[a])
      /\ active # NoAttempt => JobOf[active] # JobOf[a]
  BY DEF DispatchNew, Admissions, Unanswered, Ready, Free, Busy
<1>2. StartAssignment(a)
  BY DEF DispatchNew, StartAssignment
<1>3. deferred' = [deferred EXCEPT ![JobOf[a]] = NoAttempt]
  BY <1>1 DEF DispatchNew, ClientTypes
<1> QED BY <1>1, <1>2, <1>3, StartAssignmentKeepsInv DEF DispatchNew

LEMMA DrainOneKeepsInv ==
  ASSUME ClientInv, NEW j \in Jobs, DrainOne(j)
  PROVE  ClientInv'
<1> USE DEF ClientInv
<1> DEFINE a == deferred[j]
<1>1. /\ mode = "up" /\ lock.pc # "reject" /\ active = NoAttempt /\ a # NoAttempt
      /\ ~Filled(j) /\ deferred' = [deferred EXCEPT ![j] = NoAttempt]
      /\ StartAssignment(a)
      /\ UNCHANGED <<control, tombstones, fenced, cancelling, coordinator>>
  BY DEF DrainOne, Drainable, Drain, Free, control
<1>2. a \in Attempts /\ JobOf[a] = j /\ rec[a].result \in {"none", "failure"}
  BY <1>1 DEF ClientTypes, Deferred, Waiting
<1> HIDE DEF a
<1> QED BY <1>1, <1>2, StartAssignmentKeepsInv

(***************************************************************************)
(* The execution, and its end.                                              *)
(***************************************************************************)

\* Every step of the execution in the slot: n is its next state.
LEMMA ExecutionKeepsInv ==
  ASSUME ClientInv, mode = "up", NEW a \in Attempts, Starting(a), Moves, Only(a),
         UNCHANGED <<outboxVars, control, admission, cancelling, coordinator>>,
         NEW n \in Run, run' = [run EXCEPT ![a] = n], n.tracked,
         \/ /\ n.pc \in {"entered", "running"} /\ n.held
            /\ rec'[a].result = rec[a].result
            /\ run[a].pc = "started" => ~rec[a].cancelRequested
         \/ /\ n.pc = "returned" /\ n.outcome \in Results
            /\ ~fault' => rec'[a].result = n.outcome
  PROVE  ClientInv'
<1> USE DEF ClientInv
<1>1. /\ mode' = mode /\ todo' = todo /\ lock' = lock /\ tombstones' = tombstones
      /\ fenced' = fenced /\ deferred' = deferred /\ active' = active
      /\ cancelling' = cancelling /\ answers' = answers /\ promised' = promised
      /\ UNCHANGED outboxVars
  BY DEF control, admission, coordinator
<1>2. /\ run \in [Attempts -> Run] /\ a = active /\ a # NoAttempt
      /\ ~Filled(JobOf[a]) /\ deferred[JobOf[a]] = NoAttempt
      /\ Present(rec[a]) /\ rec[a].result = "none"
  BY KeysApart DEF ClientTypes, Slot, Starting
<1>3. run'[a] = n /\ \A b \in Attempts : b # a => run'[b] = run[b]
  BY <1>2
<1>4. Journals' /\ ClientTypes' /\ Startup'
  <2>1. run' \in [Attempts -> Run]
    BY <1>2
  <2> QED BY <1>1, <2>1 DEF Moves, ClientTypes, Startup, OutboxTypeOK, outboxVars
<1>5. Slot'
  <2>1. \A b \in Attempts : b # a =>
          /\ run'[b].pc \notin {"started", "entered", "running", "returned"}
          /\ ~Starting(b) /\ ~Starting(b)'
    BY <1>2, <1>3 DEF Slot, Starting
  <2>2. \A b \in Attempts : b # a /\ run'[b].tracked /\ ~fault' =>
          b \in recovered' \/ rec'[b].result # "none"
    BY <1>3, <2>1 DEF Slot, Moves, Only
  <2>3. ~Filled(JobOf[a])'
    BY <1>1, <1>2 DEF Filled, outboxVars
  <2>4. Present(rec'[a])
    BY <1>2 DEF Moves, Grows
  <2>5. /\ Starting(a)' => n.pc # "returned"
        /\ n.pc \in {"started", "entered", "running", "returned"}
        /\ n.pc = "returned" => ~Starting(a)'
    BY <1>3 DEF Starting
  <2>6. /\ Starting(a)' => /\ n.held /\ rec'[a].result = "none"
        /\ n.pc = "returned" => n.outcome \in Results /\ (~fault' => rec'[a].result = n.outcome)
        /\ ~fault' => rec'[a].result # "none" \/ Starting(a)'
    BY <1>2, <1>3, <2>5 DEF Starting, Results
  <2> QED BY <1>1, <1>2, <1>3, <2>1, <2>2, <2>3, <2>4, <2>5, <2>6 DEF Slot
<1>6. Outbox' /\ Answered' /\ Entombing'
  BY <1>1, OutboxStays, AnsweredStays, EntombingStays
<1>7. Deferred'
  <2> SUFFICES ASSUME NEW j \in Jobs, deferred'[j] # NoAttempt, NEW d, d = deferred[j]
               PROVE  d \in Attempts /\ Untouched(d) /\ deferred'[j] = d
    BY <1>1, DeferredStays
  <2>1. /\ d \in Attempts /\ JobOf[d] = j /\ d # a /\ ~run[d].tracked
        /\ cancelling[d].pc = "idle" /\ deferred'[j] = d
    BY <1>1, <1>2 DEF ClientTypes, Deferred, Waiting
  <2> QED BY <1>1, <1>2, <1>3, <2>1 DEF Untouched, Only
<1>8. Rejecting'
  <2> SUFFICES ASSUME lock.pc = "reject", NEW d, d = lock.attempt
               PROVE  /\ d # active' /\ ~run'[d].tracked /\ rec'[d] = rec[d]
                      /\ deferred'[JobOf[d]] = NoAttempt
                      /\ cancelling'[lock.key].pc = "idle"
                      /\ lock.key \in Attempts => lock.key = d
    BY <1>1, RejectingStays
  <2>1. /\ d \in Attempts /\ d # a /\ ~run[d].tracked /\ deferred[JobOf[d]] = NoAttempt
        /\ cancelling[lock.key].pc = "idle" /\ (lock.key \in Attempts => lock.key = d)
    BY <1>2 DEF Rejecting, Waiting
  <2> QED BY <1>1, <1>2, <1>3, <2>1 DEF Only
<1>9. Stops'
  <2>1. \A b \in Attempts : rec[b].cancelRequested /\ Working(b)' => Working(b)
    <3>1. ASSUME rec[a].cancelRequested, Working(a)' PROVE Working(a)
      BY <1>3, <3>1 DEF Working, Starting
    <3> QED BY <1>3, <3>1 DEF Working
  <2> QED BY <1>1, <2>1, StopsStays
<1>10. Awaited'
  <2>1. n.pc # "done" /\ (fault => fault')
    BY DEF Moves
  <2> QED BY <1>1, <1>3, <2>1, AwaitedStays DEF Filled, outboxVars
<1>11. NoMixedJobs => Queued'
  <2>1. \A b \in Attempts : rec'[b].result # "none" /\ rec[b].result = "none" /\ ~fault' =>
          run'[b].pc = "returned"
    BY <1>2, <1>3 DEF Only
  <2>2. \A b \in Attempts : run[b].pc = "returned" => run'[b].pc = "returned"
    BY <1>3 DEF Starting
  <2> QED BY <1>1, <2>1, <2>2, QueuedStays DEF outboxVars
<1> QED BY <1>4, <1>5, <1>6, <1>7, <1>8, <1>9, <1>10, <1>11

LEMMA FinishKeepsInv ==
  ASSUME ClientInv, mode = "up", NEW a \in Attempts, Starting(a),
         NEW result \in Results, NEW stopped \in BOOLEAN, Finishes(a, result, stopped),
         UNCHANGED <<outboxVars, control, admission, cancelling, coordinator>>
  PROVE  ClientInv'
<1> USE DEF ClientInv
<1>1. PICK ok \in BOOLEAN :
        /\ Complete(a, result, stopped, ok)
        /\ run' = [run EXCEPT ![a] =
             [run[a] EXCEPT !.pc = "returned", !.outcome = IF ok THEN result ELSE "failure",
                            !.held = ~(ok /\ stopped)]]
  BY DEF Finishes
<1>2. Present(rec[a]) /\ rec[a].result = "none" /\ run[a].tracked /\ run[a] \in Run
  BY DEF Slot, ClientTypes
<1>3. /\ Moves /\ Only(a)
      /\ ok => rec'[a].result = result
      /\ ~ok => fault'
  BY <1>1, <1>2, CompleteMoves DEF Results
<1> DEFINE outcome == IF ok THEN result ELSE "failure"
           held == ~(ok /\ stopped)
           n == [run[a] EXCEPT !.pc = "returned", !.outcome = outcome, !.held = held]
<1>4. outcome \in Results /\ held \in BOOLEAN
  BY DEF Results
<1>5. n \in Run /\ n.pc = "returned" /\ n.outcome = outcome /\ n.tracked
  <2> HIDE DEF outcome, held
  <2> QED BY <1>2, <1>4 DEF Run, WorkSteps
<1>6. run' = [run EXCEPT ![a] = n]
  BY <1>1
<1>7. ~fault' => rec'[a].result = outcome
  BY <1>3
<1> HIDE DEF n, outcome
<1> QED BY <1>3, <1>4, <1>5, <1>6, <1>7, ExecutionKeepsInv

LEMMA RunExecutionKeepsInv ==
  ASSUME ClientInv, NEW a \in Attempts, RunExecution(a)
  PROVE  ClientInv'
<1> USE DEF ClientInv
<1>1. /\ mode = "up"
      /\ UNCHANGED <<outboxVars, control, admission, cancelling, coordinator>>
  BY DEF RunExecution
<1>2. Starting(a) /\ run[a] \in Run /\ run \in [Attempts -> Run]
  BY DEF RunExecution, ExecutionStarts, ExecutionRefused, ExecutionWorks,
         ExecutionFinishes, Starting, ClientTypes
<1>3. run[a].tracked /\ run[a].held /\ rec[a].result = "none"
  BY <1>2 DEF Slot
<1>4. CASE ExecutionStarts(a)
  <2>1. PICK ok \in BOOLEAN :
          /\ Running(a, ok)
          /\ \/ ok /\ run' = [run EXCEPT ![a].pc = "entered"]
             \/ /\ ~ok /\ fault'
                /\ run' = [run EXCEPT ![a].pc = "returned", ![a].outcome = "failure"]
    BY <1>4 DEF ExecutionStarts
  <2>2. /\ Moves /\ Only(a) /\ rec'[a].result = rec[a].result
        /\ ok => ~rec[a].cancelRequested
    BY <2>1, RunningMoves
  <2>3. CASE ok
    <3> DEFINE n == [run[a] EXCEPT !.pc = "entered"]
    <3>1. n \in Run /\ n.pc = "entered" /\ n.tracked /\ n.held
      BY <1>2, <1>3 DEF Run, WorkSteps
    <3>2. run' = [run EXCEPT ![a] = n]
      BY <1>2, <2>1, <2>3
    <3> HIDE DEF n
    <3> QED BY <1>1, <1>2, <2>2, <2>3, <3>1, <3>2, ExecutionKeepsInv
  <2>4. CASE ~ok
    <3> DEFINE n == [run[a] EXCEPT !.pc = "returned", !.outcome = "failure"]
    <3>1. n \in Run /\ n.pc = "returned" /\ n.tracked /\ n.outcome \in Results
      BY <1>2, <1>3 DEF Run, WorkSteps, Results
    <3>2. run' = [run EXCEPT ![a] = n] /\ fault'
      BY <1>2, <2>1, <2>4
    <3> HIDE DEF n
    <3> QED BY <1>1, <1>2, <2>2, <3>1, <3>2, ExecutionKeepsInv
  <2> QED BY <2>3, <2>4
<1>5. CASE ExecutionRefused(a)
  <2>1. Finishes(a, "failure", ~run[a].stopping) /\ (~run[a].stopping) \in BOOLEAN
    BY <1>2, <1>5 DEF ExecutionRefused, Run
  <2> QED BY <1>1, <1>2, <2>1, FinishKeepsInv DEF Results
<1>6. CASE ExecutionWorks(a)
  <2> DEFINE n == [run[a] EXCEPT !.pc = "running"]
  <2>1. n \in Run /\ n.pc = "running" /\ n.tracked /\ n.held
    BY <1>2, <1>3 DEF Run, WorkSteps
  <2>2. run' = [run EXCEPT ![a] = n] /\ run[a].pc = "entered"
    BY <1>2, <1>6 DEF ExecutionWorks
  <2>3. Moves /\ Only(a) /\ rec'[a].result = rec[a].result
    <3>1. CASE AssignDockerDaemon(a, TRUE)
      BY <3>1, AssignMoves
    <3>2. CASE UNCHANGED jvars
      BY <3>2, StillMoves DEF Only
    <3> QED BY <1>6, <3>1, <3>2 DEF ExecutionWorks
  <2> HIDE DEF n
  <2> QED BY <1>1, <1>2, <2>1, <2>2, <2>3, ExecutionKeepsInv
<1>7. CASE ExecutionFinishes(a)
  <2>1. PICK result \in Results, stopped \in BOOLEAN : Finishes(a, result, stopped)
    BY <1>7 DEF ExecutionFinishes
  <2> QED BY <1>1, <1>2, <2>1, FinishKeepsInv
<1> QED BY <1>4, <1>5, <1>6, <1>7 DEF RunExecution

LEMMA JobEndsKeepsInv ==
  ASSUME ClientInv, NEW a \in Attempts, JobEnds(a)
  PROVE  ClientInv'
<1> USE DEF ClientInv
<1>1. /\ mode = "up" /\ mode' = mode /\ todo' = todo /\ lock' = Drain
      /\ tombstones' = tombstones /\ fenced' = fenced /\ deferred' = deferred
      /\ active' = NoAttempt /\ cancelling' = cancelling /\ answers' = answers
      /\ promised' = promised
  BY DEF JobEnds, coordinator, Ready
<1>2. /\ run \in [Attempts -> Run] /\ active = a /\ run[a].pc = "returned"
      /\ run[a].outcome \in Results /\ (~fault => rec[a].result = run[a].outcome)
      /\ ~Filled(JobOf[a])
  BY KeysApart DEF JobEnds, Slot, ClientTypes
<1> DEFINE n == [run[a] EXCEPT !.pc = "done", !.outcome = "none"]
<1>3. /\ n \in Run /\ n.pc = "done" /\ n.tracked = run[a].tracked
      /\ run' = [run EXCEPT ![a] = n]
  BY <1>2 DEF JobEnds, Run, WorkSteps
<1> HIDE DEF n
<1>4. run'[a] = n /\ \A b \in Attempts : b # a => run'[b] = run[b]
  BY <1>2, <1>3
<1>5. /\ Answer(a, run[a].outcome)
      /\ ~fault' /\ rec[a].result # "none" => Queues(JobOf[a], a, run[a].outcome)
  <2>1. QueueResult(a, run[a].outcome)
    BY DEF JobEnds
  <2> QED BY <1>2, <2>1, QueueResultAnswers
<1>6. Moves /\ Only(a) /\ (fault => fault')
  BY <1>5 DEF Answer, Moves
<1>7. ~fault' => results'[JobOf[a]].attempt = a
  <2> SUFFICES ASSUME ~fault' PROVE results'[JobOf[a]].attempt = a
    OBVIOUS
  <2>1. rec[a].result # "none"
    BY <1>2, <1>6 DEF Results
  <2>2. results' = [results EXCEPT ![JobOf[a]] = [attempt |-> a, result |-> run[a].outcome]]
    BY <1>5, <2>1 DEF Queues
  <2> QED BY <2>2, KeysApart DEF ClientTypes, OutboxTypeOK
<1>8. \A b \in Attempts : b # a => run[b].pc \in {"idle", "done"}
  <2> SUFFICES ASSUME NEW b \in Attempts, b # a PROVE run[b].pc \in {"idle", "done"}
    OBVIOUS
  <2>1. run[b].pc \in WorkSteps
    BY <1>2 DEF Run
  <2> QED BY <1>2, <2>1 DEF Slot, WorkSteps
<1>9. Journals' /\ ClientTypes' /\ Startup'
  <2>1. run' \in [Attempts -> Run] /\ Drain \in
          [pc : {"free", "drain", "reject"}, key : Keys \cup {NoAttempt},
           attempt : Attempts \cup {NoAttempt}]
    BY <1>2, <1>3 DEF Drain, Free
  <2> QED BY <1>1, <1>2, <1>5, <1>6, <2>1, AnswerKeepsPlaces DEF Moves, ClientTypes, Startup
<1>10. Slot'
  <2>1. \A b \in Attempts : run'[b].pc \in {"idle", "done"} /\ ~Starting(b)'
    BY <1>3, <1>4, <1>8 DEF Starting
  <2>2. ASSUME NEW b \in Attempts, run'[b].tracked, ~fault'
        PROVE  b \in recovered' \/ rec'[b].result # "none"
    <3>1. recovered' = recovered /\ ~fault /\ (rec[b].result # "none" => rec'[b].result # "none")
      BY <1>6, <2>2 DEF Moves, Grows
    <3>2. CASE b = a
      BY <1>2, <3>1, <3>2 DEF Results
    <3>3. CASE b # a
      BY <1>4, <1>8, <2>2, <3>1, <3>3 DEF Slot, Starting
    <3> QED BY <3>2, <3>3
  <2> QED BY <1>1, <2>1, <2>2 DEF Slot
<1>11. Outbox' /\ Answered' /\ Entombing'
  BY <1>1, <1>2, <1>5, <1>6, AnswerKeepsOutbox, AnsweredStays, EntombingStays
<1>12. Deferred'
  <2> SUFFICES ASSUME NEW j \in Jobs, deferred'[j] # NoAttempt, NEW d, d = deferred[j]
               PROVE  d \in Attempts /\ Untouched(d) /\ deferred'[j] = d
    BY <1>1, <1>6, DeferredStays
  <2>1. /\ d \in Attempts /\ JobOf[d] = j /\ d # a /\ ~run[d].tracked
        /\ cancelling[d].pc = "idle" /\ deferred'[j] = d
    BY <1>1, <1>2 DEF ClientTypes, Deferred, Waiting
  <2> QED BY <1>1, <1>4, <1>6, <2>1, KeysApart DEF Untouched, Only
<1>13. Rejecting'
  BY <1>1 DEF Rejecting, Drain
<1>14. Stops'
  BY <1>1, <1>3, <1>4, <1>6, StopsStays DEF Working
<1>15. Awaited'
  <2> SUFFICES ASSUME ~fault', NEW b \in Attempts,
                      run'[b].tracked, ~run'[b].held, run'[b].pc = "done"
               PROVE  \/ Filled(JobOf[b])'
                      \/ \E k \in Keys : /\ cancelling[k].pc = "stopped"
                                         /\ cancelling[k].target = b
                                         /\ JobOfKey(k) = JobOf[b]
    BY <1>1 DEF Awaited
  <2>1. CASE b = a
    BY <1>7, <2>1, KeysApart DEF Filled, Empty
  <2>2. CASE b # a
    <3>1. Filled(JobOf[b]) => Filled(JobOf[b])'
      BY <1>2, <1>5, AnswerKeepsPlaces, KeysApart
    <3> QED BY <1>4, <1>6, <2>2, <3>1 DEF Awaited
  <2> QED BY <2>1, <2>2
<1>16. NoMixedJobs => Queued'
  <2> SUFFICES ASSUME Queued, ~fault', NEW b \in Attempts,
                      rec'[b].result # "none", ~rec'[b].accepted
               PROVE  \E k \in Keys : results'[k].attempt = b
    BY <1>1 DEF Queued
  <2>1. CASE b = a
    BY <1>7, <2>1, KeysApart
  <2>2. CASE b # a
    <3>1. rec'[b] = rec[b] /\ ~fault /\ run[b].pc # "returned"
      BY <1>6, <1>8, <2>2 DEF Only
    <3>2. PICK k \in Keys : results[k].attempt = b
      BY <1>1, <3>1 DEF Queued
    <3>3. results'[k].attempt = b
      BY <1>2, <1>5, <3>2, AnswerKeepsPlaces
    <3> QED BY <3>3
  <2> QED BY <2>1, <2>2
<1> QED BY <1>9, <1>10, <1>11, <1>12, <1>13, <1>14, <1>15, <1>16

LEMMA DrainEndsKeepsInv ==
  ASSUME ClientInv, DrainEnds
  PROVE  ClientInv'
<1> USE DEF ClientInv
<1>1. /\ mode = "up" /\ mode' = mode /\ todo' = todo /\ lock' = Free
      /\ tombstones' = tombstones /\ fenced' = fenced /\ deferred' = deferred
      /\ active' = active /\ cancelling' = cancelling /\ answers' = answers
      /\ promised' = promised /\ run' = run /\ UNCHANGED <<jvars, outboxVars>>
  BY DEF DrainEnds, coordinator, admission
<1>2. Moves /\ rec' = rec /\ fault' = fault /\ results' = results
  BY <1>1, StillMoves DEF outboxVars
<1>3. Journals' /\ ClientTypes' /\ Startup'
  BY <1>1, <1>2 DEF Moves, ClientTypes, Startup, OutboxTypeOK, outboxVars, Free
<1>4. Slot'
  BY <1>1, <1>2, SlotStays DEF Slot, Filled
<1>5. Outbox' /\ Answered' /\ Entombing' /\ Stops'
  BY <1>1, <1>2, OutboxStays, AnsweredStays, EntombingStays, StopsStays DEF Working
<1>6. Deferred' /\ Rejecting'
  BY <1>1, <1>2 DEF Deferred, Waiting, Rejecting, Free, Moves
<1>7. Awaited' /\ (NoMixedJobs => Queued')
  BY <1>1, <1>2, AwaitedStays, QueuedStays DEF Filled
<1> QED BY <1>3, <1>4, <1>5, <1>6, <1>7

(***************************************************************************)
(* Results.                                                                 *)
(***************************************************************************)

LEMMA SendResultKeepsInv ==
  ASSUME ClientInv, NEW k \in Keys, SendResult(k)
  PROVE  ClientInv'
<1> USE DEF ClientInv
<1> DEFINE p == results[k]
<1>1. /\ mode = "up" /\ mode' = mode /\ todo' = todo /\ lock' = lock
      /\ tombstones' = tombstones /\ fenced' = fenced /\ deferred' = deferred
      /\ active' = active /\ cancelling' = cancelling /\ run' = run
      /\ promised' = promised /\ UNCHANGED jvars /\ results' = results
      /\ files' \in {files, [files EXCEPT ![k] = p]}
      /\ answers' = [answers EXCEPT ![p.attempt] = @ \cup {p.result}]
      /\ Filled(k)
  BY DEF SendResult, SendPending, Persist, control, admission
<1>2. Moves /\ rec' = rec /\ fault' = fault
  BY <1>1, StillMoves
<1>3. /\ results \in [Keys -> Pending] /\ files \in [Keys -> Pending]
      /\ answers \in [Attempts -> SUBSET Results]
  BY DEF ClientTypes, OutboxTypeOK
<1>4. p # Empty /\ Placed(k, p) /\ Explained(p) /\ p.attempt \in Attempts /\ p.result \in Results
  BY <1>1 DEF Outbox, Placed, Filled
<1> HIDE DEF p
<1>5. p = results[k] /\ p \in Pending
  BY <1>3 DEF p
<1>6. files'[k] \in {files[k], p} /\ \A l \in Keys : l # k => files'[l] = files[l]
  BY <1>1, <1>3
<1>7. Journals' /\ ClientTypes' /\ Startup'
  <2>1. files' \in [Keys -> Pending] /\ answers' \in [Attempts -> SUBSET Results]
    BY <1>1, <1>3, <1>4, <1>5
  <2> QED BY <1>1, <1>2, <2>1 DEF Moves, ClientTypes, Startup, OutboxTypeOK
<1>8. Outbox'
  <2> SUFFICES ASSUME NEW l \in Keys
               PROVE  /\ Placed(l, results[l]) /\ Placed(l, files'[l])
                      /\ results[l] # Empty => Explained(results[l])
                      /\ files'[l] # Empty => Explained(files'[l])
                      /\ l \in Jobs /\ files'[l] # Empty => results[l].attempt = files'[l].attempt
    BY <1>1, <1>2 DEF Outbox, Filled, Explained
  <2>1. files'[l] = files[l] \/ (l = k /\ files'[l] = p)
    BY <1>6
  <2> QED BY <1>1, <1>4, <1>5, <2>1 DEF Outbox, Filled
<1>9. Answered'
  <2> SUFFICES ASSUME NEW a \in Attempts, answers'[a] # {}
               PROVE  /\ rec[a].result # "none"
                      /\ RuntimeOf[a] # "workspace" => answers'[a] = {rec[a].result}
    BY <1>2 DEF Answered
  <2>1. CASE a = p.attempt
    <3>1. answers'[a] = answers[a] \cup {p.result}
      BY <1>1, <1>3, <2>1
    <3>2. rec[a].result # "none" /\ (RuntimeOf[a] # "workspace" => rec[a].result = p.result)
      BY <1>4, <2>1 DEF Explained
    <3> QED BY <3>1, <3>2 DEF Answered
  <2>2. CASE a # p.attempt
    BY <1>1, <1>3, <2>2 DEF Answered
  <2> QED BY <2>1, <2>2
<1>10. Slot'
  BY <1>1, <1>2, SlotStays DEF Slot, Filled
<1>11. Deferred' /\ Rejecting' /\ Entombing'
  BY <1>1, <1>2, EntombingStays DEF Deferred, Waiting, Rejecting, Moves
<1>12. Stops' /\ Awaited' /\ (NoMixedJobs => Queued')
  BY <1>1, <1>2, StopsStays, AwaitedStays, QueuedStays DEF Working, Filled
<1> QED BY <1>7, <1>8, <1>9, <1>10, <1>11, <1>12

LEMMA ReconnectKeepsInv ==
  ASSUME ClientInv, Reconnect
  PROVE  ClientInv'
<1> USE DEF ClientInv
<1>1. /\ mode = "up" /\ mode' = mode /\ todo' = todo /\ lock' = lock
      /\ tombstones' = tombstones /\ fenced' = fenced /\ deferred' = deferred
      /\ active' = active /\ cancelling' = cancelling /\ run' = run /\ answers' = answers
      /\ promised' = promised /\ UNCHANGED jvars /\ files' = files
      /\ results' = [k \in Keys |-> IF Filled(k) THEN results[k] ELSE files[k]]
  BY DEF Reconnect, LoadPendingResults, control, admission, coordinator
<1>2. Moves /\ rec' = rec /\ fault' = fault
  BY <1>1, StillMoves
<1>3. results \in [Keys -> Pending] /\ files \in [Keys -> Pending]
  BY DEF ClientTypes, OutboxTypeOK
<1>4. \A k \in Keys : results'[k] = IF Filled(k) THEN results[k] ELSE files[k]
  BY <1>1
<1>5. /\ \A k \in Keys : Filled(k) => Filled(k)'
      /\ \A k \in Keys : results[k].attempt \in Attempts => results'[k] = results[k]
  BY <1>4, OutboxAssumption DEF Filled, Empty
<1>6. \A j \in Jobs : ~Filled(j) => ~Filled(j)'
  <2> SUFFICES ASSUME NEW j \in Jobs, ~Filled(j), files[j] # Empty PROVE FALSE
    BY <1>4, KeysApart DEF Filled
  <2>1. j \in Keys /\ results[j].attempt = files[j].attempt /\ files[j].attempt \in Attempts
    BY <1>1, KeysApart DEF Outbox, Placed
  <2> QED BY <2>1, OutboxAssumption DEF Filled, Empty
<1>7. Journals' /\ ClientTypes' /\ Startup'
  BY <1>1, <1>2, <1>3 DEF Moves, ClientTypes, Startup, OutboxTypeOK
<1>8. Outbox'
  <2> SUFFICES ASSUME NEW l \in Keys
               PROVE  /\ Placed(l, results'[l]) /\ Placed(l, files[l])
                      /\ results'[l] # Empty => Explained(results'[l])
                      /\ files[l] # Empty => Explained(files[l])
                      /\ l \in Jobs /\ files[l] # Empty => results'[l].attempt = files[l].attempt
    BY <1>1, <1>2 DEF Outbox, Filled, Explained
  <2> QED BY <1>1, <1>4 DEF Outbox, Filled
<1>9. Slot'
  <2>1. active # NoAttempt => ~Filled(JobOf[active])'
    BY <1>1, <1>6, KeysApart DEF Slot, ClientTypes
  <2> QED BY <1>1, <1>2, <2>1, SlotStays DEF Slot
<1>10. Answered' /\ Deferred' /\ Rejecting' /\ Entombing'
  BY <1>1, <1>2, AnsweredStays, EntombingStays DEF Deferred, Waiting, Rejecting, Moves
<1>11. Stops' /\ (NoMixedJobs => Queued')
  BY <1>1, <1>2, <1>5, StopsStays, QueuedStays DEF Working
<1>12. Awaited'
  BY <1>1, <1>2, <1>5, KeysApart, AwaitedStays
<1> QED BY <1>7, <1>8, <1>9, <1>10, <1>11, <1>12

LEMMA ForgetFacts ==
  ASSUME ClientTypes, NEW j, run' \in {run, ForgetExecution(j)}
  PROVE  /\ run' \in [Attempts -> Run]
         /\ \A a \in Attempts :
              /\ run'[a].pc = run[a].pc /\ run'[a].outcome = run[a].outcome
              /\ run'[a].held = run[a].held
              /\ run'[a].tracked => run[a].tracked
              /\ Starting(a) => run'[a].tracked = run[a].tracked
         /\ run' = ForgetExecution(j) =>
              \A a \in Attempts : JobOf[a] = j /\ run[a].pc = "done" /\ ~run[a].held =>
                 ~run'[a].tracked
<1>1. run \in [Attempts -> Run]
  BY DEF ClientTypes
<1>2. CASE run' = run
  <2>1. ASSUME NEW a \in Attempts, run' = ForgetExecution(j), JobOf[a] = j,
               run[a].pc = "done", ~run[a].held, run'[a].tracked
        PROVE  FALSE
    <3>1. run'[a] = [run[a] EXCEPT !.tracked = FALSE, !.stopping = FALSE]
      BY <1>2, <2>1 DEF ForgetExecution
    <3>2. run[a] \in Run
      BY <1>1
    <3> QED BY <2>1, <3>1, <3>2 DEF Run
  <2> QED BY <1>1, <1>2, <2>1
<1>3. CASE run' = ForgetExecution(j)
  <2>1. ASSUME NEW a \in Attempts
        PROVE  /\ run'[a] \in Run
               /\ run'[a].pc = run[a].pc /\ run'[a].outcome = run[a].outcome
               /\ run'[a].held = run[a].held
               /\ run'[a].tracked => run[a].tracked
               /\ Starting(a) => run'[a].tracked = run[a].tracked
               /\ JobOf[a] = j /\ run[a].pc = "done" /\ ~run[a].held => ~run'[a].tracked
    <3>1. run[a] \in Run
      BY <1>1
    <3>2. CASE /\ JobOf[a] = j /\ run[a].tracked /\ ~run[a].held
               /\ run[a].pc \in {"returned", "done"}
      <4>1. run'[a] = [run[a] EXCEPT !.tracked = FALSE, !.stopping = FALSE]
        BY <1>3, <3>2 DEF ForgetExecution
      <4> QED BY <3>1, <3>2, <4>1 DEF Run, Starting
    <3>3. CASE ~ /\ JobOf[a] = j /\ run[a].tracked /\ ~run[a].held
                 /\ run[a].pc \in {"returned", "done"}
      <4>1. run'[a] = run[a]
        BY <1>3, <3>3 DEF ForgetExecution
      <4> QED BY <3>1, <3>3, <4>1
    <3> QED BY <3>2, <3>3
  <2>2. run' \in [Attempts -> Run]
    BY <1>3, <2>1 DEF ForgetExecution
  <2> QED BY <2>1, <2>2
<1> QED BY <1>2, <1>3

LEMMA AcknowledgeResultKeepsInv ==
  ASSUME ClientInv, NEW a \in Attempts, AcknowledgeResult(a)
  PROVE  ClientInv'
<1> USE DEF ClientInv
<1> DEFINE k == AckKey(a)
           b == results[k].attempt
<1>1. PICK accepted \in BOOLEAN :
        /\ AckResult(a, accepted)
        /\ lock' = IF accepted THEN Drain ELSE lock
        /\ run' = IF accepted /\ k \in Jobs THEN ForgetExecution(k) ELSE run
  BY DEF AcknowledgeResult
<1>2. /\ mode = "up" /\ mode' = mode /\ todo' = todo /\ lock.pc # "reject"
      /\ tombstones' = tombstones /\ fenced' = fenced /\ deferred' = deferred
      /\ active' = active /\ cancelling' = cancelling /\ answers' = answers
      /\ promised' = promised
  BY DEF AcknowledgeResult, admission, coordinator, Ready, Free
<1>3. /\ results \in [Keys -> Pending] /\ files \in [Keys -> Pending]
      /\ k \in Keys /\ b # NoAttempt
  BY <1>1, KeysApart DEF ClientTypes, OutboxTypeOK, AckKey, AckResult, Acknowledged
<1>4. b \in Attempts /\ Filled(k) /\ rec[b].result # "none" /\ Placed(k, results[k])
  BY <1>2, <1>3 DEF Outbox, Placed, Filled, Empty, Explained
<1>5. PICK ok \in BOOLEAN :
        /\ Accept(b, ok)
        /\ \/ /\ ok /\ accepted
              /\ results' = [results EXCEPT ![k] = Empty]
              /\ files' = [files EXCEPT ![k] = Empty]
           \/ ~accepted /\ UNCHANGED outboxVars
  BY <1>1 DEF AckResult
<1> HIDE DEF k, b
<1>6. /\ Moves /\ Only(b) /\ rec'[b].result = rec[b].result
      /\ rec'[b].knownUnstarted = rec[b].knownUnstarted
      /\ rec'[b].cancelRequested = rec[b].cancelRequested
  BY <1>4, <1>5, AcceptMoves
<1>7. ok => rec'[b].accepted
  <2>1. Present(rec[b])
    BY <1>4, RecordFacts DEF NoRecord
  <2> QED BY <1>4, <1>5, <2>1, AcceptMoves
<1>8. \A c \in Attempts :
        /\ rec'[c].result = rec[c].result
        /\ rec'[c].knownUnstarted = rec[c].knownUnstarted
        /\ rec'[c].cancelRequested = rec[c].cancelRequested
  BY <1>6 DEF Only
<1>9. /\ \A l \in Keys : l # k => results'[l] = results[l] /\ files'[l] = files[l]
      /\ accepted => results'[k] = Empty /\ files'[k] = Empty /\ ok
      /\ ~accepted => results'[k] = results[k] /\ files'[k] = files[k]
  BY <1>3, <1>5 DEF outboxVars
<1>10. /\ run' \in [Attempts -> Run]
       /\ \A c \in Attempts :
            /\ run'[c].pc = run[c].pc /\ run'[c].outcome = run[c].outcome
            /\ run'[c].held = run[c].held
            /\ run'[c].tracked => run[c].tracked
            /\ Starting(c) => run'[c].tracked = run[c].tracked
       /\ accepted /\ k \in Jobs =>
            \A c \in Attempts : JobOf[c] = k /\ run[c].pc = "done" /\ ~run[c].held =>
               ~run'[c].tracked
  BY <1>1, ForgetFacts DEF k
<1>11. Journals' /\ ClientTypes' /\ Startup'
  <2>1. results' \in [Keys -> Pending] /\ files' \in [Keys -> Pending]
    <3>1. Empty \in Pending
      BY DEF Pending, Empty
    <3> QED BY <1>3, <1>5, <3>1 DEF outboxVars
  <2>2. lock' \in [pc : {"free", "drain", "reject"}, key : Keys \cup {NoAttempt},
                   attempt : Attempts \cup {NoAttempt}]
    BY <1>1 DEF Drain, Free, ClientTypes
  <2> QED BY <1>2, <1>6, <1>10, <2>1, <2>2 DEF Moves, ClientTypes, Startup, OutboxTypeOK
<1>12. Slot'
  <2>1. SameSteps
    BY <1>10 DEF SameSteps, Slot
  <2>2. active # NoAttempt => ~Filled(JobOf[active])'
    BY <1>2, <1>4, <1>9, KeysApart DEF Slot, ClientTypes, Filled
  <2>3. active # NoAttempt => rec'[active].result = rec[active].result
    BY <1>8 DEF ClientTypes
  <2> QED BY <1>2, <1>6, <2>1, <2>2, <2>3, SlotKeeps DEF Slot
<1>13. Outbox'
  <2>1. ASSUME NEW l \in Keys, NEW q, q \in {results[l], files[l]}, q # Empty
        PROVE  q.attempt \in Attempts /\ Explained(q) /\ Explained(q)'
    <3>1. q.attempt \in Attempts /\ Explained(q)
      BY <1>2, <2>1 DEF Outbox, Placed, Filled
    <3> QED BY <1>8, <3>1 DEF Explained
  <2>2. ASSUME NEW l \in Keys
        PROVE  /\ results'[l] \in {results[l], Empty} /\ files'[l] \in {files[l], Empty}
               /\ Placed(l, results'[l]) /\ Placed(l, files'[l])
               /\ l \in Jobs /\ files'[l] # Empty => results'[l].attempt = files'[l].attempt
    BY <1>2, <1>9 DEF Outbox, Placed
  <2>3. ASSUME NEW l \in Keys PROVE results'[l] # Empty => Explained(results[l])'
    <3>1. CASE results'[l] # Empty
      <4>1. results'[l] = results[l]
        BY <2>2, <3>1
      <4>2. rec'[results[l].attempt].result # "none" /\
            (RuntimeOf[results[l].attempt] # "workspace" =>
               rec'[results[l].attempt].result = results[l].result)
        BY <2>1, <3>1, <4>1 DEF Explained
      <4> QED BY <4>1, <4>2 DEF Explained
    <3> QED BY <3>1
  <2>4. ASSUME NEW l \in Keys PROVE files'[l] # Empty => Explained(files[l])'
    <3>1. CASE files'[l] # Empty
      <4>1. files'[l] = files[l]
        BY <2>2, <3>1
      <4>2. rec'[files[l].attempt].result # "none" /\
            (RuntimeOf[files[l].attempt] # "workspace" =>
               rec'[files[l].attempt].result = files[l].result)
        BY <2>1, <3>1, <4>1 DEF Explained
      <4> QED BY <4>1, <4>2 DEF Explained
    <3> QED BY <3>1
  <2> QED BY <2>2, <2>3, <2>4 DEF Outbox, Filled
<1>14. Answered' /\ Entombing'
  BY <1>2, <1>6, AnsweredStays, EntombingStays
<1>15. Deferred'
  <2> SUFFICES ASSUME NEW j \in Jobs, deferred'[j] # NoAttempt, NEW d, d = deferred[j]
               PROVE  d \in Attempts /\ Untouched(d) /\ deferred'[j] = d
    BY <1>2, <1>6, DeferredStays
  <2>1. /\ d \in Attempts /\ d # active /\ ~run[d].tracked
        /\ cancelling[d].pc = "idle" /\ deferred'[j] = d
    BY <1>2 DEF ClientTypes, Deferred, Waiting
  <2> QED BY <1>2, <1>8, <1>10, <2>1 DEF Untouched
<1>16. Rejecting'
  BY <1>1, <1>2 DEF Rejecting, Drain, Free
<1>17. Stops'
  BY <1>2, <1>6, <1>10, StopsStays DEF Working
<1>18. Awaited'
  <2> SUFFICES ASSUME ~fault', NEW c \in Attempts,
                      run'[c].tracked, ~run'[c].held, run'[c].pc = "done"
               PROVE  \/ Filled(JobOf[c])'
                      \/ \E l \in Keys : /\ cancelling[l].pc = "stopped"
                                         /\ cancelling[l].target = c
                                         /\ JobOfKey(l) = JobOf[c]
    BY <1>2 DEF Awaited
  <2>1. \/ Filled(JobOf[c])
        \/ \E l \in Keys : /\ cancelling[l].pc = "stopped" /\ cancelling[l].target = c
                           /\ JobOfKey(l) = JobOf[c]
    BY <1>6, <1>10 DEF Awaited, Moves
  <2>2. JobOf[c] \in Jobs /\ JobOf[c] \in Keys
    BY KeysApart
  <2>3. JobOf[c] = k => ~accepted
    BY <1>10, <2>2
  <2>4. Filled(JobOf[c]) => Filled(JobOf[c])'
    BY <1>9, <2>2, <2>3 DEF Filled
  <2> QED BY <2>1, <2>4
<1>19. NoMixedJobs => Queued'
  <2> SUFFICES ASSUME Queued, ~fault', NEW c \in Attempts,
                      rec'[c].result # "none", ~rec'[c].accepted
               PROVE  (\E l \in Keys : results'[l].attempt = c) \/ run'[c].pc = "returned"
    BY <1>2 DEF Queued
  <2>1. rec[c].result # "none" /\ ~rec[c].accepted /\ ~fault
    BY <1>6, <1>8 DEF Moves, Grows
  <2>2. run[c].pc = "returned" \/ \E l \in Keys : results[l].attempt = c
    BY <1>2, <2>1 DEF Queued
  <2>3. ASSUME NEW l \in Keys, results[l].attempt = c PROVE results'[l].attempt = c
    <3>1. l = k => ~accepted
      BY <1>7, <1>9, <2>3 DEF b
    <3> QED BY <1>9, <2>3, <3>1
  <2> QED BY <1>10, <2>2, <2>3
<1> QED BY <1>11, <1>12, <1>13, <1>14, <1>15, <1>16, <1>17, <1>18, <1>19

(***************************************************************************)
(* Cancellations.                                                           *)
(***************************************************************************)

LEMMA EntombMoves ==
  ASSUME Journals, NEW a \in Attempts, NEW ok \in BOOLEAN, Entomb(a, ok)
  PROVE  /\ Moves /\ Only(a) /\ rec'[a].result = rec[a].result
         /\ ok => rec'[a].cancelRequested
         /\ ~ok => rec' = rec
         /\ fenced' = (fenced \/ ~ok)
<1>1. CASE RememberCancellation(a, ok)
  BY <1>1, CancellationMoves DEF Entomb
<1>2. CASE ~ok /\ UNCHANGED jvars
  BY <1>2, StillMoves DEF Entomb, Only
<1> QED BY <1>1, <1>2 DEF Entomb

LEMMA BuriedType ==
  ASSUME Journals, NEW a \in Attempts
  PROVE  Buried(a) \in Tombstone /\ Buried(a).set
<1>1. rec[a] \in Record
  BY RecordFacts
<1> DEFINE never == Docker(rec[a].runtime) /\ ~rec[a].daemon /\ rec[a].phase = "running"
           known == rec[a].knownUnstarted \/ never
<1>2. Cancelled(a).knownUnstarted = known /\ Cancelled(a).stopVerified = rec[a].stopVerified
  BY <1>1 DEF Cancelled, Record
<1>3. known \in BOOLEAN /\ rec[a].stopVerified \in BOOLEAN
  BY <1>1 DEF Record
<1> HIDE DEF known
<1> QED BY <1>2, <1>3 DEF Buried, Tombstone

\* A deferred assignment is taken out of the queue by a cancellation.
LEMMA TakenKeepsInv ==
  ASSUME ClientInv, mode = "up", NEW d \in Attempts, deferred[JobOf[d]] = d,
         NEW k \in Keys, NEW ok \in BOOLEAN,
         cancelling[k].pc = "idle", k \in Attempts => k = d /\ ok,
         Entomb(d, ok), TakeDeferred(k, d, ok),
         UNCHANGED <<outboxVars, mode, todo, active, run, coordinator>>
  PROVE  ClientInv'
<1> USE DEF ClientInv
<1>1. /\ mode' = mode /\ todo' = todo /\ lock' = [pc |-> "reject", key |-> k, attempt |-> d]
      /\ active' = active /\ cancelling' = cancelling /\ run' = run /\ answers' = answers
      /\ promised' = promised /\ UNCHANGED outboxVars
      /\ deferred' = [deferred EXCEPT ![JobOf[d]] = NoAttempt]
  BY DEF TakeDeferred, coordinator
<1>2. /\ Moves /\ Only(d) /\ (ok => rec'[d].cancelRequested)
      /\ \A a \in Attempts : rec'[a].result = rec[a].result
      /\ fenced' = (fenced \/ ~ok)
  BY EntombMoves DEF Only
<1>3. /\ deferred \in [Jobs -> Attempts \cup {NoAttempt}] /\ JobOf[d] \in Jobs
      /\ d # NoAttempt /\ tombstones \in [Attempts -> Tombstone] /\ fenced \in BOOLEAN
  BY KeysApart DEF ClientTypes
<1>4. /\ deferred' \in [Jobs -> Attempts \cup {NoAttempt}]
      /\ deferred'[JobOf[d]] = NoAttempt
      /\ \A j \in Jobs : j # JobOf[d] => deferred'[j] = deferred[j]
  BY <1>1, <1>3
<1>5. /\ tombstones' \in [Attempts -> Tombstone]
      /\ \A a \in Attempts : tombstones'[a].set => tombstones[a].set \/ (a = d /\ ok)
  <2> DEFINE t == [Buried(d) EXCEPT !.knownUnstarted = TRUE]
  <2>1. t \in Tombstone
    BY BuriedType DEF Tombstone
  <2>2. tombstones' = IF ok THEN [tombstones EXCEPT ![d] = t] ELSE tombstones
    BY DEF TakeDeferred
  <2> HIDE DEF t
  <2> QED BY <1>3, <2>1, <2>2
<1>6. Journals' /\ ClientTypes' /\ Startup'
  <2>1. lock' \in [pc : {"free", "drain", "reject"}, key : Keys \cup {NoAttempt},
                   attempt : Attempts \cup {NoAttempt}]
    BY <1>1
  <2>2. fenced' \in BOOLEAN
    BY <1>2, <1>3
  <2> QED BY <1>1, <1>2, <1>4, <1>5, <2>1, <2>2
          DEF Moves, ClientTypes, Startup, OutboxTypeOK, outboxVars
<1>7. Slot'
  <2>1. active # NoAttempt => /\ rec'[active].result = rec[active].result
                              /\ ~Filled(JobOf[active])'
                              /\ deferred'[JobOf[active]] = NoAttempt
    BY <1>1, <1>2, <1>4, KeysApart DEF Slot, ClientTypes, Filled, outboxVars
  <2> QED BY <1>1, <1>2, <2>1, SlotStays
<1>8. Outbox' /\ Answered'
  BY <1>1, <1>2, OutboxStays, AnsweredStays
<1>9. Deferred'
  <2> SUFFICES ASSUME NEW j \in Jobs, deferred'[j] # NoAttempt, NEW e, e = deferred[j]
               PROVE  e \in Attempts /\ Untouched(e) /\ deferred'[j] = e
    BY <1>2, DeferredStays
  <2>1. /\ e \in Attempts /\ JobOf[e] = j /\ e # active /\ ~run[e].tracked
        /\ cancelling[e].pc = "idle" /\ deferred'[j] = e /\ e # d
    BY <1>3, <1>4 DEF Deferred, Waiting
  <2> QED BY <1>1, <1>2, <2>1 DEF Untouched, Only
<1>10. Rejecting'
  <2>1. Waiting(d)'
    BY <1>1, <1>2, <1>3 DEF Deferred, Waiting
  <2> QED BY <1>1, <1>2, <1>4, <2>1 DEF Rejecting
<1>11. Entombing'
  BY <1>2, <1>5 DEF Entombing, Moves, Grows
<1>12. Stops' /\ Awaited' /\ (NoMixedJobs => Queued')
  BY <1>1, <1>2, StopsStays, AwaitedStays, QueuedStays
     DEF Working, Filled, outboxVars, Moves
<1> QED BY <1>6, <1>7, <1>8, <1>9, <1>10, <1>11, <1>12

\* One cancellation moves: what it claims to have stopped is barred.
LEMMA StopsMove ==
  ASSUME Stops, ClientTypes, Moves, promised' = promised,
         \A a \in Attempts : rec[a].cancelRequested /\ Working(a)' => Working(a),
         NEW k \in Keys, \A l \in Keys : l # k => cancelling'[l] = cancelling[l],
         NEW c, cancelling'[k] = c,
         c.pc = "wait" => /\ c.target \in Attempts /\ JobOf[c.target] = JobOfKey(k)
                          /\ rec'[c.target].cancelRequested
                          /\ k \in Attempts => c.target = k,
         c.pc = "stopped" =>
           /\ c.target # NoAttempt => /\ rec'[c.target].cancelRequested
                                      /\ run'[c.target].pc \notin {"entered", "running"}
                                      /\ k \in Attempts => c.target = k
           /\ k \in Attempts => /\ rec'[k].cancelRequested
                                /\ run'[k].pc \notin {"entered", "running"}
  PROVE  Stops'
<1>1. \A a \in Attempts : Barred(a) => Barred(a)'
  BY BarredStays DEF Barred
<1>2. \A a \in Attempts : rec[a].cancelRequested => rec'[a].cancelRequested
  BY DEF Moves, Grows
<1>3. ASSUME NEW l \in Keys, l # k, NEW a, a = cancelling[l].target
      PROVE  /\ cancelling[l].pc = "wait" =>
                  /\ a \in Attempts /\ JobOf[a] = JobOfKey(l)
                  /\ rec'[a].cancelRequested
                  /\ l \in Attempts => a = l
             /\ cancelling[l].pc = "stopped" =>
                  /\ a # NoAttempt => Barred(a)' /\ (l \in Attempts => a = l)
                  /\ l \in Attempts => Barred(l)'
  <2>1. a \in Attempts \cup {NoAttempt}
    BY <1>3 DEF ClientTypes, Cancellation
  <2> QED BY <1>1, <1>2, <1>3, <2>1 DEF Stops
<1>4. \A a \in promised' : Barred(a)'
  BY <1>1 DEF Stops, ClientTypes
<1> QED BY <1>3, <1>4 DEF Stops, Barred, Working

\* A goroutine is started for the cancellation k, or it is over.
LEMMA SpawnFacts ==
  ASSUME Stops, ClientTypes, Slot, Moves, UNCHANGED <<promised, run>>,
         NEW k \in Keys, NEW t, NEW w \in BOOLEAN, Spawn(k, t, w),
         k \in Attempts => rec'[k].cancelRequested
  PROVE  /\ cancelling' \in [Keys -> Cancellation]
         /\ \A l \in Keys : l # k => cancelling'[l] = cancelling[l]
         /\ Stops'
<1> DEFINE c == Spawned(k, t, w)
<1>1. cancelling \in [Keys -> Cancellation] /\ cancelling' = [cancelling EXCEPT ![k] = c]
  BY DEF ClientTypes, Spawn
<1>2. /\ c \in Cancellation /\ c.pc # "wait"
      /\ c.pc = "stopped" => c.target = NoAttempt /\ (k \in Attempts => ~Tracks(k))
  <2>1. CASE k \in Jobs
    <3>1. c \in {[pc |-> "stopped", target |-> NoAttempt], [pc |-> "ask", target |-> NoAttempt]}
      BY <2>1 DEF Spawned, NotCancelling
    <3> HIDE DEF c
    <3> QED BY <2>1, <3>1, KeysApart DEF Cancellation
  <2>2. CASE k \notin Jobs /\ k \in Attempts
    <3>1. \/ c = [pc |-> "ask", target |-> k]
          \/ c = [pc |-> "stopped", target |-> NoAttempt] /\ ~Tracks(k)
          \/ c = [pc |-> "idle", target |-> NoAttempt]
      BY <2>2 DEF Spawned, NotCancelling
    <3> HIDE DEF c
    <3> QED BY <2>2, <3>1 DEF Cancellation
  <2> QED BY <2>1, <2>2 DEF Keys
<1> HIDE DEF c
<1>3. /\ cancelling' \in [Keys -> Cancellation] /\ cancelling'[k] = c
      /\ \A l \in Keys : l # k => cancelling'[l] = cancelling[l]
  BY <1>1, <1>2
<1>4. k \in Attempts /\ ~Tracks(k) => run'[k].pc \notin {"entered", "running"}
  BY NotStarting DEF Tracks, Working
<1>5. \A a \in Attempts : rec[a].cancelRequested /\ Working(a)' => Working(a)
  BY DEF Working
<1> QED BY <1>2, <1>3, <1>4, <1>5, StopsMove

LEMMA CancelAttemptKeepsInv ==
  ASSUME ClientInv, NEW a \in Attempts, CancelAttempt(a)
  PROVE  ClientInv'
<1> USE DEF ClientInv
<1>1. /\ mode = "up" /\ mode' = mode /\ todo' = todo /\ lock.pc # "reject"
      /\ active' = active /\ run' = run /\ answers' = answers /\ promised' = promised
      /\ UNCHANGED outboxVars
  BY DEF CancelAttempt, coordinator, Ready, Free
<1>2. PICK ok \in BOOLEAN :
        /\ Entomb(a, ok)
        /\ IF ok /\ cancelling[a].pc = "idle" /\ deferred[JobOf[a]] = a
             THEN TakeDeferred(a, a, TRUE)
             ELSE /\ tombstones' = IF ok THEN [tombstones EXCEPT ![a] = Buried(a)]
                                         ELSE tombstones
                  /\ IF ok /\ cancelling[a].pc = "idle"
                       THEN Spawn(a, Buried(a), FALSE) ELSE UNCHANGED cancelling
                  /\ UNCHANGED <<deferred, lock>>
  BY DEF CancelAttempt
<1>3. CASE ok /\ cancelling[a].pc = "idle" /\ deferred[JobOf[a]] = a
  <2>1. Entomb(a, ok) /\ TakeDeferred(a, a, ok)
    BY <1>2, <1>3
  <2> QED BY <1>1, <1>3, <2>1, KeysApart, TakenKeepsInv DEF CancelAttempt
<1>4. CASE ~(ok /\ cancelling[a].pc = "idle" /\ deferred[JobOf[a]] = a)
  <2>1. /\ tombstones' = IF ok THEN [tombstones EXCEPT ![a] = Buried(a)] ELSE tombstones
        /\ IF ok /\ cancelling[a].pc = "idle"
             THEN Spawn(a, Buried(a), FALSE) ELSE UNCHANGED cancelling
        /\ deferred' = deferred /\ lock' = lock
    BY <1>2, <1>4
  <2>2. /\ Moves /\ Only(a) /\ (ok => rec'[a].cancelRequested) /\ (~ok => rec' = rec)
        /\ \A b \in Attempts : rec'[b].result = rec[b].result
        /\ fenced' = (fenced \/ ~ok)
    BY <1>2, EntombMoves DEF Only
  <2>3. /\ tombstones' \in [Attempts -> Tombstone]
        /\ \A b \in Attempts : tombstones'[b].set => tombstones[b].set \/ (b = a /\ ok)
    BY <2>1, BuriedType DEF ClientTypes
  <2>4. /\ cancelling' \in [Keys -> Cancellation] /\ Stops'
        /\ \A l \in Keys : cancelling[l].pc # "idle" \/ l # a => cancelling'[l] = cancelling[l]
        /\ ~ok => cancelling' = cancelling
    <3>1. CASE ok /\ cancelling[a].pc = "idle"
      <4>1. Spawn(a, Buried(a), FALSE) /\ a \in Keys /\ rec'[a].cancelRequested
        BY <2>1, <2>2, <3>1, KeysApart
      <4> QED BY <1>1, <2>2, <3>1, <4>1, SpawnFacts
    <3>2. CASE ~(ok /\ cancelling[a].pc = "idle")
      <4>1. cancelling' = cancelling
        BY <2>1, <3>2
      <4> QED BY <1>1, <2>2, <4>1, StopsStays DEF Working, ClientTypes
    <3> QED BY <3>1, <3>2
  <2>5. Journals' /\ ClientTypes' /\ Startup'
    <3>1. fenced' \in BOOLEAN
      BY <2>2 DEF ClientTypes
    <3> QED BY <1>1, <2>1, <2>2, <2>3, <2>4, <3>1
            DEF Moves, ClientTypes, Startup, OutboxTypeOK, outboxVars
  <2>6. Slot'
    <3>1. active # NoAttempt => /\ rec'[active].result = rec[active].result
                                /\ ~Filled(JobOf[active])'
                                /\ deferred'[JobOf[active]] = NoAttempt
      BY <1>1, <2>1, <2>2 DEF Slot, ClientTypes, Filled, outboxVars
    <3> QED BY <1>1, <2>2, <3>1, SlotStays
  <2>7. Outbox' /\ Answered'
    BY <1>1, <2>2, OutboxStays, AnsweredStays
  <2>8. Deferred'
    <3> SUFFICES ASSUME NEW j \in Jobs, deferred'[j] # NoAttempt, NEW d, d = deferred[j]
                 PROVE  d \in Attempts /\ Untouched(d) /\ deferred'[j] = d
      BY <2>2, DeferredStays
    <3>1. /\ d \in Attempts /\ JobOf[d] = j /\ d # active /\ ~run[d].tracked
          /\ cancelling[d].pc = "idle" /\ deferred'[j] = d
      BY <2>1 DEF ClientTypes, Deferred, Waiting
    <3>2. d = a => ~ok
      BY <1>4, <3>1
    <3>3. rec'[d] = rec[d] /\ cancelling'[d] = cancelling[d]
      BY <2>2, <2>4, <3>1, <3>2, KeysApart DEF Only
    <3> QED BY <1>1, <3>1, <3>3 DEF Untouched
  <2>9. Rejecting'
    BY <1>1, <2>1 DEF Rejecting
  <2>10. Entombing'
    BY <2>2, <2>3 DEF Entombing, Moves, Grows
  <2>11. Awaited' /\ (NoMixedJobs => Queued')
    BY <1>1, <2>2, <2>4, AwaitedStays, QueuedStays DEF Filled, outboxVars, Moves
  <2> QED BY <2>4, <2>5, <2>6, <2>7, <2>8, <2>9, <2>10, <2>11
<1> QED BY <1>3, <1>4

LEMMA CancelJobKeepsInv ==
  ASSUME ClientInv, NEW j \in Jobs, CancelJob(j)
  PROVE  ClientInv'
<1> USE DEF ClientInv
<1>1. /\ mode = "up" /\ mode' = mode /\ todo' = todo /\ lock.pc # "reject"
      /\ active' = active /\ run' = run /\ answers' = answers /\ promised' = promised
      /\ UNCHANGED outboxVars /\ cancelling[j].pc = "idle"
      /\ j \in Keys /\ j \notin Attempts
  BY KeysApart DEF CancelJob, coordinator, Ready, Free
<1>2. CASE deferred[j] # NoAttempt
  <2> DEFINE d == deferred[j]
  <2>1. d \in Attempts /\ JobOf[d] = j /\ deferred[JobOf[d]] = d
    BY <1>2 DEF ClientTypes, Deferred
  <2>2. PICK ok \in BOOLEAN : Entomb(d, ok) /\ TakeDeferred(j, d, ok)
    BY <1>2 DEF CancelJob
  <2> HIDE DEF d
  <2> QED BY <1>1, <2>1, <2>2, TakenKeepsInv DEF CancelJob
<1>3. CASE deferred[j] = NoAttempt
  <2>1. /\ Spawn(j, NoTombstone, FALSE) /\ UNCHANGED jvars /\ deferred' = deferred
        /\ tombstones' = tombstones /\ fenced' = fenced /\ lock' = lock
    BY <1>3 DEF CancelJob
  <2>2. Moves /\ rec' = rec /\ fault' = fault
    BY <2>1, StillMoves
  <2>3. /\ cancelling' \in [Keys -> Cancellation] /\ Stops'
        /\ \A l \in Keys : l # j => cancelling'[l] = cancelling[l]
    BY <1>1, <2>1, <2>2, SpawnFacts
  <2>4. Journals' /\ ClientTypes' /\ Startup'
    BY <1>1, <2>1, <2>2, <2>3 DEF Moves, ClientTypes, Startup, OutboxTypeOK, outboxVars
  <2>5. Slot'
    BY <1>1, <2>1, <2>2, SlotStays DEF Slot, Filled, outboxVars
  <2>6. Outbox' /\ Answered' /\ Entombing' /\ Rejecting'
    BY <1>1, <2>1, <2>2, OutboxStays, AnsweredStays, EntombingStays DEF Rejecting
  <2>7. Deferred'
    <3> SUFFICES ASSUME NEW i \in Jobs, deferred'[i] # NoAttempt, NEW d, d = deferred[i]
                 PROVE  d \in Attempts /\ Untouched(d) /\ deferred'[i] = d
      BY <2>1, <2>2, DeferredStays
    <3>1. /\ d \in Attempts /\ d # active /\ ~run[d].tracked
          /\ cancelling[d].pc = "idle" /\ deferred'[i] = d
      BY <2>1 DEF ClientTypes, Deferred, Waiting
    <3> QED BY <1>1, <2>2, <2>3, <3>1, KeysApart DEF Untouched
  <2>8. Awaited' /\ (NoMixedJobs => Queued')
    BY <1>1, <2>2, <2>3, AwaitedStays, QueuedStays DEF Filled, outboxVars
  <2> QED BY <2>3, <2>4, <2>5, <2>6, <2>7, <2>8
<1> QED BY <1>2, <1>3

LEMMA RejectDeferredKeepsInv ==
  ASSUME ClientInv, RejectDeferred
  PROVE  ClientInv'
<1> USE DEF ClientInv
<1> DEFINE a == lock.attempt
           k == lock.key
<1>1. /\ mode = "up" /\ mode' = mode /\ todo' = todo /\ lock' = Free
      /\ tombstones' = tombstones /\ fenced' = fenced /\ deferred' = deferred
      /\ active' = active /\ run' = run /\ answers' = answers /\ promised' = promised
      /\ QueueAttemptRejection(a, "failure")
      /\ Spawn(k, tombstones[a], TRUE)
  BY DEF RejectDeferred, admission, coordinator, Reject
<1>2. /\ a \in Attempts /\ k \in Keys /\ cancelling[k].pc = "idle" /\ a # active
      /\ rec[a].result \in {"none", "failure"} /\ deferred[JobOf[a]] = NoAttempt
      /\ k \in Attempts => k = a /\ rec[k].cancelRequested
  BY DEF RejectDeferred, Rejecting, Waiting
<1> HIDE DEF a, k
<1>3. Answer(a, "failure") /\ "failure" \in Results
      /\ \A l \in Keys : l # a => results'[l] = results[l]
  BY <1>1, <1>2, RejectionAnswers DEF Results
<1>4. Moves /\ Only(a)
  BY <1>3 DEF Answer
<1>5. /\ cancelling' \in [Keys -> Cancellation] /\ Stops'
      /\ \A l \in Keys : l # k => cancelling'[l] = cancelling[l]
  <2>1. k \in Attempts => rec'[k].cancelRequested
    BY <1>2, <1>4 DEF Moves, Grows
  <2> QED BY <1>1, <1>2, <1>4, <2>1, SpawnFacts
<1>6. Journals' /\ ClientTypes' /\ Startup'
  <2>1. OutboxTypeOK'
    BY <1>2, <1>3, AnswerKeepsPlaces
  <2>2. Free \in [pc : {"free", "drain", "reject"}, key : Keys \cup {NoAttempt},
                  attempt : Attempts \cup {NoAttempt}]
    BY DEF Free
  <2> QED BY <1>1, <1>4, <1>5, <2>1, <2>2 DEF Moves, ClientTypes, Startup
<1>7. Slot'
  <2>1. active # NoAttempt => /\ rec'[active].result = rec[active].result
                              /\ ~Filled(JobOf[active])'
                              /\ deferred'[JobOf[active]] = NoAttempt
    BY <1>1, <1>2, <1>3, <1>4, KeysApart DEF Slot, Only, Filled, ClientTypes
  <2> QED BY <1>1, <1>4, <2>1, SlotStays
<1>8. Outbox' /\ Answered' /\ Entombing'
  BY <1>1, <1>2, <1>3, <1>4, AnswerKeepsOutbox, AnsweredStays, EntombingStays
<1>9. Deferred'
  <2> SUFFICES ASSUME NEW j \in Jobs, deferred'[j] # NoAttempt, NEW d, d = deferred[j]
               PROVE  d \in Attempts /\ Untouched(d) /\ deferred'[j] = d
    BY <1>1, <1>4, DeferredStays
  <2>1. /\ d \in Attempts /\ d # active /\ ~run[d].tracked /\ d # a
        /\ cancelling[d].pc = "idle" /\ deferred'[j] = d
    BY <1>1, <1>2 DEF ClientTypes, Deferred, Waiting
  <2>2. rec'[d] = rec[d] /\ cancelling'[d] = cancelling[d]
    BY <1>2, <1>4, <1>5, <2>1, KeysApart DEF Only
  <2> QED BY <1>1, <2>1, <2>2 DEF Untouched
<1>10. Rejecting'
  BY <1>1 DEF Rejecting, Free
<1>11. Awaited'
  BY <1>1, <1>2, <1>3, <1>4, <1>5, KeysApart, AnswerKeepsPlaces, AwaitedStays DEF Moves
<1>12. NoMixedJobs => Queued'
  BY <1>1, <1>2, <1>3, <1>4, AnswerKeepsPlaces, QueuedStays DEF Only
<1> QED BY <1>5, <1>6, <1>7, <1>8, <1>9, <1>10, <1>11, <1>12

\* A step of the goroutine of the cancellation k: c is its next state.
CancellerStep(k, c) ==
  /\ cancelling' = [cancelling EXCEPT ![k] = c]
  /\ \A a \in Attempts :
       /\ rec'[a].result = rec[a].result
       /\ deferred[JobOf[a]] = a => rec'[a] = rec[a]
  /\ run' \in [Attempts -> Run]
  /\ \A a \in Attempts :
       /\ run'[a].pc = run[a].pc /\ run'[a].outcome = run[a].outcome
       /\ run'[a].tracked = run[a].tracked
       /\ run[a].held => \/ run'[a].held
                         \/ /\ run[a].pc \in {"returned", "done"}
                            /\ run[a].tracked =>
                                 c.pc = "stopped" /\ c.target = a /\ JobOf[a] = JobOfKey(k)
  /\ c.pc = "wait" => /\ c.target \in Attempts /\ JobOf[c.target] = JobOfKey(k)
                      /\ rec'[c.target].cancelRequested
                      /\ k \in Attempts => c.target = k
  /\ c.pc = "stopped" => /\ c.target \in Attempts /\ rec'[c.target].cancelRequested
                         /\ run[c.target].pc \notin {"entered", "running"}
                         /\ k \in Attempts => c.target = k
  /\ UNCHANGED <<outboxVars, control, admission, coordinator>>

LEMMA CancellerKeepsInv ==
  ASSUME ClientInv, mode = "up", NEW k \in Keys, cancelling[k].pc \in {"ask", "wait"},
         Moves, NEW c \in Cancellation, CancellerStep(k, c)
  PROVE  ClientInv'
<1>0. /\ cancelling' = [cancelling EXCEPT ![k] = c]
      /\ \A a \in Attempts :
           /\ rec'[a].result = rec[a].result
           /\ deferred[JobOf[a]] = a => rec'[a] = rec[a]
      /\ run' \in [Attempts -> Run]
      /\ UNCHANGED <<outboxVars, control, admission, coordinator>>
  BY DEF CancellerStep
<1>x. \A a \in Attempts :
         /\ run'[a].pc = run[a].pc /\ run'[a].outcome = run[a].outcome
         /\ run'[a].tracked = run[a].tracked
         /\ run[a].held => \/ run'[a].held
                           \/ /\ run[a].pc \in {"returned", "done"}
                              /\ run[a].tracked =>
                                   c.pc = "stopped" /\ c.target = a /\ JobOf[a] = JobOfKey(k)
  BY DEF CancellerStep
<1> USE DEF ClientInv
<1>1. /\ mode' = mode /\ todo' = todo /\ lock' = lock /\ tombstones' = tombstones
      /\ fenced' = fenced /\ deferred' = deferred /\ active' = active
      /\ answers' = answers /\ promised' = promised /\ UNCHANGED outboxVars
  BY <1>0 DEF control, admission, coordinator
<1>2. /\ cancelling \in [Keys -> Cancellation] /\ run \in [Attempts -> Run]
      /\ cancelling'[k] = c /\ cancelling' \in [Keys -> Cancellation]
      /\ \A l \in Keys : l # k => cancelling'[l] = cancelling[l]
  BY <1>0 DEF ClientTypes
<1>3. \A l \in Keys : cancelling[l].pc \in {"idle", "stopped"} => cancelling'[l] = cancelling[l]
  BY <1>2
<1>4. Journals' /\ ClientTypes' /\ Startup'
  BY <1>0, <1>1, <1>2 DEF Moves, ClientTypes, Startup, OutboxTypeOK, outboxVars
<1>5. Slot'
  <2>1. SameSteps
    BY <1>x DEF SameSteps, Slot, Starting
  <2>2. active # NoAttempt => /\ rec'[active].result = rec[active].result
                              /\ ~Filled(JobOf[active])'
                              /\ deferred'[JobOf[active]] = NoAttempt
    BY <1>0, <1>1 DEF Slot, ClientTypes, Filled, outboxVars
  <2> QED BY <1>1, <2>1, <2>2, SlotKeeps
<1>6. Outbox' /\ Answered' /\ Entombing'
  BY <1>1, OutboxStays, AnsweredStays, EntombingStays
<1>7. Deferred'
  <2> SUFFICES ASSUME NEW j \in Jobs, deferred'[j] # NoAttempt, NEW d, d = deferred[j]
               PROVE  d \in Attempts /\ Untouched(d) /\ deferred'[j] = d
    BY <1>1, DeferredStays
  <2>1. /\ d \in Attempts /\ d # active /\ ~run[d].tracked /\ JobOf[d] = j
        /\ cancelling[d].pc = "idle" /\ deferred'[j] = d
    BY <1>1 DEF ClientTypes, Deferred, Waiting
  <2>2. rec'[d] = rec[d] /\ cancelling'[d] = cancelling[d] /\ ~run'[d].tracked
    BY <1>0, <1>x, <1>3, <2>1, KeysApart
  <2> QED BY <1>1, <2>1, <2>2 DEF Untouched
<1>8. Rejecting'
  <2> SUFFICES ASSUME lock.pc = "reject", NEW d, d = lock.attempt
               PROVE  /\ d # active' /\ ~run'[d].tracked /\ rec'[d].result = rec[d].result
                      /\ deferred'[JobOf[d]] = NoAttempt
                      /\ cancelling'[lock.key].pc = "idle"
                      /\ lock.key \in Attempts /\ rec[lock.key].cancelRequested =>
                           rec'[lock.key].cancelRequested
    BY <1>1, RejectingStays
  <2>1. /\ d \in Attempts /\ d # active /\ ~run[d].tracked /\ deferred[JobOf[d]] = NoAttempt
        /\ cancelling[lock.key].pc = "idle" /\ lock.key \in Keys
    BY DEF Rejecting, Waiting
  <2>2. cancelling'[lock.key].pc = "idle"
    BY <1>3, <2>1
  <2> QED BY <1>0, <1>x, <1>1, <2>1, <2>2 DEF Moves, Grows
<1>9. Stops'
  <2>1. \A a \in Attempts : rec[a].cancelRequested /\ Working(a)' => Working(a)
    BY <1>x DEF Working
  <2>2. /\ c.pc = "stopped" => run'[c.target].pc \notin {"entered", "running"}
        /\ c.target \in Attempts => c.target # NoAttempt
    BY <1>x, KeysApart DEF CancellerStep
  <2> QED BY <1>1, <1>2, <2>1, <2>2, StopsMove DEF CancellerStep
<1>10. Awaited'
  <2> SUFFICES ASSUME ~fault', NEW a \in Attempts,
                      run'[a].tracked, ~run'[a].held, run'[a].pc = "done"
               PROVE  \/ Filled(JobOf[a])
                      \/ \E l \in Keys : /\ cancelling'[l].pc = "stopped"
                                         /\ cancelling'[l].target = a
                                         /\ JobOfKey(l) = JobOf[a]
    BY <1>1 DEF Awaited, Filled, outboxVars
  <2>1. CASE run[a].held
    BY <1>x, <1>2, <2>1
  <2>2. CASE ~run[a].held
    <3>1. \/ Filled(JobOf[a])
          \/ \E l \in Keys : /\ cancelling[l].pc = "stopped" /\ cancelling[l].target = a
                             /\ JobOfKey(l) = JobOf[a]
      BY <1>x, <2>2 DEF Awaited, Moves
    <3> QED BY <1>3, <3>1
  <2> QED BY <2>1, <2>2
<1>11. NoMixedJobs => Queued'
  BY <1>0, <1>x, <1>1, QueuedStays DEF outboxVars
<1> QED BY <1>4, <1>5, <1>6, <1>7, <1>8, <1>9, <1>10, <1>11

LEMMA CancelAsksKeepsInv ==
  ASSUME ClientInv, NEW k \in Keys, CancelAsks(k)
  PROVE  ClientInv'
<1> USE DEF ClientInv
<1>1. /\ mode = "up" /\ cancelling[k].pc = "ask"
      /\ UNCHANGED <<outboxVars, control, admission, coordinator>>
  BY DEF CancelAsks
<1>2. /\ cancelling \in [Keys -> Cancellation] /\ cancelling[k] \in Cancellation
      /\ run \in [Attempts -> Run]
  BY DEF ClientTypes
<1>3. CASE CancelTo(k, "failed") /\ UNCHANGED <<jvars, run>>
  <2> DEFINE c == [cancelling[k] EXCEPT !.pc = "failed"]
  <2>1. /\ c \in Cancellation /\ c.pc = "failed"
        /\ cancelling' = [cancelling EXCEPT ![k] = c]
    BY <1>2, <1>3 DEF Cancellation, CancelTo
  <2>2. Moves /\ rec' = rec
    BY <1>3, StillMoves
  <2> HIDE DEF c
  <2>3. CancellerStep(k, c)
    BY <1>1, <1>2, <1>3, <2>1, <2>2 DEF CancellerStep
  <2> QED BY <1>1, <2>1, <2>2, <2>3, CancellerKeepsInv
<1>4. ASSUME NEW a \in Attempts, NEW ok \in BOOLEAN, RememberCancellation(a, ok)
      PROVE  /\ Moves /\ (ok => rec'[a].cancelRequested)
             /\ \A b \in Attempts : rec'[b].result = rec[b].result
             /\ \A b \in Attempts : b # a => rec'[b] = rec[b]
  BY <1>4, CancellationMoves DEF Only
<1>5. CASE AskUntracked(k)
  <2>1. ASSUME NEW a \in Attempts, NEW ok \in BOOLEAN,
               a = k \/ (k \notin Attempts /\ a \in Tokenless /\ JobOf[a] = k),
               RememberCancellation(a, ok), run' = run,
               cancelling' = [cancelling EXCEPT ![k] =
                 [target |-> a,
                  pc |-> IF ok /\ (Cancelled(a).stopVerified \/ Cancelled(a).knownUnstarted)
                           THEN "stopped" ELSE "failed"]]
        PROVE  ClientInv'
    <3> DEFINE c == [target |-> a,
                     pc |-> IF ok /\ (Cancelled(a).stopVerified \/ Cancelled(a).knownUnstarted)
                              THEN "stopped" ELSE "failed"]
    <3>1. /\ c \in Cancellation /\ c.pc # "wait" /\ c.target = a /\ (c.pc = "stopped" => ok)
          /\ cancelling' = [cancelling EXCEPT ![k] = c]
      BY <2>1 DEF Cancellation
    <3> HIDE DEF c
    <3>2. /\ Moves /\ (ok => rec'[a].cancelRequested)
          /\ \A b \in Attempts : rec'[b].result = rec[b].result
          /\ \A b \in Attempts : b # a => rec'[b] = rec[b]
      BY <1>4, <2>1
    <3>3. deferred[JobOf[a]] # a
      <4>1. CASE a = k
        BY <1>1, <4>1, KeysApart DEF Deferred
      <4>2. CASE a \in Tokenless
        BY <4>2, KeysApart DEF Deferred, Waiting, HasToken
      <4> QED BY <2>1, <4>1, <4>2
    <3>4. run[a].pc \notin {"entered", "running"}
      <4>1. JobOfKey(k) = JobOf[a]
        BY <2>1, KeysApart DEF JobOfKey, Keys
      <4>2. ~run[a].tracked
        BY <1>5, <4>1 DEF AskUntracked, IsTracked
      <4> QED BY <4>2, NotStarting DEF Working
    <3>5. CancellerStep(k, c)
      BY <1>1, <1>2, <2>1, <3>1, <3>2, <3>3, <3>4 DEF CancellerStep
    <3>6. Moves /\ mode = "up" /\ cancelling[k].pc \in {"ask", "wait"} /\ c \in Cancellation
      BY <1>1, <3>1, <3>2
    <3> QED BY <3>5, <3>6, CancellerKeepsInv
  <2>2. PICK a \in IF k \in Attempts THEN {k} ELSE {b \in Tokenless : JobOf[b] = k},
             ok \in BOOLEAN :
          /\ RememberCancellation(a, ok) /\ run' = run
          /\ cancelling' = [cancelling EXCEPT ![k] =
               [target |-> a,
                pc |-> IF ok /\ (Cancelled(a).stopVerified \/ Cancelled(a).knownUnstarted)
                         THEN "stopped" ELSE "failed"]]
    BY <1>5 DEF AskUntracked
  <2> HIDE DEF ClientInv
  <2>3. /\ a \in Attempts
        /\ a = k \/ (k \notin Attempts /\ a \in Tokenless /\ JobOf[a] = k)
    BY <2>2, OutboxAssumption
  <2> QED BY <2>1, <2>2, <2>3
<1>6. CASE AskTracked(k)
  <2>1. PICK a \in Attempts :
          /\ run[a].tracked /\ JobOf[a] = JobOfKey(k)
          /\ \/ CancelTo(k, "failed") /\ UNCHANGED <<jvars, run>>
             \/ /\ k \in Jobs \/ a = k
                /\ \E ok \in BOOLEAN :
                     /\ RememberCancellation(a, ok)
                     /\ cancelling' = [cancelling EXCEPT ![k] =
                          [target |-> a, pc |-> IF ~ok THEN "failed"
                                                ELSE IF run[a].held THEN "wait"
                                                ELSE "stopped"]]
                     /\ run' = [run EXCEPT ![a] = [run[a] EXCEPT !.stopping =
                                  run[a].stopping \/ (ok /\ run[a].held)]]
    BY <1>6 DEF AskTracked
  <2>2. CASE CancelTo(k, "failed") /\ UNCHANGED <<jvars, run>>
    BY <1>3, <2>2
  <2>3. ASSUME k \in Jobs \/ a = k, NEW ok \in BOOLEAN, RememberCancellation(a, ok),
               cancelling' = [cancelling EXCEPT ![k] =
                 [target |-> a, pc |-> IF ~ok THEN "failed"
                                       ELSE IF run[a].held THEN "wait" ELSE "stopped"]],
               run' = [run EXCEPT ![a] = [run[a] EXCEPT !.stopping =
                         run[a].stopping \/ (ok /\ run[a].held)]]
        PROVE  ClientInv'
    <3> DEFINE c == [target |-> a, pc |-> IF ~ok THEN "failed"
                                          ELSE IF run[a].held THEN "wait" ELSE "stopped"]
               stopping == run[a].stopping \/ (ok /\ run[a].held)
               n == [run[a] EXCEPT !.stopping = stopping]
    <3>1. /\ c \in Cancellation /\ c.target = a /\ (c.pc \in {"wait", "stopped"} => ok)
          /\ c.pc = "stopped" => ~run[a].held
          /\ cancelling' = [cancelling EXCEPT ![k] = c]
      BY <2>3 DEF Cancellation
    <3>2. stopping \in BOOLEAN /\ run[a] \in Run
      BY <1>2 DEF Run
    <3>3. /\ n \in Run /\ n.pc = run[a].pc /\ n.outcome = run[a].outcome
          /\ n.tracked = run[a].tracked /\ n.held = run[a].held
      <4> HIDE DEF stopping
      <4> QED BY <3>2 DEF Run
    <3>4. run' = [run EXCEPT ![a] = n]
      BY <2>3
    <3> HIDE DEF c, n, stopping
    <3>5. /\ run' \in [Attempts -> Run]
          /\ \A b \in Attempts : /\ run'[b].pc = run[b].pc /\ run'[b].outcome = run[b].outcome
                                 /\ run'[b].tracked = run[b].tracked
                                 /\ run'[b].held = run[b].held
      BY <1>2, <3>3, <3>4
    <3>6. /\ Moves /\ (ok => rec'[a].cancelRequested)
          /\ \A b \in Attempts : rec'[b].result = rec[b].result
          /\ \A b \in Attempts : b # a => rec'[b] = rec[b]
      BY <1>4, <2>3
    <3>7. deferred[JobOf[a]] # a
      BY <2>1, KeysApart DEF Deferred, Waiting
    <3>8. c.pc = "stopped" => run[a].pc \notin {"entered", "running"}
      BY <3>1 DEF Slot, Starting
    <3>9. k \in Attempts => a = k
      BY <2>3, KeysApart
    <3>10. CancellerStep(k, c)
      BY <1>1, <2>1, <3>1, <3>5, <3>6, <3>7, <3>8, <3>9 DEF CancellerStep
    <3> QED BY <1>1, <3>1, <3>6, <3>10, CancellerKeepsInv
  <2> QED BY <2>1, <2>2, <2>3
<1> QED BY <1>5, <1>6 DEF CancelAsks

LEMMA CancelStopsKeepsInv ==
  ASSUME ClientInv, NEW k \in Keys, CancelStops(k)
  PROVE  ClientInv'
<1> USE DEF ClientInv
<1> DEFINE a == cancelling[k].target
<1>1. /\ mode = "up" /\ cancelling[k].pc = "wait" /\ run[a].pc \in {"returned", "done"}
      /\ UNCHANGED <<outboxVars, control, admission, coordinator>>
  BY DEF CancelStops
<1>2. /\ cancelling \in [Keys -> Cancellation] /\ cancelling[k] \in Cancellation
      /\ run \in [Attempts -> Run]
  BY DEF ClientTypes
<1>3. /\ a \in Attempts /\ JobOf[a] = JobOfKey(k) /\ rec[a].cancelRequested
      /\ k \in Attempts => a = k
  BY <1>1 DEF Stops
<1>4. PICK ok \in BOOLEAN :
        /\ Complete(a, "none", TRUE, ok)
        /\ run' = [run EXCEPT ![a] = [run[a] EXCEPT !.held = ~ok /\ run[a].tracked]]
        /\ CancelTo(k, IF ok THEN "stopped" ELSE "failed")
  BY DEF CancelStops
<1> DEFINE c == [cancelling[k] EXCEPT !.pc = IF ok THEN "stopped" ELSE "failed"]
           held == ~ok /\ run[a].tracked
           n == [run[a] EXCEPT !.held = held]
<1>5. /\ c \in Cancellation /\ c.target = a /\ c.pc = IF ok THEN "stopped" ELSE "failed"
      /\ cancelling' = [cancelling EXCEPT ![k] = c]
  BY <1>2, <1>4 DEF Cancellation, CancelTo
<1>6. run[a] \in Run /\ held \in BOOLEAN /\ (~ok /\ run[a].tracked => held)
  BY <1>2, <1>3 DEF Run
<1>7. /\ n \in Run /\ n.pc = run[a].pc /\ n.outcome = run[a].outcome
      /\ n.tracked = run[a].tracked /\ n.held = held
  <2> HIDE DEF held, a
  <2> QED BY <1>6 DEF Run
<1>8. run' = [run EXCEPT ![a] = n]
  BY <1>4
<1> HIDE DEF c, n, a
<1>9. /\ run' \in [Attempts -> Run] /\ run'[a] = n
      /\ \A b \in Attempts : b # a => run'[b] = run[b]
  BY <1>2, <1>3, <1>7, <1>8
<1>10. Moves /\ Only(a) /\ rec'[a].result = rec[a].result
  <2>1. Moves /\ Only(a) /\ (ok => rec'[a].result = rec[a].result) /\ (~ok => rec' = rec)
    BY <1>3, <1>4, CompleteMoves
  <2> QED BY <2>1
<1>11. /\ \A b \in Attempts : rec'[b].result = rec[b].result
       /\ \A b \in Attempts : b # a => rec'[b] = rec[b]
       /\ rec'[a].cancelRequested
  BY <1>3, <1>10 DEF Only, Moves, Grows
<1>12. deferred[JobOf[a]] # a
  BY <1>3, KeysApart DEF Deferred
<1>13. CancellerStep(k, c)
  <2>1. c.pc = "stopped" \/ (~run[a].tracked \/ held)
    BY <1>5, <1>6
  <2> QED BY <1>1, <1>3, <1>5, <1>7, <1>9, <1>11, <1>12, <2>1 DEF CancellerStep
<1> QED BY <1>1, <1>5, <1>10, <1>13, CancellerKeepsInv

LEMMA CancelFailsKeepsInv ==
  ASSUME ClientInv, NEW k \in Keys, CancelFails(k)
  PROVE  ClientInv'
<1> USE DEF ClientInv
<1> DEFINE c == [cancelling[k] EXCEPT !.pc = "failed"]
<1>1. /\ mode = "up" /\ cancelling[k].pc = "wait" /\ UNCHANGED jvars /\ run' = run
      /\ UNCHANGED <<outboxVars, control, admission, coordinator>>
  BY DEF CancelFails
<1>2. run \in [Attempts -> Run] /\ cancelling \in [Keys -> Cancellation]
  BY DEF ClientTypes
<1>3. /\ c \in Cancellation /\ c.pc = "failed"
      /\ cancelling' = [cancelling EXCEPT ![k] = c]
  BY <1>2 DEF CancelFails, CancelTo, Cancellation
<1>4. Moves /\ rec' = rec
  BY <1>1, StillMoves
<1> HIDE DEF c
<1>5. CancellerStep(k, c)
  BY <1>1, <1>2, <1>3, <1>4 DEF CancellerStep
<1> QED BY <1>1, <1>3, <1>4, <1>5, CancellerKeepsInv


LEMMA CancelReturnsKeepsInv ==
  ASSUME ClientInv, NEW k \in Keys, CancelReturns(k)
  PROVE  ClientInv'
<1> USE DEF ClientInv
<1> DEFINE a == cancelling[k].target
           ok == cancelling[k].pc = "stopped"
           told == IF k \in Attempts THEN {k} ELSE {a} \ {NoAttempt}
           matching == k \in Attempts /\ a = k
           forgets == /\ ok /\ ~Filled(JobOfKey(k))
                      /\ k \in Jobs \/ (matching /\ Tracks(k))
<1>1. /\ mode = "up" /\ mode' = mode /\ todo' = todo /\ lock' = Drain
      /\ fenced' = fenced /\ deferred' = deferred /\ active' = active /\ answers' = answers
      /\ UNCHANGED jvars /\ UNCHANGED outboxVars
      /\ cancelling' = [cancelling EXCEPT ![k] = NotCancelling]
  <2> HIDE DEF ClientInv
  <2> QED BY DEF CancelReturns, Ready
<1>2. tombstones' = IF matching /\ ok THEN [tombstones EXCEPT ![k].stopVerified = TRUE]
                                      ELSE tombstones
  BY DEF CancelReturns
<1>3. run' = IF forgets THEN ForgetExecution(JobOfKey(k)) ELSE run
  BY DEF CancelReturns
<1>4. promised' = IF ok THEN promised \cup told ELSE promised
  BY DEF CancelReturns
<1>5. Moves /\ rec' = rec /\ fault' = fault
  BY <1>1, StillMoves
<1>6. /\ cancelling \in [Keys -> Cancellation] /\ tombstones \in [Attempts -> Tombstone]
      /\ promised \in SUBSET Attempts /\ a \in Attempts \cup {NoAttempt}
  BY DEF ClientTypes, Cancellation
<1>7. /\ cancelling'[k] = NotCancelling /\ NotCancelling \in Cancellation
      /\ \A l \in Keys : l # k => cancelling'[l] = cancelling[l]
  <2>1. NotCancelling \in Cancellation
    BY DEF NotCancelling, Cancellation
  <2> QED BY <1>1, <1>6, <2>1
<1>8. cancelling' \in [Keys -> Cancellation]
  BY <1>1, <1>6, <1>7
<1>9. /\ run' \in [Attempts -> Run]
      /\ \A c \in Attempts :
           /\ run'[c].pc = run[c].pc /\ run'[c].outcome = run[c].outcome
           /\ run'[c].held = run[c].held
           /\ run'[c].tracked => run[c].tracked
           /\ Starting(c) => run'[c].tracked = run[c].tracked
      /\ forgets => \A c \in Attempts :
           JobOf[c] = JobOfKey(k) /\ run[c].pc = "done" /\ ~run[c].held => ~run'[c].tracked
  BY <1>3, ForgetFacts
<1>10. /\ tombstones' \in [Attempts -> Tombstone]
       /\ \A c \in Attempts : tombstones'[c].set = tombstones[c].set
  <2>1. ASSUME k \in Attempts
        PROVE  /\ [tombstones[k] EXCEPT !.stopVerified = TRUE] \in Tombstone
               /\ [tombstones[k] EXCEPT !.stopVerified = TRUE].set = tombstones[k].set
    BY <1>6, <2>1 DEF Tombstone
  <2> QED BY <1>2, <1>6, <2>1
<1>11. ok => told \in SUBSET Attempts /\ \A c \in told : Barred(c)
  BY <1>6 DEF Stops
<1>12. Journals' /\ ClientTypes' /\ Startup'
  <2>1. promised' \in SUBSET Attempts
    BY <1>4, <1>6, <1>11
  <2>2. Drain \in [pc : {"free", "drain", "reject"}, key : Keys \cup {NoAttempt},
                   attempt : Attempts \cup {NoAttempt}]
    BY DEF Drain, Free
  <2> QED BY <1>1, <1>5, <1>8, <1>9, <1>10, <2>1, <2>2
          DEF Moves, ClientTypes, Startup, OutboxTypeOK, outboxVars
<1>13. Slot'
  <2>1. SameSteps
    BY <1>9 DEF SameSteps, Slot
  <2>2. active # NoAttempt => ~Filled(JobOf[active])'
    BY <1>1 DEF Slot, Filled, outboxVars
  <2> QED BY <1>1, <1>5, <2>1, <2>2, SlotKeeps DEF Slot
<1>14. Outbox' /\ Answered' /\ Entombing'
  BY <1>1, <1>5, <1>10, OutboxStays, AnsweredStays DEF Entombing
<1>15. Deferred'
  <2> SUFFICES ASSUME NEW j \in Jobs, deferred'[j] # NoAttempt, NEW d, d = deferred[j]
               PROVE  d \in Attempts /\ Untouched(d) /\ deferred'[j] = d
    BY <1>1, <1>5, DeferredStays
  <2>1. /\ d \in Attempts /\ d # active /\ ~run[d].tracked
        /\ cancelling[d].pc = "idle" /\ deferred'[j] = d
    BY <1>1 DEF ClientTypes, Deferred, Waiting
  <2>2. cancelling'[d].pc = "idle"
    BY <1>7, <2>1, KeysApart DEF NotCancelling
  <2> QED BY <1>1, <1>5, <1>9, <2>1, <2>2 DEF Untouched
<1>16. Rejecting'
  BY <1>1 DEF Rejecting, Drain, Free
<1>17. Stops'
  <2>1. \A c \in Attempts : Barred(c)' <=> Barred(c)
    BY <1>5, <1>9 DEF Barred, Working
  <2>2. \A c \in promised' : Barred(c)'
    <3> HIDE DEF told, ok
    <3> QED BY <1>4, <1>6, <1>11, <2>1 DEF Stops
  <2>3. ASSUME NEW l \in Keys, l # k, NEW b, b = cancelling[l].target
        PROVE  /\ cancelling[l].pc = "wait" =>
                    /\ b \in Attempts /\ JobOf[b] = JobOfKey(l)
                    /\ rec'[b].cancelRequested
                    /\ l \in Attempts => b = l
               /\ cancelling[l].pc = "stopped" =>
                    /\ b # NoAttempt => Barred(b)' /\ (l \in Attempts => b = l)
                    /\ l \in Attempts => Barred(l)'
    <3>1. b \in Attempts \cup {NoAttempt}
      BY <2>3 DEF ClientTypes, Cancellation
    <3> QED BY <1>5, <2>1, <2>3, <3>1 DEF Stops
  <2> QED BY <1>7, <2>2, <2>3 DEF Stops, NotCancelling, Barred, Working
<1>18. Awaited'
  <2> SUFFICES ASSUME ~fault', NEW c \in Attempts,
                      run'[c].tracked, ~run'[c].held, run'[c].pc = "done"
               PROVE  \/ Filled(JobOf[c])
                      \/ \E l \in Keys : /\ cancelling'[l].pc = "stopped"
                                         /\ cancelling'[l].target = c
                                         /\ JobOfKey(l) = JobOf[c]
    BY <1>1 DEF Awaited, Filled, outboxVars
  <2>1. run[c].tracked /\ ~run[c].held /\ run[c].pc = "done"
    BY <1>9
  <2>2. CASE Filled(JobOf[c])
    BY <2>2
  <2>3. CASE \E l \in Keys : /\ cancelling[l].pc = "stopped" /\ cancelling[l].target = c
                             /\ JobOfKey(l) = JobOf[c]
    <3>1. PICK l \in Keys : /\ cancelling[l].pc = "stopped" /\ cancelling[l].target = c
                            /\ JobOfKey(l) = JobOf[c]
      BY <2>3
    <3>2. CASE l # k
      BY <1>7, <3>1, <3>2
    <3>3. CASE l = k
      <4>1. ok /\ a = c /\ JobOfKey(k) = JobOf[c] /\ c # NoAttempt
        BY <3>1, <3>3, KeysApart
      <4>2. k \in Attempts => matching /\ Tracks(k)
        BY <2>1, <4>1 DEF Stops, Tracks
      <4>3. ~forgets
        BY <1>9, <2>1, <4>1
      <4> QED BY <4>1, <4>2, <4>3 DEF Keys
    <3> QED BY <3>2, <3>3
  <2> QED BY <1>5, <2>1, <2>2, <2>3 DEF Awaited
<1>19. NoMixedJobs => Queued'
  BY <1>1, <1>5, <1>9, QueuedStays DEF outboxVars
<1> QED BY <1>12, <1>13, <1>14, <1>15, <1>16, <1>17, <1>18, <1>19

(***************************************************************************)
(* Crashes and starts.                                                      *)
(***************************************************************************)

\* Nothing works, waits or is cancelled until the client is up: what remains to be
\* shown of a step of a start is what it does to the journal and to the outbox.
LEMMA StartKeeps ==
  ASSUME ClientInv, mode # "up",
         UNCHANGED <<lock, active, deferred, cancelling, coordinator>>,
         \A a \in Attempts :
           /\ Grows(a, rec[a], rec'[a])
           /\ run'[a].pc \in {"idle", "done"}
           /\ run'[a].tracked => run'[a].held /\ (a \in recovered' \/ rec'[a].result # "none")
  PROVE  Slot' /\ Answered' /\ Deferred' /\ Rejecting' /\ Stops' /\ Awaited'
<1> USE DEF ClientInv
<1>1. /\ lock' = Free /\ active' = NoAttempt /\ \A j \in Jobs : deferred'[j] = NoAttempt
      /\ \A k \in Keys : cancelling'[k] = NotCancelling
      /\ answers' = answers /\ promised' = promised
  BY DEF Startup, coordinator
<1>2. Slot'
  BY <1>1 DEF Slot, Starting
<1>3. Answered'
  BY <1>1 DEF Answered, Grows
<1>4. Deferred' /\ Rejecting'
  BY <1>1 DEF Deferred, Rejecting, Free
<1>5. Stops'
  <2>1. \A a \in promised' : Barred(a)'
    BY <1>1 DEF Stops, Barred, Working, Grows, ClientTypes
  <2> QED BY <1>1, <2>1 DEF Stops, NotCancelling
<1>6. Awaited'
  BY DEF Awaited
<1> QED BY <1>2, <1>3, <1>4, <1>5, <1>6

LEMMA TrackFacts ==
  ASSUME ClientTypes, Startup, mode # "up", NEW a \in Attempts, Track(a)
  PROVE  /\ run' \in [Attempts -> Run]
         /\ \A b \in Attempts :
              /\ run'[b].pc \in {"idle", "done"}
              /\ run'[b].tracked => run'[b].held /\ (b = a \/ run[b].tracked)
<1>1. run \in [Attempts -> Run]
  BY DEF ClientTypes
<1> DEFINE n == [run[a] EXCEPT !.pc = "done", !.tracked = TRUE, !.held = TRUE]
<1>2. n \in Run /\ n.pc = "done" /\ n.held
  BY <1>1 DEF Run, WorkSteps
<1>3. run' = run \/ run' = [run EXCEPT ![a] = n]
  BY DEF Track
<1> HIDE DEF n
<1> QED BY <1>1, <1>2, <1>3 DEF Startup

LEMMA InStep ==
  ASSUME Journals, ~fault
  PROVE  disk = rec
BY DEF Journals, JournalInv, InSync

LEMMA CrashKeepsInv ==
  ASSUME ClientInv, Crash
  PROVE  ClientInv'
<1> USE DEF ClientInv
<1>1. /\ mode' = "down" /\ todo' = {} /\ lock' = Free /\ results' = Nothing
      /\ tombstones' = [a \in Attempts |-> NoTombstone] /\ fenced' = FALSE
      /\ deferred' = [j \in Jobs |-> NoAttempt] /\ active' = NoAttempt
      /\ cancelling' = [k \in Keys |-> NotCancelling]
      /\ run' = [a \in Attempts |-> Idle]
      /\ UNCHANGED jvars /\ files' = files /\ answers' = answers /\ promised' = promised
  BY DEF Crash, coordinator
<1>2. Moves /\ rec' = rec /\ disk' = disk
  BY <1>1, StillMoves DEF jvars
<1>3. /\ Empty \in Pending /\ NoTombstone \in Tombstone /\ NotCancelling \in Cancellation
      /\ Idle \in Run
      /\ Free \in [pc : {"free", "drain", "reject"}, key : Keys \cup {NoAttempt},
                   attempt : Attempts \cup {NoAttempt}]
  BY DEF Empty, Pending, NoTombstone, Tombstone, NotCancelling, Cancellation, Idle, Run,
         WorkSteps, Free
<1>4. Journals' /\ ClientTypes'
  BY <1>1, <1>2, <1>3 DEF Moves, ClientTypes, OutboxTypeOK, Nothing
<1>5. \A a \in Attempts : /\ run'[a] = Idle /\ ~run'[a].tracked /\ run'[a].pc = "idle"
                          /\ ~tombstones'[a].set
  BY <1>1 DEF Idle, NoTombstone
<1>6. Startup' /\ Entombing'
  BY <1>1, <1>5 DEF Startup, Entombing
<1>7. Slot' /\ Awaited' /\ Deferred' /\ Rejecting'
  BY <1>1, <1>5 DEF Slot, Starting, Awaited, Deferred, Rejecting, Free
<1>8. Outbox'
  <2>1. \A k \in Keys : results'[k] = Empty
    BY <1>1 DEF Nothing
  <2>2. ASSUME NEW k \in Keys
        PROVE  /\ Placed(k, files[k])
               /\ files[k] # Empty => Explained(files[k])' \/ Inherited(k, files[k])'
    BY <1>1, <1>2 DEF Outbox, Explained, Inherited
  <2> QED BY <1>1, <2>1, <2>2 DEF Outbox, Filled, Placed
<1>9. Answered'
  BY <1>1, <1>2, AnsweredStays
<1>10. Stops'
  <2>1. \A a \in promised' : Barred(a)'
    BY <1>1, <1>2, <1>5 DEF Stops, Barred, Working, ClientTypes
  <2> QED BY <1>1, <2>1 DEF Stops, NotCancelling
<1>11. Queued'
  BY <1>1 DEF Queued
<1> QED BY <1>4, <1>6, <1>7, <1>8, <1>9, <1>10, <1>11

LEMMA RestartKeepsInv ==
  ASSUME ClientInv, Restart
  PROVE  ClientInv'
<1> USE DEF ClientInv
<1>1. /\ mode = "down" /\ mode' = "restoring" /\ todo' = Recorded(disk) /\ Reopen
      /\ UNCHANGED <<lock, active, deferred, cancelling, coordinator>>
      /\ run' = run /\ tombstones' = tombstones /\ fenced' = fenced
      /\ results' = results /\ files' = files /\ answers' = answers /\ promised' = promised
  BY DEF Restart, outboxVars, admission, coordinator
<1>2. rec' = disk /\ disk' = disk /\ recovered' = Recorded(disk) /\ ~fault'
  BY <1>1 DEF Reopen
<1>3. Journals'
  <2>1. JournalInv'
    BY <1>1, ReopenKeepsInv DEF Journals
  <2>2. ASSUME NEW a \in Attempts PROVE Recording(a)'
    <3>1. Recording(a)
      BY DEF Journals
    <3> QED BY <1>2, <3>1 DEF Recording, Recorded, Grows
  <2> QED BY <2>1, <2>2 DEF Journals
<1>4. \A a \in Attempts : Grows(a, rec[a], rec'[a])
  BY <1>2 DEF Journals, Recording
<1>5. results = Nothing /\ (\A a \in Attempts : ~run[a].tracked /\ ~tombstones[a].set)
      /\ \A a \in Attempts : run[a].pc \in {"idle", "done"}
  BY <1>1 DEF Startup
<1>6. ClientTypes'
  BY <1>1 DEF ClientTypes, OutboxTypeOK, Recorded
<1>7. Startup'
  BY <1>1, <1>2, <1>5 DEF Startup, Recorded
<1>8. Slot' /\ Answered' /\ Deferred' /\ Rejecting' /\ Stops' /\ Awaited'
  BY <1>1, <1>4, <1>5, StartKeeps
<1>9. Outbox'
  <2>1. \A k \in Keys : results'[k] = Empty
    BY <1>1, <1>5 DEF Nothing
  <2>2. ASSUME NEW k \in Keys, files[k] # Empty
        PROVE  Explained(files[k])' \/ Inherited(k, files[k])'
    <3>1. files[k].attempt \in Attempts
      BY <2>2 DEF Outbox, Placed
    <3>2. CASE Explained(files[k])
      BY <1>1, <1>4, <3>1, <3>2 DEF Explained, Grows
    <3>3. CASE Inherited(k, files[k])
      BY <1>1, <1>2, <3>3 DEF Inherited
    <3> QED BY <2>2, <3>2, <3>3 DEF Outbox
  <2> QED BY <1>1, <2>1, <2>2 DEF Outbox, Filled, Placed
<1>10. Entombing'
  BY <1>1, <1>5 DEF Entombing
<1>11. Queued'
  BY <1>1 DEF Queued
<1> QED BY <1>3, <1>6, <1>7, <1>8, <1>9, <1>10, <1>11

\* A step of restoreJournal changes one record, which memory and disk have.
LEMMA RestoringKeepsOutbox ==
  ASSUME ClientInv, mode = "restoring", NEW a \in Attempts, Present(rec[a]),
         Moves, Only(a), ~fault', UNCHANGED <<outboxVars, mode>>
  PROVE  Outbox'
<1> USE DEF ClientInv
<1>1. /\ results' = results /\ files' = files /\ results = Nothing /\ disk = rec /\ disk' = rec'
  BY InStep DEF outboxVars, Startup, Moves, Journals, JournalInv, InSync
<1>2. \A k \in Keys : results'[k] = Empty
  BY <1>1 DEF Nothing
<1>3. ASSUME NEW k \in Keys, files[k] # Empty
      PROVE  Explained(files[k])' \/ Inherited(k, files[k])'
  <2>1. files[k].attempt \in Attempts
    BY <1>3 DEF Outbox, Placed
  <2>2. CASE Explained(files[k])
    BY <1>1, <2>1, <2>2, ExplainedStays DEF Explained
  <2>3. CASE Inherited(k, files[k])
    BY <1>1, <2>1, <2>3 DEF Inherited, Only
  <2> QED BY <1>3, <2>2, <2>3 DEF Outbox
<1> QED BY <1>1, <1>2, <1>3 DEF Outbox, Filled, Placed

LEMMA RestoreRecordKeepsInv ==
  ASSUME ClientInv, NEW a \in Attempts, RestoreRecord(a)
  PROVE  ClientInv'
<1> USE DEF ClientInv
<1> DEFINE r == rec[a]
           replaced == \/ r.result = "none"
                       \/ r.runtime = "workspace" /\ ~r.accepted /\ r.result = "success"
<1>1. /\ mode = "restoring" /\ mode' = mode /\ a \in todo /\ todo' = todo \ {a}
      /\ UNCHANGED <<lock, active, deferred, cancelling, coordinator>>
      /\ UNCHANGED <<outboxVars, mode>>
      /\ tombstones' = tombstones /\ fenced' = fenced
  <2> HIDE DEF ClientInv
  <2> QED BY DEF RestoreRecord, admission
<1>2. /\ ~fault /\ Present(rec[a]) /\ a \in recovered /\ results = Nothing
      /\ \A b \in Attempts : ~tombstones[b].set
  BY <1>1 DEF Startup, Recorded
<1>3. \/ UNCHANGED jvars
      \/ RecoverUnstarted(a, TRUE)
      \/ Complete(a, IF replaced THEN "failure" ELSE r.result, TRUE, TRUE)
      \/ \E blocked \in BOOLEAN : BlockReplay(a, blocked, TRUE)
  <2> HIDE DEF ClientInv
  <2> QED BY DEF RestoreRecord
<1>4. Track(a) \/ run' = run
  <2> HIDE DEF ClientInv
  <2> QED BY DEF RestoreRecord
<1>5. Moves /\ Only(a) /\ ~fault'
  <2>1. CASE UNCHANGED jvars
    BY <1>2, <2>1, StillMoves DEF Only
  <2>2. CASE RecoverUnstarted(a, TRUE)
    BY <2>2, RecoverMoves
  <2>3. CASE Complete(a, IF replaced THEN "failure" ELSE r.result, TRUE, TRUE)
    <3> DEFINE result == IF replaced THEN "failure" ELSE r.result
    <3>1. /\ rec[a].result \in Results \cup {"none"}
          /\ rec[a].runtime = "workspace" => RuntimeOf[a] = "workspace"
      BY RecordFacts DEF Record, Runtimes
    <3>2. /\ result \in Results \cup {"none"}
          /\ \/ result = "none" \/ result = rec[a].result
             \/ rec[a].result = "none" \/ RuntimeOf[a] = "workspace"
      BY <3>1 DEF Results
    <3>3. Complete(a, result, TRUE, TRUE)
      BY <2>3
    <3> HIDE DEF result
    <3> QED BY <3>2, <3>3, CompleteMoves
  <2>4. CASE \E blocked \in BOOLEAN : BlockReplay(a, blocked, TRUE)
    BY <2>4, BlockMoves
  <2> QED BY <1>3, <2>1, <2>2, <2>3, <2>4
<1> HIDE DEF r, replaced
<1>6. /\ run' \in [Attempts -> Run]
      /\ \A b \in Attempts :
           /\ run'[b].pc \in {"idle", "done"}
           /\ run'[b].tracked => run'[b].held /\ (b = a \/ run[b].tracked)
  <2>1. CASE Track(a)
    BY <1>1, <2>1, TrackFacts
  <2>2. CASE run' = run
    BY <1>1, <2>2 DEF ClientTypes, Startup
  <2> QED BY <1>4, <2>1, <2>2
<1>7. \A b \in Attempts : Grows(b, rec[b], rec'[b])
  BY <1>5 DEF Moves
<1>8. ASSUME NEW b \in Attempts, run'[b].tracked
      PROVE  b \in recovered' \/ rec'[b].result # "none"
  <2>1. recovered' = recovered
    BY <1>5 DEF Moves
  <2>2. b = a \/ run[b].tracked
    BY <1>6, <1>8
  <2>3. run[b].tracked => b \in recovered \/ rec[b].result # "none"
    BY <1>1, <1>2 DEF Slot, Starting, Startup
  <2> QED BY <1>2, <1>7, <2>1, <2>2, <2>3 DEF Grows
<1>9. Slot' /\ Answered' /\ Deferred' /\ Rejecting' /\ Stops' /\ Awaited'
  BY <1>1, <1>6, <1>7, <1>8, StartKeeps
<1>10. Outbox'
  BY <1>1, <1>2, <1>5, RestoringKeepsOutbox
<1>11. Journals' /\ ClientTypes'
  BY <1>1, <1>5, <1>6 DEF Moves, ClientTypes, OutboxTypeOK, outboxVars, coordinator
<1>12. Startup'
  <2>1. todo' \subseteq recovered' /\ todo' \subseteq Recorded(rec')
    BY <1>1, <1>5, <1>7 DEF Startup, Recorded, Moves, Grows
  <2> QED BY <1>1, <1>2, <1>5, <1>6, <2>1 DEF Startup, outboxVars
<1>13. Entombing' /\ Queued'
  BY <1>1, <1>2 DEF Entombing, Queued
<1> QED BY <1>9, <1>10, <1>11, <1>12, <1>13

LEMMA RestoreEndsKeepsInv ==
  ASSUME ClientInv, RestoreEnds
  PROVE  ClientInv'
<1> USE DEF ClientInv
<1>1. /\ mode = "restoring" /\ mode' = "adopting" /\ todo = {} /\ todo' = todo
      /\ UNCHANGED <<lock, active, deferred, cancelling, coordinator>> /\ run' = run
      /\ tombstones' = tombstones /\ fenced' = fenced /\ UNCHANGED jvars /\ files' = files
      /\ results' = [k \in Keys |-> IF Filled(k) THEN results[k] ELSE files[k]]
  BY DEF RestoreEnds, LoadPendingResults, admission
<1>2. Moves /\ rec' = rec /\ disk' = disk /\ fault' = fault
  BY <1>1, StillMoves DEF jvars
<1>3. results = Nothing /\ ~fault /\ files \in [Keys -> Pending]
  BY <1>1 DEF Startup, ClientTypes, OutboxTypeOK
<1>4. results' = files
  BY <1>1, <1>3 DEF Filled, Nothing
<1>5. Journals' /\ ClientTypes' /\ Startup'
  BY <1>1, <1>2, <1>3, <1>4 DEF Moves, ClientTypes, Startup, OutboxTypeOK, coordinator
<1>6. Slot' /\ Answered' /\ Deferred' /\ Rejecting' /\ Stops' /\ Awaited'
  <2>1. \A a \in Attempts :
          /\ Grows(a, rec[a], rec'[a])
          /\ run'[a].pc \in {"idle", "done"}
          /\ run'[a].tracked => run'[a].held /\ (a \in recovered' \/ rec'[a].result # "none")
    BY <1>1, <1>2, <1>3 DEF Moves, Startup, Slot, Starting
  <2> QED BY <1>1, <2>1, StartKeeps
<1>7. Outbox'
  <2> SUFFICES ASSUME NEW k \in Keys
               PROVE  /\ Placed(k, files[k])
                      /\ files[k] # Empty => Explained(files[k])' \/ Inherited(k, files[k])'
    BY <1>1, <1>4 DEF Outbox, Filled, Placed
  <2> QED BY <1>1, <1>2 DEF Outbox, Explained, Inherited
<1>8. Entombing' /\ Queued'
  BY <1>1, <1>2, EntombingStays DEF Queued
<1> QED BY <1>5, <1>6, <1>7, <1>8

LEMMA AdoptKeepsInv ==
  ASSUME ClientInv, NEW k \in Keys, Adopt(k)
  PROVE  ClientInv'
<1> USE DEF ClientInv
<1> DEFINE a == results[k].attempt
           result == results[k].result
<1>1. /\ mode = "adopting" /\ mode' = mode /\ Filled(k) /\ ~Present(rec[a])
      /\ RememberLegacyResult(a, result, TRUE) /\ Track(a)
      /\ todo' = todo /\ UNCHANGED <<lock, active, deferred, cancelling, coordinator>>
      /\ tombstones' = tombstones /\ fenced' = fenced
      /\ results' = results /\ files' = files
  BY DEF Adopt, outboxVars, control, admission
<1>2. /\ a \in Attempts /\ result \in Results /\ results = files /\ ~fault
      /\ \A b \in Attempts : run[b].tracked => run[b].held
  BY <1>1 DEF Outbox, Placed, Filled, Startup
<1>3. rec[a].result = "none"
  BY <1>1, <1>2, RecordFacts DEF NoRecord
<1>4. k = JobOf[a]
  BY <1>1, <1>3 DEF Outbox, Explained, Inherited
<1> HIDE DEF a, result
<1>5. Moves /\ Only(a) /\ ~fault' /\ Present(rec'[a]) /\ rec'[a].result = result
  BY <1>1, <1>2, LegacyMoves
<1>6. disk = rec /\ disk' = rec'
  BY <1>2, <1>5, InStep DEF Moves, Journals, JournalInv, InSync
<1>7. /\ run' \in [Attempts -> Run]
      /\ \A b \in Attempts :
           /\ run'[b].pc \in {"idle", "done"}
           /\ run'[b].tracked => run'[b].held /\ (b = a \/ run[b].tracked)
  BY <1>1, <1>2, TrackFacts
<1>8. \A b \in Attempts : Grows(b, rec[b], rec'[b])
  BY <1>5 DEF Moves
<1>9. ASSUME NEW b \in Attempts, run'[b].tracked
      PROVE  b \in recovered' \/ rec'[b].result # "none"
  <2>1. recovered' = recovered
    BY <1>5 DEF Moves
  <2>2. run[b].tracked => b \in recovered \/ rec[b].result # "none"
    BY <1>1, <1>2 DEF Slot, Starting, Startup
  <2>3. result # "none"
    BY <1>2 DEF Results
  <2> QED BY <1>5, <1>7, <1>8, <1>9, <2>1, <2>2, <2>3 DEF Grows
<1>10. Slot' /\ Answered' /\ Deferred' /\ Rejecting' /\ Stops' /\ Awaited'
  BY <1>1, <1>7, <1>8, <1>9, StartKeeps
<1>11. Outbox'
  <2>1. ASSUME NEW l \in Keys, NEW p, p = results[l], p # Empty
        PROVE  Explained(p)' \/ Inherited(l, p)'
    <3>1. p.attempt \in Attempts
      BY <2>1 DEF Outbox, Placed
    <3>2. CASE Explained(p)
      BY <3>1, <3>2, <1>5, ExplainedStays DEF Explained
    <3>3. CASE Inherited(l, p) /\ p.attempt # a
      BY <1>5, <1>6, <3>1, <3>3 DEF Inherited, Only
    <3>4. CASE Inherited(l, p) /\ p.attempt = a
      <4>1. p.result = result
        BY <1>4, <2>1, <3>4 DEF Inherited, result
      <4>2. result # "none"
        BY <1>2 DEF Results
      <4> QED BY <1>5, <3>4, <4>1, <4>2 DEF Explained
    <3> QED BY <1>1, <2>1, <3>2, <3>3, <3>4 DEF Outbox, Filled
  <2>2. \A l \in Keys : Placed(l, results[l])
    BY DEF Outbox
  <2> QED BY <1>1, <1>2, <2>1, <2>2 DEF Outbox, Filled, Placed
<1>12. Journals' /\ ClientTypes' /\ Startup'
  BY <1>1, <1>2, <1>5, <1>7 DEF Moves, ClientTypes, Startup, OutboxTypeOK, coordinator
<1>13. Entombing' /\ Queued'
  BY <1>1, <1>5, EntombingStays DEF Queued
<1> QED BY <1>10, <1>11, <1>12, <1>13

LEMMA AdoptionEndsKeepsInv ==
  ASSUME ClientInv, AdoptionEnds
  PROVE  ClientInv'
<1> USE DEF ClientInv
<1>1. /\ mode = "adopting" /\ mode' = "loading" /\ todo' = Recorded(rec)
      /\ \A k \in Keys : Filled(k) => Present(rec[results[k].attempt])
      /\ UNCHANGED <<lock, active, deferred, cancelling, coordinator>> /\ run' = run
      /\ tombstones' = tombstones /\ fenced' = fenced /\ UNCHANGED jvars
      /\ results' = results /\ files' = files
  BY DEF AdoptionEnds, outboxVars, admission
<1>2. Moves /\ rec' = rec /\ fault' = fault
  BY <1>1, StillMoves
<1>3. results = files /\ ~fault /\ disk = rec
  BY <1>1, InStep DEF Startup
<1>4. Journals' /\ ClientTypes' /\ Startup'
  BY <1>1, <1>2, <1>3 DEF Moves, ClientTypes, Startup, OutboxTypeOK, coordinator, Recorded
<1>5. Slot' /\ Answered' /\ Deferred' /\ Rejecting' /\ Stops' /\ Awaited'
  <2>1. \A a \in Attempts :
          /\ Grows(a, rec[a], rec'[a])
          /\ run'[a].pc \in {"idle", "done"}
          /\ run'[a].tracked => run'[a].held /\ (a \in recovered' \/ rec'[a].result # "none")
    BY <1>1, <1>2, <1>3 DEF Moves, Startup, Slot, Starting
  <2> QED BY <1>1, <2>1, StartKeeps
<1>6. Outbox'
  <2> SUFFICES ASSUME NEW k \in Keys
               PROVE  /\ Placed(k, results[k])
                      /\ results[k] # Empty => Explained(results[k])'
    BY <1>1, <1>3 DEF Outbox, Filled, Placed
  <2> QED BY <1>1, <1>2, <1>3 DEF Outbox, Explained, Inherited, Filled
<1>7. Entombing' /\ Queued'
  <2>1. \A a \in Attempts : rec[a].result # "none" => Present(rec[a])
    BY RecordFacts DEF NoRecord
  <2> QED BY <1>1, <1>2, <2>1, EntombingStays DEF Queued, Recorded
<1> QED BY <1>4, <1>5, <1>6, <1>7

\* One record is read: its attempt's places are given up, but for the one it keeps.
LEMMA RecoverKeepsOutbox ==
  ASSUME ClientInv, NEW a \in Attempts, Recover(a), UNCHANGED rec,
         mode = "loading", mode' = "loading"
  PROVE  /\ OutboxTypeOK' /\ Outbox'
         /\ NoMixedJobs =>
              \A c \in Attempts :
                /\ rec[c].result # "none" /\ ~rec[c].accepted
                /\ c = a \/ \E k \in Keys : results[k].attempt = c
                => \E k \in Keys : results'[k].attempt = c
<1> USE DEF ClientInv
<1> DEFINE r == rec[a]
           mine == {k \in Keys : results[k].attempt = a}
           lessR == [k \in Keys |-> IF k \in mine THEN Empty ELSE results[k]]
           lessF == [k \in Keys |-> IF k \in mine THEN Empty ELSE files[k]]
           taken == results[JobOf[a]].attempt \notin {NoAttempt, a}
           key == IF taken THEN a ELSE JobOf[a]
           pending == [attempt |-> a, result |-> r.result]
<1>1. \/ UNCHANGED outboxVars /\ r.result = "none"
      \/ results' = lessR /\ files' = lessF /\ r.accepted
      \/ /\ r.result # "none" /\ ~r.accepted /\ taken /\ ~HasToken(a)
         /\ results' = lessR /\ files' = files
      \/ /\ r.result # "none" /\ ~r.accepted /\ ~(taken /\ ~HasToken(a))
         /\ results' = [lessR EXCEPT ![key] = pending]
         /\ files' \in {files, [files EXCEPT ![key] = pending]}
  <2> HIDE DEF ClientInv
  <2> QED BY DEF Recover, outboxVars, Persist
<1>2. /\ results \in [Keys -> Pending] /\ files \in [Keys -> Pending] /\ Empty \in Pending
      /\ r.result \in Results \cup {"none"} /\ pending \in Pending
      /\ key \in Keys /\ a # NoAttempt /\ JobOf[a] \in Jobs /\ JobOf[a] \in Keys
  BY RecordFacts, KeysApart DEF ClientTypes, OutboxTypeOK, Empty, Pending, Record
<1>3. \A k \in Keys : /\ Placed(k, results[k]) /\ Placed(k, files[k]) /\ Placed(k, Empty)
                      /\ results[k] # Empty => Explained(results[k])
                      /\ files[k] # Empty => Explained(files[k])
                      /\ k \in Jobs /\ files[k] # Empty => results[k].attempt = files[k].attempt
  BY DEF Outbox, Filled, Placed
<1>4. \A k \in mine : k = JobOf[a] \/ k = a
  BY <1>2, <1>3 DEF Placed, Empty
<1>5. \A k \in mine : k \in Jobs => k = JobOf[a] /\ ~taken
  BY <1>4, KeysApart
<1>6. r.result # "none" /\ ~(taken /\ ~HasToken(a)) =>
        /\ Placed(key, pending) /\ Explained(pending)
  <2>1. pending.attempt = a /\ pending.result = r.result
    OBVIOUS
  <2> QED BY <1>2, <2>1 DEF Placed, Explained
<1>7. \A p : Explained(p)' <=> Explained(p)
  BY DEF Explained
<1>8. CASE UNCHANGED outboxVars /\ r.result = "none"
  <2>1. results' = results /\ files' = files
    BY <1>8 DEF outboxVars
  <2>2. OutboxTypeOK'
    BY <1>2, <2>1 DEF OutboxTypeOK
  <2>3. Outbox'
    BY <1>3, <2>1 DEF Outbox, Filled, Explained
  <2> QED BY <1>8, <2>1, <2>2, <2>3
<1>9. CASE results' = lessR /\ files' = lessF /\ r.accepted
  <2>1. OutboxTypeOK'
    BY <1>2, <1>9 DEF OutboxTypeOK
  <2>2. ASSUME NEW k \in Keys
        PROVE  /\ results'[k] \in {results[k], Empty} /\ files'[k] \in {files[k], Empty}
               /\ files'[k] # Empty => results'[k] = results[k] /\ files'[k] = files[k]
               /\ results[k].attempt # a => results'[k] = results[k]
    BY <1>9
  <2>3. Outbox'
    BY <1>3, <2>2 DEF Outbox, Filled, Explained
  <2>4. ASSUME NEW c \in Attempts, rec[c].result # "none", ~rec[c].accepted,
               \E k \in Keys : results[k].attempt = c
        PROVE  \E k \in Keys : results'[k].attempt = c
    BY <1>9, <2>2, <2>4
  <2> QED BY <1>9, <2>1, <2>3, <2>4
<1>10. CASE /\ r.result # "none" /\ ~r.accepted /\ taken /\ ~HasToken(a)
            /\ results' = lessR /\ files' = files
  <2>1. OutboxTypeOK'
    BY <1>2, <1>10 DEF OutboxTypeOK
  <2>2. ASSUME NEW k \in Keys
        PROVE  /\ results'[k] \in {results[k], Empty} /\ files'[k] = files[k]
               /\ k \in Jobs => results'[k] = results[k]
    BY <1>5, <1>10
  <2>3. Outbox'
    BY <1>3, <2>2 DEF Outbox, Filled, Explained
  <2>4. ~NoMixedJobs
    <3> DEFINE b == results[JobOf[a]].attempt
    <3>1. b \in Attempts /\ b # a /\ JobOf[b] = JobOf[a]
      BY <1>2, <1>3, <1>10, KeysApart DEF Placed, Empty
    <3> HIDE DEF b
    <3> QED BY <1>10, <3>1, OutboxAssumption DEF NoMixedJobs, HasToken
  <2> QED BY <2>1, <2>3, <2>4
<1>11. CASE /\ r.result # "none" /\ ~r.accepted /\ ~(taken /\ ~HasToken(a))
            /\ results' = [lessR EXCEPT ![key] = pending]
            /\ files' \in {files, [files EXCEPT ![key] = pending]}
  <2>1. Placed(key, pending) /\ Explained(pending) /\ pending.attempt = a
    BY <1>6, <1>11
  <2>2. taken => results[a].attempt \in {NoAttempt, a}
    BY <1>2, <1>3, KeysApart DEF Placed, Empty
  <2>3. results[key].attempt \in {NoAttempt, a}
    BY <2>2
  <2>4. \A k \in mine : k \in Jobs => k = key
    BY <1>5
  <2>5. key \in Jobs /\ files[key] # Empty => results[key].attempt = a /\ files[key].attempt = a
    BY <1>2, <1>3, <2>3, KeysApart DEF Placed
  <2> HIDE DEF key, taken, pending
  <2>6. OutboxTypeOK'
    BY <1>2, <1>11 DEF OutboxTypeOK
  <2>7. /\ results'[key] = pending /\ files'[key] \in {files[key], pending}
        /\ \A k \in Keys : k # key => /\ files'[k] = files[k]
                                     /\ results'[k] = IF k \in mine THEN Empty ELSE results[k]
    BY <1>2, <1>11
  <2>8. Outbox'
    <3> SUFFICES ASSUME NEW k \in Keys
                 PROVE  /\ Placed(k, results'[k]) /\ Placed(k, files'[k])
                        /\ results'[k] # Empty => Explained(results'[k])
                        /\ files'[k] # Empty => Explained(files'[k])
                        /\ k \in Jobs /\ files'[k] # Empty =>
                             results'[k].attempt = files'[k].attempt
      BY DEF Outbox, Filled, Explained
    <3>1. CASE k = key
      BY <1>3, <2>1, <2>5, <2>7, <3>1
    <3>2. CASE k # key
      BY <1>3, <2>4, <2>7, <3>2
    <3> QED BY <3>1, <3>2
  <2>9. ASSUME NEW c \in Attempts, c = a \/ \E k \in Keys : results[k].attempt = c
        PROVE  \E k \in Keys : results'[k].attempt = c
    <3>1. CASE c = a
      BY <1>2, <2>1, <2>7, <3>1
    <3>2. CASE c # a
      <4>1. PICK k \in Keys : results[k].attempt = c
        BY <2>9, <3>2
      <4>2. k # key /\ k \notin mine
        BY <2>3, <3>2, <4>1, KeysApart
      <4> QED BY <2>7, <4>1, <4>2
    <3> QED BY <3>1, <3>2
  <2> QED BY <2>6, <2>8, <2>9
<1> QED BY <1>1, <1>8, <1>9, <1>10, <1>11

LEMMA LoadRecordKeepsInv ==
  ASSUME ClientInv, NEW a \in Attempts, LoadRecord(a)
  PROVE  ClientInv'
<1> USE DEF ClientInv
<1>1. /\ mode = "loading" /\ mode' = mode /\ todo' = todo \ {a} /\ UNCHANGED jvars
      /\ UNCHANGED <<lock, active, deferred, cancelling, coordinator>> /\ run' = run
      /\ Recover(a)
  BY DEF LoadRecord
<1>2. /\ tombstones' = IF rec[a].cancelRequested /\ Cardinality(Entombed) < MaxTombstones
                         THEN [tombstones EXCEPT ![a] =
                                [set |-> TRUE, knownUnstarted |-> rec[a].knownUnstarted,
                                 stopVerified |-> rec[a].stopVerified]]
                         ELSE tombstones
      /\ fenced' = (fenced \/ (rec[a].cancelRequested
                               /\ Cardinality(Entombed) >= MaxTombstones))
  BY DEF LoadRecord
<1>3. Moves /\ rec' = rec /\ fault' = fault
  BY <1>1, StillMoves
<1>4. ~fault
  BY <1>1 DEF Startup
<1>5. /\ tombstones' \in [Attempts -> Tombstone]
      /\ \A b \in Attempts :
           tombstones'[b].set => tombstones[b].set \/ (b = a /\ rec[a].cancelRequested)
  <2> DEFINE t == [set |-> TRUE, knownUnstarted |-> rec[a].knownUnstarted,
                   stopVerified |-> rec[a].stopVerified]
  <2>1. t \in Tombstone /\ tombstones \in [Attempts -> Tombstone]
    BY RecordFacts DEF Tombstone, Record, ClientTypes
  <2>2. tombstones' \in {tombstones, [tombstones EXCEPT ![a] = t]}
        /\ (~rec[a].cancelRequested => tombstones' = tombstones)
    BY <1>2
  <2> HIDE DEF t
  <2> QED BY <2>1, <2>2
<1>6. fenced' \in BOOLEAN
  BY <1>2 DEF ClientTypes
<1>7. OutboxTypeOK' /\ Outbox'
  <2> HIDE DEF ClientInv
  <2> QED BY <1>1, <1>3, RecoverKeepsOutbox
<1>8. Journals' /\ ClientTypes' /\ Startup'
  BY <1>1, <1>3, <1>4, <1>5, <1>6, <1>7 DEF Moves, ClientTypes, Startup, coordinator
<1>9. Slot' /\ Answered' /\ Deferred' /\ Rejecting' /\ Stops' /\ Awaited'
  <2>1. \A b \in Attempts :
          /\ Grows(b, rec[b], rec'[b])
          /\ run'[b].pc \in {"idle", "done"}
          /\ run'[b].tracked => run'[b].held /\ (b \in recovered' \/ rec'[b].result # "none")
    BY <1>1, <1>3, <1>4 DEF Moves, Startup, Slot, Starting
  <2> QED BY <1>1, <2>1, StartKeeps
<1>10. Entombing'
  BY <1>3, <1>5 DEF Entombing
<1>11. NoMixedJobs => Queued'
  <2> SUFFICES ASSUME NoMixedJobs, NEW c \in Attempts,
                      rec[c].result # "none", ~rec[c].accepted, c \notin todo \/ c = a
               PROVE  \/ \E k \in Keys : results'[k].attempt = c
                      \/ run'[c].pc = "returned"
    BY <1>1, <1>3 DEF Queued
  <2>1. c = a \/ (\E k \in Keys : results[k].attempt = c) \/ run'[c].pc = "returned"
    BY <1>1, <1>4 DEF Queued
  <2>2. c = a \/ (\E k \in Keys : results[k].attempt = c) => \E k \in Keys : results'[k].attempt = c
    <3> HIDE DEF ClientInv
    <3> QED BY <1>1, <1>3, RecoverKeepsOutbox
  <2> QED BY <2>1, <2>2
<1> QED BY <1>7, <1>8, <1>9, <1>10, <1>11

LEMMA LoadingEndsKeepsInv ==
  ASSUME ClientInv, LoadingEnds
  PROVE  ClientInv'
<1> USE DEF ClientInv
<1>1. /\ mode = "loading" /\ mode' = "up" /\ todo = {} /\ todo' = todo
      /\ UNCHANGED <<lock, active, deferred, cancelling, coordinator>> /\ run' = run
      /\ tombstones' = tombstones /\ UNCHANGED jvars /\ results' = results /\ files' = files
      /\ fenced' = (fenced \/ Cardinality(Entombed) >= MaxTombstones)
  BY DEF LoadingEnds, outboxVars
<1>2. Moves /\ rec' = rec /\ fault' = fault
  BY <1>1, StillMoves
<1>3. ~fault
  BY <1>1 DEF Startup
<1>4. Journals' /\ ClientTypes' /\ Startup'
  <2>1. fenced' \in BOOLEAN
    BY <1>1 DEF ClientTypes
  <2> QED BY <1>1, <1>2, <2>1 DEF Moves, ClientTypes, Startup, OutboxTypeOK, coordinator
<1>5. Slot' /\ Answered' /\ Deferred' /\ Rejecting' /\ Stops' /\ Awaited'
  <2>1. \A b \in Attempts :
          /\ Grows(b, rec[b], rec'[b])
          /\ run'[b].pc \in {"idle", "done"}
          /\ run'[b].tracked => run'[b].held /\ (b \in recovered' \/ rec'[b].result # "none")
    BY <1>1, <1>2, <1>3 DEF Moves, Startup, Slot, Starting
  <2> QED BY <1>1, <2>1, StartKeeps
<1>6. Outbox' /\ Entombing' /\ (NoMixedJobs => Queued')
  BY <1>1, <1>2, EntombingStays DEF Outbox, Filled, Explained, Queued
<1> QED BY <1>4, <1>5, <1>6

(***************************************************************************)
(* The induction.                                                           *)
(***************************************************************************)

LEMMA ClientStarts == Init => ClientInv
<1> SUFFICES ASSUME Init PROVE ClientInv
  OBVIOUS
<1>1. JournalInit /\ mode = "down" /\ todo = {} /\ lock = Free /\ results = Nothing
  BY DEF Init
<1>2. PICK legacy \in SUBSET LegacyOutbox :
        files = [k \in Keys |->
          IF \E a \in legacy : JobOf[a] = k
            THEN [attempt |-> CHOOSE a \in legacy : JobOf[a] = k, result |-> "success"]
            ELSE Empty]
  BY DEF Init
<1>3. /\ tombstones = [a \in Attempts |-> NoTombstone] /\ fenced = FALSE
      /\ deferred = [j \in Jobs |-> NoAttempt] /\ active = NoAttempt
      /\ cancelling = [k \in Keys |-> NotCancelling] /\ run = [a \in Attempts |-> Idle]
      /\ answers = [a \in Attempts |-> {}] /\ promised = {}
  BY DEF Init
<1>4. /\ rec = [a \in Attempts |-> NoRecord] /\ disk = [a \in Attempts |-> NoRecord]
      /\ recovered = {}
  BY <1>1 DEF JournalInit
<1>5. Journals
  <2>1. JournalInv
    BY <1>1, InitInv
  <2>2. \A a \in Attempts : Recording(a)
    BY <1>4 DEF Recording, Grows, NoRecord, Present
  <2> QED BY <2>1, <2>2 DEF Journals
<1>6. /\ Empty \in Pending /\ NoTombstone \in Tombstone /\ NotCancelling \in Cancellation
      /\ Idle \in Run
      /\ Free \in [pc : {"free", "drain", "reject"}, key : Keys \cup {NoAttempt},
                   attempt : Attempts \cup {NoAttempt}]
  BY DEF Empty, Pending, NoTombstone, Tombstone, NotCancelling, Cancellation, Idle, Run,
         WorkSteps, Free
<1>7. \A k \in Keys :
        \/ files[k] = Empty
        \/ \E a \in Attempts : JobOf[a] = k /\ files[k] = [attempt |-> a, result |-> "success"]
  <2> SUFFICES ASSUME NEW k \in Keys, \E a \in legacy : JobOf[a] = k
               PROVE  \E a \in Attempts : /\ JobOf[a] = k
                                          /\ files[k] = [attempt |-> a, result |-> "success"]
    BY <1>2
  <2> DEFINE a == CHOOSE a \in legacy : JobOf[a] = k
  <2>1. a \in legacy /\ JobOf[a] = k /\ files[k] = [attempt |-> a, result |-> "success"]
    BY <1>2
  <2> QED BY <2>1, ClientAssumption
<1>8. files \in [Keys -> Pending]
  <2>1. ASSUME NEW k \in Keys PROVE files[k] \in Pending
    <3>1. ASSUME NEW a \in Attempts PROVE [attempt |-> a, result |-> "success"] \in Pending
      BY DEF Pending, Results
    <3> QED BY <1>6, <1>7, <3>1
  <2> QED BY <1>2, <2>1
<1>9. ClientTypes
  BY <1>1, <1>3, <1>6, <1>8 DEF ClientTypes, OutboxTypeOK, Nothing
<1>10. \A a \in Attempts : /\ run[a] = Idle /\ ~run[a].tracked /\ run[a].pc = "idle"
                           /\ ~tombstones[a].set /\ answers[a] = {}
  BY <1>3 DEF Idle, NoTombstone
<1>11. Startup /\ Slot /\ Answered /\ Entombing /\ Awaited
  BY <1>1, <1>3, <1>10 DEF Startup, Slot, Starting, Answered, Entombing, Awaited
<1>12. Outbox
  <2>1. ASSUME NEW k \in Keys
        PROVE  /\ Placed(k, files[k])
               /\ files[k] # Empty => Inherited(k, files[k])
    <3>1. CASE files[k] = Empty
      BY <3>1 DEF Placed
    <3>2. CASE files[k] # Empty
      <4>1. PICK a \in Attempts : /\ JobOf[a] = k
                                  /\ files[k] = [attempt |-> a, result |-> "success"]
        BY <1>7, <3>2
      <4>2. files[k].attempt = a /\ files[k].result \in Results
        BY <4>1 DEF Results
      <4>3. ~Present(disk[a])
        BY <1>4 DEF Present, NoRecord
      <4> QED BY <4>1, <4>2, <4>3 DEF Placed, Inherited
    <3> QED BY <3>1, <3>2
  <2>2. \A k \in Keys : results[k] = Empty
    BY <1>1 DEF Nothing
  <2> QED BY <1>1, <2>1, <2>2 DEF Outbox, Filled, Placed
<1>13. Deferred /\ Rejecting /\ Stops /\ Queued
  BY <1>1, <1>3 DEF Deferred, Rejecting, Free, Stops, NotCancelling, Queued
<1> QED BY <1>5, <1>9, <1>11, <1>12, <1>13 DEF ClientInv

LEMMA ClientStutters == ASSUME ClientInv, UNCHANGED vars PROVE ClientInv'
<1>1. /\ UNCHANGED jvars /\ results' = results /\ files' = files
      /\ mode' = mode /\ todo' = todo /\ lock' = lock /\ tombstones' = tombstones
      /\ fenced' = fenced /\ deferred' = deferred /\ active' = active
      /\ cancelling' = cancelling /\ run' = run /\ answers' = answers /\ promised' = promised
  BY DEF vars, outboxVars, control, admission, coordinator
<1>2. Journals' /\ rec' = rec /\ disk' = disk /\ recovered' = recovered /\ fault' = fault
  BY <1>1, StillMoves DEF ClientInv, Moves, jvars
<1>3. ClientTypes' /\ Startup' /\ Slot'
  BY <1>1, <1>2
     DEF ClientInv, ClientTypes, OutboxTypeOK, Startup, Slot, Starting, Filled, Recorded
<1>4. Outbox' /\ Answered' /\ Entombing'
  BY <1>1, <1>2 DEF ClientInv, Outbox, Explained, Inherited, Filled, Answered, Entombing
<1>5. Deferred' /\ Rejecting' /\ Stops' /\ Awaited' /\ (NoMixedJobs => Queued')
  BY <1>1, <1>2
     DEF ClientInv, Deferred, Waiting, Rejecting, Stops, Barred, Working, Awaited, Filled, Queued
<1> QED BY <1>2, <1>3, <1>4, <1>5 DEF ClientInv

LEMMA ClientSteps == ClientInv /\ [Next]_vars => ClientInv'
<1> SUFFICES ASSUME ClientInv, [Next]_vars PROVE ClientInv'
  OBVIOUS
<1>1. ASSUME NEW a \in Attempts, Dispatch(a) PROVE ClientInv'
  BY <1>1, RejectedKeepsInv, DispatchRetryKeepsInv, DispatchNewKeepsInv DEF Dispatch
<1>2. ASSUME NEW a \in Attempts, CancelAttempt(a) PROVE ClientInv'
  BY <1>2, CancelAttemptKeepsInv
<1>3. ASSUME NEW a \in Attempts, AcknowledgeResult(a) PROVE ClientInv'
  BY <1>3, AcknowledgeResultKeepsInv
<1>4. ASSUME NEW a \in Attempts, RunExecution(a) PROVE ClientInv'
  BY <1>4, RunExecutionKeepsInv
<1>5. ASSUME NEW a \in Attempts, JobEnds(a) PROVE ClientInv'
  BY <1>5, JobEndsKeepsInv
<1>6. ASSUME NEW j \in Jobs, CancelJob(j) PROVE ClientInv'
  BY <1>6, CancelJobKeepsInv
<1>7. ASSUME NEW k \in Keys, CancelStep(k) PROVE ClientInv'
  BY <1>7, CancelAsksKeepsInv, CancelStopsKeepsInv, CancelFailsKeepsInv,
     CancelReturnsKeepsInv DEF CancelStep
<1>8. ASSUME NEW k \in Keys, SendResult(k) PROVE ClientInv'
  BY <1>8, SendResultKeepsInv
<1>9. CASE LockStep
  BY <1>9, DrainOneKeepsInv, DrainEndsKeepsInv, RejectDeferredKeepsInv DEF LockStep
<1>10. CASE Reconnect \/ Crash \/ Restart
  BY <1>10, ReconnectKeepsInv, CrashKeepsInv, RestartKeepsInv
<1>11. CASE StartStep
  BY <1>11, RestoreRecordKeepsInv, LoadRecordKeepsInv, AdoptKeepsInv, RestoreEndsKeepsInv,
     AdoptionEndsKeepsInv, LoadingEndsKeepsInv DEF StartStep
<1>12. CASE UNCHANGED vars
  BY <1>12, ClientStutters
<1> QED BY <1>1, <1>2, <1>3, <1>4, <1>5, <1>6, <1>7, <1>8, <1>9, <1>10, <1>11, <1>12 DEF Next

(***************************************************************************)
(* The theorems.                                                            *)
(***************************************************************************)

\* The inductive invariant: what the journal, the slot of the GPU, the outbox, the queue
\* of deferred retries and the cancellations under way agree on, through every start and
\* every crash.
THEOREM ClientInvariant == Spec => []ClientInv
BY ClientStarts, ClientSteps, PTL DEF Spec

\* Every variable keeps its type, the journal's included.
THEOREM ClientTypeCorrect == Spec => []TypeOK
<1>1. ClientInv => TypeOK
  BY DEF ClientInv, ClientTypes, Journals, JournalInv, TypeOK
<1> QED BY <1>1, ClientInvariant, PTL

\* An attempt of which the coordinator was told that it is stopped never works again,
\* whatever is dispatched, cancelled, retried or recovered afterwards.
THEOREM PromisesAreKept == Spec => []PromisedNeverRuns
<1>1. ClientInv => PromisedNeverRuns
  BY DEF ClientInv, Stops, Barred, PromisedNeverRuns
<1> QED BY <1>1, ClientInvariant, PTL

\* An attempt that was answered does not work, and its answers never contradict each
\* other.
THEOREM AnswersAgree == Spec => []OneAnswer
<1>1. ClientInv => OneAnswer
  <2> SUFFICES ASSUME ClientInv, NEW a \in Attempts
               PROVE  /\ answers[a] # {} => ~Working(a)
                      /\ RuntimeOf[a] # "workspace" => Cardinality(answers[a]) <= 1
    BY DEF OneAnswer
  <2>1. answers[a] # {} => ~Working(a)
    BY DEF ClientInv, Answered, Slot, Starting, Working
  <2>2. ASSUME RuntimeOf[a] # "workspace" PROVE Cardinality(answers[a]) <= 1
    <3>1. answers[a] = {} \/ answers[a] = {rec[a].result}
      BY <2>2 DEF ClientInv, Answered
    <3>2. Cardinality({}) = 0 /\ Cardinality({rec[a].result}) = 1
      BY FS_EmptySet, FS_Singleton
    <3> QED BY <3>1, <3>2
  <2> QED BY <2>1, <2>2
<1> QED BY <1>1, ClientInvariant, PTL

\* A deferred attempt is one the journal would admit: it was admitted by this process,
\* never started, and neither cancelled nor answered since.
THEOREM DeferredCanStart == Spec => []DeferredIsStartable
<1>1. ClientInv => DeferredIsStartable
  BY KeysApart DEF ClientInv, Deferred, DeferredIsStartable, Admissible
<1> QED BY <1>1, ClientInvariant, PTL

\* An execution that is over stays tracked only while somebody will forget it: its job
\* has a result that is not acknowledged, or a cancellation of it is about to return.
THEOREM NothingIsForgotten == Spec => []NoZombie
<1>1. ClientInv => NoZombie
  BY DEF ClientInv, Awaited, NoZombie
<1> QED BY <1>1, ClientInvariant, PTL

\* Every result that is not accepted is queued, or with the goroutine that will queue
\* it, if the attempts of a job all have tokens or none has.  Without that hypothesis a
\* start loses one (module PoolClient is checked for it with a job of both kinds).
THEOREM ResultsAreQueued ==
  ASSUME NoMixedJobs
  PROVE  Spec => []ResultIsQueued
<1>1. ClientInv => ResultIsQueued
  BY DEF ClientInv, Queued, ResultIsQueued
<1> QED BY <1>1, ClientInvariant, PTL
=============================================================================
