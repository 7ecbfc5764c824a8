---------------------------- MODULE ResultOutbox ----------------------------
(***************************************************************************)
(* The result outbox of one GPU (internal/pool/result_outbox.go and the     *)
(* part of internal/pool/client.go that fills it at a start), over the      *)
(* execution journal.                                                       *)
(*                                                                          *)
(* A result has one place in memory and one file.  Its place is the one of  *)
(* its job, where a retry waits for it, or one of its own attempt, when the *)
(* job's place may belong to another attempt (attemptResultKey).  Each      *)
(* operator is one critical section under Client.resultsMu.                 *)
(*                                                                          *)
(* Left out: retry delays and batches, which only choose when a result is   *)
(* sent again, and the texts of results.                                    *)
(***************************************************************************)
EXTENDS AttemptJournal

CONSTANTS
  Jobs,         \* job identifiers
  JobOf,        \* the job each attempt belongs to
  Tokenless,    \* attempts dispatched without a token
  NoAttempt,    \* no attempt
  OutboxMayFail \* whether a write or a removal in the outbox directory may fail

\* An attempt is a job and a token, so a job has one attempt without a token.
ASSUME OutboxAssumption ==
  /\ JobOf \in [Attempts -> Jobs]
  /\ Jobs \cap Attempts = {}
  /\ Tokenless \subseteq Attempts
  /\ \A a, b \in Tokenless : JobOf[a] = JobOf[b] => a = b
  /\ NoAttempt \notin Attempts
  /\ OutboxMayFail \in BOOLEAN

VARIABLES
  results, \* Client.results
  files    \* the files of Client.outboxDir

outboxVars == <<results, files>>

Keys == Jobs \cup Attempts
HasToken(a) == a \notin Tokenless

Pending == [attempt : Attempts \cup {NoAttempt}, result : Results \cup {"none"}]
Empty == [attempt |-> NoAttempt, result |-> "none"]
Nothing == [k \in Keys |-> Empty]
Filled(k) == results[k] # Empty

OutboxTypeOK == results \in [Keys -> Pending] /\ files \in [Keys -> Pending]

(***************************************************************************)
(* Queueing.                                                                *)
(***************************************************************************)

\* persistResultAtKey
Persist(k, pending) ==
  \/ files' = [files EXCEPT ![k] = pending]
  \/ OutboxMayFail /\ UNCHANGED files

\* The journal learns of a result first, and withholds it when it is fenced;
\* the place in memory is taken whether or not the file could be written.
Put(k, a, result) ==
  LET pending == [attempt |-> a, result |-> result] IN
  \E ok \in BOOLEAN :
    /\ RememberResult(a, result, ok)
    /\ \/ ok /\ results' = [results EXCEPT ![k] = pending] /\ Persist(k, pending)
       \/ ~ok /\ UNCHANGED outboxVars

Ignore == UNCHANGED <<jvars, outboxVars>>

\* The place of a job is only overwritten between results without tokens.
Occupied(a) ==
  LET b == results[JobOf[a]].attempt IN
  b # NoAttempt /\ (HasToken(b) \/ HasToken(a))

QueueResult(a, result) ==
  IF Occupied(a) THEN Ignore ELSE Put(JobOf[a], a, result)

\* Mutant of QueueAttemptRejection: only the outbox knows of the rejection.
Mut_QueueAttemptRejection(a, result) ==
  LET pending == [attempt |-> a, result |-> result] IN
  IF ~HasToken(a) \/ Filled(a) THEN Ignore
  ELSE /\ results' = [results EXCEPT ![a] = pending]
       /\ files' = [files EXCEPT ![a] = pending]
       /\ UNCHANGED jvars

QueueAttemptRejection(a, result) ==
  IF ~HasToken(a) \/ Filled(a) THEN Ignore ELSE Put(a, a, result)

(***************************************************************************)
(* Sending and acknowledgement.                                             *)
(***************************************************************************)

\* sendPendingResults, for one result: what the journal blocks is passed over,
\* and a file that could not be written is tried again.
SendPending(k) ==
  /\ Filled(k) /\ ~rec[results[k].attempt].replayBlocked
  /\ Persist(k, results[k])
  /\ UNCHANGED <<jvars, results>>

\* Mutant of AckKey: a result is looked for in the place of its job only.
Mut_AckKey(a) == JobOf[a]

\* Where an acknowledgement that names a finds a result: in the place of the
\* attempt, or in the place of the job if it is a's or has no token.
AckKey(a) == IF HasToken(a) /\ Filled(a) THEN a ELSE JobOf[a]

Acknowledged(a) ==
  LET b == results[AckKey(a)].attempt IN
  b # NoAttempt /\ (HasToken(b) => b = a)

\* ackResult: the journal, then the file, then memory; a file that cannot be
\* removed keeps the result.
AckResult(a, accepted) ==
  LET k == AckKey(a) IN
  /\ Acknowledged(a)
  /\ \E ok \in BOOLEAN :
       /\ Accept(results[k].attempt, ok)
       /\ \/ /\ ok /\ accepted
             /\ results' = [results EXCEPT ![k] = Empty]
             /\ files' = [files EXCEPT ![k] = Empty]
          \/ /\ ~ok \/ OutboxMayFail
             /\ ~accepted
             /\ UNCHANGED outboxVars

(***************************************************************************)
(* Reading the directory and the journal.                                   *)
(***************************************************************************)

\* loadPendingResults: memory comes before the directory.
LoadPendingResults ==
  /\ results' = [k \in Keys |-> IF Filled(k) THEN results[k] ELSE files[k]]
  /\ UNCHANGED <<jvars, files>>

\* Mutant of Recover: only what the outbox directory holds is sent again.
Mut_Recover(a) == UNCHANGED outboxVars

\* The loop of clientWithExecutor for one record: an accepted result leaves
\* memory and the directory; any other one is queued anew, in the place of its
\* job if that is free, as a rejection of the attempt if it is not.
Recover(a) ==
  LET r == rec[a]
      mine == {k \in Keys : results[k].attempt = a}
      without(box) == [k \in Keys |-> IF k \in mine THEN Empty ELSE box[k]]
      taken == results[JobOf[a]].attempt \notin {NoAttempt, a}
      key == IF taken THEN a ELSE JobOf[a]
      pending == [attempt |-> a, result |-> r.result]
  IN  \/ r.result = "none" /\ UNCHANGED outboxVars
      \/ /\ r.accepted
         /\ results' = without(results) /\ files' = without(files)
      \/ /\ r.result # "none" /\ ~r.accepted
         /\ IF taken /\ ~HasToken(a)
              THEN results' = without(results) /\ UNCHANGED files
              ELSE /\ results' = [without(results) EXCEPT ![key] = pending]
                   /\ Persist(key, pending)
=============================================================================
