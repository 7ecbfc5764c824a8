------------------------------ MODULE Session ------------------------------
(***************************************************************************)
(* The connection of an agent to the pool (internal/pool/client.go): Run,   *)
(* which dials while the machine earns and again after every loss, and in a *)
(* session the reader, the writer, the heartbeats and the watch on the      *)
(* earning window, which meet in a channel of the session, the outbox, the  *)
(* registered channel and two contexts.                                     *)
(*                                                                          *)
(* The frames of the pool that matter here are the answer to the            *)
(* registration and the request to clean up assets, which is answered from  *)
(* a goroutine of its own, or by the reader when one runs.  What the other  *)
(* frames do is in PoolClient, and how results are kept in ResultOutbox.    *)
(***************************************************************************)
EXTENDS Naturals, Sequences

CONSTANTS
  SendCap,  \* room in the channel of the session (16 in the code)
  OutCap,   \* room in the outbox (64 in the code)
  Requests, \* bound: asset cleanups the pool ever asks for
  InboxCap  \* bound: frames received and not read yet

ASSUME SessionAssumption ==
  SendCap \in Nat \ {0} /\ OutCap \in Nat \ {0} /\ Requests \in Nat /\ InboxCap \in Nat \ {0}

VARIABLES
  earning,    \* what earningNow says
  stop,       \* the context of the agent is cancelled
  phase,      \* what Run, or the reader in it, is doing
  watched,    \* the context of the session is cancelled by watchEarning
  cancelled,  \* the context of the connection is cancelled
  conn,       \* none, open, lost (by the network), shut (by a Close)
  inbox,      \* frames received
  registered, \* the registered channel is closed; ready in the code
  connected,  \* the flag shown to the user
  writer,     \* off, select, done, or the kind of frame it is writing
  sendCh, beats, \* frames in the channel of the session; of them, heartbeats
  outbox,     \* frames in the outbox
  cleaner,    \* the goroutine of asset_cleanup, which holds the machine's gate
  requests,   \* cleanups asked for so far
  early       \* history: a result or an outbox frame went out before the answer

vars == <<earning, stop, phase, watched, cancelled, conn, inbox, registered, connected,
          writer, sendCh, beats, outbox, cleaner, requests, early>>
connection == <<watched, cancelled, conn, inbox, registered, connected, writer, sendCh, beats>>
environment == <<earning, stop, requests>>

\* Mutant of ParentDone: the session's context is not derived from the agent's.
Mut_ParentDone == watched
ParentDone == stop \/ watched
CtxDone == cancelled \/ ParentDone
InSession == phase \in {"read", "send", "close"}
Shut == IF conn = "none" THEN "none" ELSE "shut"

(***************************************************************************)
(* Run.                                                                     *)
(***************************************************************************)

\* waitUntilEarning.
WaitUntilEarning ==
  /\ phase = "earn"
  /\ \/ stop /\ phase' = "ended"
     \/ earning /\ phase' = "dial"
  /\ UNCHANGED <<environment, connection, outbox, cleaner, early>>

\* What Run does with the end of a session.
AfterSession ==
  \/ stop /\ phase' = "ended"
  \/ ~stop /\ phase' = IF earning THEN "backoff" ELSE "earn"

\* The dial and the registration, the first frame of the connection.
Dial ==
  /\ phase = "dial" /\ ~ParentDone
  /\ phase' = "read"
  /\ conn' = "open" /\ inbox' = <<>> /\ writer' = "select"
  /\ cancelled' = FALSE
  /\ UNCHANGED <<environment, watched, registered, connected, sendCh, beats, outbox, cleaner,
                 early>>

DialFails ==
  /\ phase = "dial"
  /\ AfterSession /\ watched' = FALSE
  /\ UNCHANGED <<environment, cancelled, conn, inbox, registered, connected, writer, sendCh,
                 beats, outbox, cleaner, early>>

Backoff ==
  /\ phase = "backoff"
  /\ phase' = IF stop THEN "ended" ELSE "earn"
  /\ UNCHANGED <<environment, connection, outbox, cleaner, early>>

\* Mutant of Watching: the schedule is only asked before a connection is made.
Mut_Watching == phase = "dial"
Watching == phase = "dial" \/ InSession

\* watchEarning, and the AfterFunc that closes the connection.
Watch ==
  /\ Watching /\ ~earning /\ ~watched
  /\ watched' = TRUE
  /\ UNCHANGED <<environment, phase, cancelled, conn, inbox, registered, connected, writer,
                 sendCh, beats, outbox, cleaner, early>>

CloseOnCancel ==
  /\ ParentDone /\ conn \in {"open", "lost"}
  /\ conn' = "shut"
  /\ UNCHANGED <<environment, phase, watched, cancelled, inbox, registered, connected, writer,
                 sendCh, beats, outbox, cleaner, early>>

(***************************************************************************)
(* The reader (serveConnection).                                            *)
(***************************************************************************)

\* Mutant of Close: the flag stays up until the next session.
Mut_Close ==
  /\ phase' = "close"
  /\ cancelled' = TRUE /\ conn' = Shut /\ UNCHANGED connected

\* The deferred end of serveConnection, up to the wait for the writer.
Close ==
  /\ phase' = "close"
  /\ connected' = FALSE /\ cancelled' = TRUE /\ conn' = Shut

\* Mutant of Broken: the pool's silence has no deadline.
Mut_Broken == conn = "shut"
Broken == conn \in {"lost", "shut"}

\* The connection is down, or the answer to the registration does not come in
\* time.  Frames that were received are read first.
ReadFails ==
  /\ phase = "read" /\ inbox = <<>>
  /\ Broken \/ ~registered
  /\ Close
  /\ UNCHANGED <<environment, watched, inbox, registered, writer, sendCh, beats, outbox,
                 cleaner, early>>

\* Before the registration is answered only the answer counts.
ReadFirst ==
  /\ phase = "read" /\ inbox # <<>> /\ ~registered
  /\ inbox' = Tail(inbox)
  /\ \/ ParentDone /\ Close /\ UNCHANGED registered
     \/ /\ ~ParentDone
        /\ CASE Head(inbox) = "rejected" -> Close /\ UNCHANGED registered
             [] Head(inbox) = "accepted" ->
                  registered' = TRUE /\ connected' = TRUE /\ UNCHANGED <<phase, conn, cancelled>>
             [] OTHER -> UNCHANGED <<phase, connected, cancelled, conn, registered>>
  /\ UNCHANGED <<environment, watched, writer, sendCh, beats, outbox, cleaner, early>>

\* dispatch of asset_cleanup; other frames change nothing here.
Dispatch ==
  /\ phase = "read" /\ inbox # <<>> /\ registered
  /\ inbox' = Tail(inbox)
  /\ IF Head(inbox) # "cleanup" THEN UNCHANGED <<phase, cleaner>>
     ELSE IF cleaner = "idle" THEN cleaner' = "work" /\ UNCHANGED phase
     ELSE phase' = "send" /\ UNCHANGED cleaner
  /\ UNCHANGED <<environment, watched, cancelled, conn, registered, connected, writer, sendCh,
                 beats, outbox, early>>

\* trySend of "cleanup already running".
TrySend ==
  /\ phase = "send"
  /\ \/ CtxDone /\ UNCHANGED sendCh
     \/ sendCh < SendCap /\ sendCh' = sendCh + 1
  /\ phase' = "read"
  /\ UNCHANGED <<environment, watched, cancelled, conn, inbox, registered, connected, writer,
                 beats, outbox, cleaner, early>>

\* Mutant of Closed: the writer is not waited for.
Mut_Closed ==
  /\ phase = "close" /\ AfterSession
  /\ conn' = "none" /\ inbox' = <<>> /\ watched' = FALSE
  /\ writer' = IF writer = "done" THEN "off" ELSE writer
  /\ registered' = FALSE /\ sendCh' = 0 /\ beats' = 0
  /\ UNCHANGED <<environment, cancelled, connected, outbox, cleaner, early>>

\* The wait for the writer, and what Run does next.
Closed ==
  /\ phase = "close" /\ writer = "done"
  /\ AfterSession
  /\ conn' = "none" /\ writer' = "off" /\ inbox' = <<>> /\ watched' = FALSE
  /\ registered' = FALSE /\ sendCh' = 0 /\ beats' = 0
  /\ UNCHANGED <<environment, cancelled, connected, outbox, cleaner, early>>

(***************************************************************************)
(* The writer, the heartbeats, the cleanup.                                 *)
(***************************************************************************)

\* Mutants of Ready: the writer does not wait for the answer; it forgets the
\* outbox.
Mut_Ready(kind) == TRUE
Mut_ReadyForResults(kind) == registered /\ kind = "results"
Ready(kind) == registered

Taken(kind) ==
  CASE kind = "answer" -> sendCh > beats /\ sendCh' = sendCh - 1 /\ UNCHANGED <<beats, outbox>>
    [] kind = "beat" ->
         beats > 0 /\ sendCh' = sendCh - 1 /\ beats' = beats - 1 /\ UNCHANGED outbox
    [] kind = "outbox" ->
         Ready(kind) /\ outbox > 0 /\ outbox' = outbox - 1 /\ UNCHANGED <<sendCh, beats>>
    [] kind = "results" -> Ready(kind) /\ UNCHANGED <<sendCh, beats, outbox>>
    [] kind = "ping" -> UNCHANGED <<sendCh, beats, outbox>>

WriterTakes(kind) ==
  /\ writer = "select" /\ Taken(kind)
  /\ writer' = kind
  /\ UNCHANGED <<environment, phase, watched, cancelled, conn, inbox, registered, connected,
                 cleaner, early>>

Writing == writer \notin {"off", "select", "done"}
WriterWrites ==
  /\ Writing /\ conn \in {"open", "lost"} /\ (writer = "ping" \/ ~CtxDone)
  /\ writer' = "select"
  /\ early' = (early \/ (writer \in {"outbox", "results"} /\ ~registered))
  /\ UNCHANGED <<environment, phase, watched, cancelled, conn, inbox, registered, connected,
                 sendCh, beats, outbox, cleaner>>

\* Mutant of PutBack: the frame always goes back.
Mut_PutBack(n) == n + 1
PutBack(n) == IF n < OutCap THEN n + 1 ELSE n

\* A write that fails ends the writer, which closes the connection; an outbox
\* frame goes back, if there is room.
WriterExits ==
  /\ Writing \/ (writer = "select" /\ CtxDone)
  /\ outbox' = IF writer = "outbox" THEN PutBack(outbox) ELSE outbox
  /\ writer' = "done" /\ conn' = Shut
  /\ UNCHANGED <<environment, phase, watched, cancelled, inbox, registered, connected, sendCh,
                 beats, cleaner, early>>

\* heartbeatLoop.  A frame is written or fails before the next one is due.
Heartbeat ==
  /\ InSession /\ ~CtxDone /\ sendCh < SendCap /\ beats = 0 /\ writer # "beat"
  /\ sendCh' = sendCh + 1 /\ beats' = 1
  /\ UNCHANGED <<environment, phase, watched, cancelled, conn, inbox, registered, connected,
                 writer, outbox, cleaner, early>>

\* enqueue of the progress of jobs: dropped when there is no room.
Enqueue ==
  /\ outbox < OutCap /\ outbox' = outbox + 1
  /\ UNCHANGED <<environment, connection, phase, cleaner, early>>

CleanupEnds ==
  /\ cleaner = "work" /\ cleaner' = "answer"
  /\ UNCHANGED <<environment, connection, phase, outbox, early>>

CleanupAnswers ==
  /\ cleaner = "answer" /\ cleaner' = "idle"
  /\ \/ stop /\ UNCHANGED outbox
     \/ outbox < OutCap /\ outbox' = outbox + 1
  /\ UNCHANGED <<environment, connection, phase, early>>

(***************************************************************************)
(* The pool, the network, the schedule and the user.                        *)
(***************************************************************************)

PoolSends(frame) ==
  /\ conn = "open" /\ Len(inbox) < InboxCap
  /\ frame = "cleanup" => requests < Requests
  /\ requests' = IF frame = "cleanup" THEN requests + 1 ELSE requests
  /\ inbox' = Append(inbox, frame)
  /\ UNCHANGED <<earning, stop, phase, watched, cancelled, conn, registered, connected, writer,
                 sendCh, beats, outbox, cleaner, early>>

NetworkFails ==
  /\ conn = "open" /\ conn' = "lost"
  /\ UNCHANGED <<environment, phase, watched, cancelled, inbox, registered, connected, writer,
                 sendCh, beats, outbox, cleaner, early>>

ScheduleTurns ==
  /\ earning' = ~earning
  /\ UNCHANGED <<connection, stop, requests, phase, outbox, cleaner, early>>

StopAgent ==
  /\ ~stop /\ stop' = TRUE
  /\ UNCHANGED <<connection, earning, requests, phase, outbox, cleaner, early>>

Init ==
  /\ earning \in BOOLEAN /\ stop = FALSE /\ phase = "earn" /\ watched = FALSE
  /\ cancelled = TRUE /\ conn = "none" /\ inbox = <<>> /\ registered = FALSE
  /\ connected = FALSE /\ writer = "off" /\ sendCh = 0 /\ beats = 0 /\ outbox = 0
  /\ cleaner = "idle" /\ requests = 0 /\ early = FALSE

Frames == {"accepted", "rejected", "cleanup", "other"}
Kinds == {"answer", "beat", "outbox", "results", "ping"}

Reader ==
  WaitUntilEarning \/ Dial \/ DialFails \/ Backoff \/ ReadFails \/ ReadFirst \/ Dispatch
    \/ TrySend \/ Closed
Writer == (\E kind \in Kinds : WriterTakes(kind)) \/ WriterWrites \/ WriterExits
Next ==
  \/ Reader \/ Watch \/ CloseOnCancel \/ Writer \/ Heartbeat
  \/ Enqueue \/ CleanupEnds \/ CleanupAnswers
  \/ \E frame \in Frames : PoolSends(frame)
  \/ NetworkFails \/ ScheduleTurns \/ StopAgent

Spec == Init /\ [][Next]_vars

\* The goroutines run, the timers of dial, write, read, backoff and watch fire,
\* and a select takes in the end a case that is ready again and again.
FairSpec ==
  /\ Spec
  /\ WF_vars(Reader) /\ WF_vars(Closed) /\ SF_vars(TrySend)
  /\ WF_vars(Watch) /\ WF_vars(CloseOnCancel)
  /\ WF_vars(WriterWrites \/ WriterExits) /\ WF_vars(writer = "select" /\ WriterExits)
  /\ \A kind \in Kinds : SF_vars(WriterTakes(kind))
  /\ WF_vars(CleanupEnds) /\ SF_vars(CleanupAnswers)

(***************************************************************************)
(* Properties.                                                              *)
(***************************************************************************)

TypeOK ==
  /\ {earning, stop, watched, cancelled, registered, connected, early} \subseteq BOOLEAN
  /\ phase \in {"earn", "dial", "read", "send", "close", "backoff", "ended"}
  /\ conn \in {"none", "open", "lost", "shut"}
  /\ inbox \in Seq(Frames) /\ Len(inbox) <= InboxCap
  /\ writer \in Kinds \cup {"off", "select", "done"}
  /\ sendCh \in 0 .. SendCap /\ beats \in 0 .. 1 /\ beats <= sendCh
  /\ outbox \in 0 .. OutCap
  /\ cleaner \in {"idle", "work", "answer"}
  /\ requests \in 0 .. Requests

\* registration_test.go:116: the flag is up only in a session whose own
\* registration was accepted, and comes down before Run dials again.
ConnectedMeansRegistered == connected => registered /\ phase \in {"read", "send"}

\* registration_test.go:90: nothing but heartbeats goes out before the pool
\* accepts the registration.
NothingBeforeAck == ~early

\* A writer writes to the connection of its own session: it is gone before the
\* next session, whose outbox it would drain into a closed connection.
WriterOfThisSession == writer # "off" => InSession /\ conn # "none"

\* protocol_test.go:142: after a connection is lost the agent dials again, or is
\* stopped or outside its hours; meanwhile it does not stay in the session.
LossIsNoticed == conn \in {"lost", "shut"} ~> conn = "none"

\* A stop ends Run, wherever it is.
StopEnds == stop ~> phase = "ended"

\* Outside its hours the agent is not connected.
ClosedHoursDisconnect == <>[](~earning) => <>[](conn = "none")

\* On a connection that stays up every cleanup is answered, which lets go of the
\* machine's gate.
CleanupIsAnswered ==
  <>[](conn = "open" /\ registered) => (cleaner = "answer" ~> cleaner = "idle")
=============================================================================
