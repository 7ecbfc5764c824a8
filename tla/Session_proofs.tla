--------------------------- MODULE Session_proofs ---------------------------
(***************************************************************************)
(* Proofs about the sessions of an agent, for channels and inboxes of any   *)
(* size: what is written belongs to a connection of this session, and no    *)
(* result leaves before the pool accepts the registration.                  *)
(***************************************************************************)
EXTENDS Session, TLAPS

\* A session has a connection, and a registration a session.
SessionHasConnection == InSession => conn # "none"
RegisteredInSession == registered => InSession

\* A writer has taken a result or a frame of the outbox only when the pool had
\* accepted the registration, and that of this session: Closed waits for it.
TakenAfterAnswer == writer \in {"outbox", "results"} => registered

SessionInv ==
  /\ TypeOK /\ SessionHasConnection /\ RegisteredInSession
  /\ ConnectedMeansRegistered /\ WriterOfThisSession
  /\ TakenAfterAnswer /\ NothingBeforeAck

LEMMA Capacities ==
  /\ SendCap \in Nat /\ SendCap # 0 /\ OutCap \in Nat /\ OutCap # 0
  /\ Requests \in Nat /\ InboxCap \in Nat
BY SessionAssumption

LEMMA NoFrames == 0 \in 0 .. SendCap /\ 0 \in 0 .. OutCap /\ 0 \in 0 .. 1 /\ 0 <= 0
BY Capacities

LEMMA EmptyInbox == <<>> \in Seq(Frames) /\ Len(<<>>) = 0 /\ 0 <= InboxCap
BY Capacities

LEMMA ReadInbox ==
  ASSUME inbox \in Seq(Frames), Len(inbox) <= InboxCap, inbox # <<>>
  PROVE  Tail(inbox) \in Seq(Frames) /\ Len(Tail(inbox)) <= InboxCap
BY Capacities

LEMMA SessionInitially == ASSUME Init PROVE SessionInv
<1>1. TypeOK
  <2>1. inbox \in Seq(Frames) /\ Len(inbox) <= InboxCap
    BY EmptyInbox DEF Init
  <2>2. {earning, stop, watched, cancelled, registered, connected, early} \subseteq BOOLEAN
    BY DEF Init
  <2>3. sendCh \in 0 .. SendCap /\ beats \in 0 .. 1 /\ beats <= sendCh /\ outbox \in 0 .. OutCap
    BY NoFrames DEF Init
  <2>4. /\ phase = "earn" /\ conn = "none" /\ writer = "off" /\ cleaner = "idle"
        /\ requests \in 0 .. Requests
    BY Capacities DEF Init
  <2> QED BY <2>1, <2>2, <2>3, <2>4 DEF TypeOK
<1> QED BY <1>1
        DEF Init, SessionInv, SessionHasConnection, RegisteredInSession, InSession,
            ConnectedMeansRegistered, WriterOfThisSession, TakenAfterAnswer, NothingBeforeAck

\* What is in the buffers and the counters stays within their bounds.
LEMMA SessionStepsAreTyped == ASSUME TypeOK, Next PROVE TypeOK'
<1> USE Capacities DEF TypeOK, connection, environment
<1>1. CASE WaitUntilEarning
  BY <1>1 DEF WaitUntilEarning
<1>2. CASE Dial
  BY <1>2, EmptyInbox DEF Dial
<1>3. CASE DialFails
  BY <1>3 DEF DialFails, AfterSession
<1>4. CASE Backoff
  BY <1>4 DEF Backoff
<1>5. CASE ReadFails
  BY <1>5 DEF ReadFails, Close, Shut
<1>6. CASE ReadFirst
  <2>1. inbox' \in Seq(Frames) /\ Len(inbox') <= InboxCap
    BY <1>6, ReadInbox DEF ReadFirst
  <2>2. /\ phase' \in {"read", "close"} /\ conn' \in {"none", "open", "lost", "shut"}
        /\ {registered', connected', cancelled'} \subseteq BOOLEAN
    BY <1>6 DEF ReadFirst, Close, Shut
  <2>3. UNCHANGED <<environment, watched, writer, sendCh, beats, outbox, cleaner, early>>
    BY <1>6 DEF ReadFirst
  <2> QED BY <2>1, <2>2, <2>3
<1>7. CASE Dispatch
  BY <1>7 DEF Dispatch
<1>8. CASE TrySend
  BY <1>8 DEF TrySend
<1>9. CASE Closed
  <2>1. inbox' \in Seq(Frames) /\ Len(inbox') <= InboxCap
    BY <1>9, EmptyInbox DEF Closed
  <2>2. phase' \in {"ended", "backoff", "earn"}
    BY <1>9 DEF Closed, AfterSession
  <2>3. sendCh' \in 0 .. SendCap /\ beats' \in 0 .. 1 /\ beats' <= sendCh'
    BY <1>9, NoFrames DEF Closed
  <2>4. /\ writer' = "off" /\ conn' = "none" /\ watched' = FALSE /\ registered' = FALSE
        /\ UNCHANGED <<environment, cancelled, connected, outbox, cleaner, early>>
    BY <1>9 DEF Closed
  <2> QED BY <2>1, <2>2, <2>3, <2>4
<1>10. CASE Watch
  BY <1>10 DEF Watch
<1>11. CASE CloseOnCancel
  BY <1>11 DEF CloseOnCancel
<1>12. ASSUME NEW kind \in Kinds, WriterTakes(kind) PROVE TypeOK'
  <2>1. /\ sendCh' \in 0 .. SendCap /\ beats' \in 0 .. 1 /\ beats' <= sendCh'
        /\ outbox' \in 0 .. OutCap
    <3>1. CASE kind = "answer"
      BY <1>12, <3>1 DEF WriterTakes, Taken
    <3>2. CASE kind = "beat"
      BY <1>12, <3>2 DEF WriterTakes, Taken
    <3>3. CASE kind = "outbox"
      BY <1>12, <3>3 DEF WriterTakes, Taken
    <3>4. CASE kind \in {"results", "ping"}
      BY <1>12, <3>4 DEF WriterTakes, Taken
    <3> QED BY <3>1, <3>2, <3>3, <3>4 DEF Kinds
  <2>2. /\ writer' = kind
        /\ UNCHANGED <<environment, phase, watched, cancelled, conn, inbox, registered, connected,
                       cleaner, early>>
    BY <1>12 DEF WriterTakes
  <2> QED BY <2>1, <2>2
<1>13. CASE WriterWrites
  BY <1>13 DEF WriterWrites, Writing
<1>14. CASE WriterExits
  BY <1>14 DEF WriterExits, PutBack, Shut
<1>15. CASE Heartbeat
  BY <1>15 DEF Heartbeat
<1>16. CASE Enqueue
  BY <1>16 DEF Enqueue
<1>17. CASE CleanupEnds \/ CleanupAnswers
  BY <1>17 DEF CleanupEnds, CleanupAnswers
<1>18. ASSUME NEW frame \in Frames, PoolSends(frame) PROVE TypeOK'
  BY <1>18 DEF PoolSends
<1>19. CASE NetworkFails \/ ScheduleTurns \/ StopAgent
  BY <1>19 DEF NetworkFails, ScheduleTurns, StopAgent
<1> QED BY <1>1, <1>2, <1>3, <1>4, <1>5, <1>6, <1>7, <1>8, <1>9, <1>10, <1>11, <1>12, <1>13,
           <1>14, <1>15, <1>16, <1>17, <1>18, <1>19 DEF Next, Reader, Writer

\* No action but the end of the wait for the writer leaves a session, and that
\* has no writer any more.
LEMMA SessionSteps == ASSUME SessionInv, Next PROVE SessionInv'
<1> USE DEF SessionInv, SessionHasConnection, RegisteredInSession, ConnectedMeansRegistered,
            WriterOfThisSession, TakenAfterAnswer, NothingBeforeAck, InSession, connection,
            environment
<1>0. TypeOK'
  BY SessionStepsAreTyped
<1>1. CASE WaitUntilEarning
  BY <1>0, <1>1 DEF WaitUntilEarning
<1>2. CASE Dial
  BY <1>0, <1>2 DEF Dial
<1>3. CASE DialFails
  BY <1>0, <1>3 DEF DialFails, AfterSession
<1>4. CASE Backoff
  BY <1>0, <1>4 DEF Backoff
<1>5. CASE ReadFails
  BY <1>0, <1>5 DEF ReadFails, Close, Shut
<1>6. CASE ReadFirst
  BY <1>0, <1>6 DEF ReadFirst, Close, Shut
<1>7. CASE Dispatch
  BY <1>0, <1>7 DEF Dispatch
<1>8. CASE TrySend
  BY <1>0, <1>8 DEF TrySend
<1>9. CASE Closed
  BY <1>0, <1>9 DEF Closed, AfterSession
<1>10. CASE Watch
  BY <1>0, <1>10 DEF Watch
<1>11. CASE CloseOnCancel
  BY <1>0, <1>11 DEF CloseOnCancel
<1>12. ASSUME NEW kind \in Kinds, WriterTakes(kind) PROVE SessionInv'
  BY <1>0, <1>12 DEF WriterTakes, Taken, Kinds, Ready
<1>13. CASE WriterWrites
  BY <1>0, <1>13 DEF WriterWrites, Writing
<1>14. CASE WriterExits
  BY <1>0, <1>14 DEF WriterExits, Writing, Shut
<1>15. CASE Heartbeat
  BY <1>0, <1>15 DEF Heartbeat
<1>16. CASE Enqueue
  BY <1>0, <1>16 DEF Enqueue
<1>17. CASE CleanupEnds \/ CleanupAnswers
  BY <1>0, <1>17 DEF CleanupEnds, CleanupAnswers
<1>18. ASSUME NEW frame \in Frames, PoolSends(frame) PROVE SessionInv'
  BY <1>0, <1>18 DEF PoolSends
<1>19. CASE NetworkFails \/ ScheduleTurns \/ StopAgent
  BY <1>0, <1>19 DEF NetworkFails, ScheduleTurns, StopAgent
<1> QED BY <1>1, <1>2, <1>3, <1>4, <1>5, <1>6, <1>7, <1>8, <1>9, <1>10, <1>11, <1>12, <1>13,
           <1>14, <1>15, <1>16, <1>17, <1>18, <1>19 DEF Next, Reader, Writer

LEMMA SessionInvariant == Spec => []SessionInv
<1>1. SessionInv /\ UNCHANGED vars => SessionInv'
  BY DEF vars, SessionInv, TypeOK, SessionHasConnection, RegisteredInSession, InSession,
         ConnectedMeansRegistered, WriterOfThisSession, TakenAfterAnswer, NothingBeforeAck
<1>2. SessionInv /\ [Next]_vars => SessionInv'
  BY <1>1, SessionSteps
<1> QED BY SessionInitially, <1>2, PTL DEF Spec

\* Every channel, inbox and counter stays within its bound.
THEOREM SessionTypeCorrect == Spec => []TypeOK
<1>1. SessionInv => TypeOK
  BY DEF SessionInv
<1> QED BY <1>1, SessionInvariant, PTL

\* The flag the user sees is up only in a session whose own registration the pool
\* accepted, and is down before Run dials again (registration_test.go:116).
THEOREM SessionShowsTheRegistered == Spec => []ConnectedMeansRegistered
<1>1. SessionInv => ConnectedMeansRegistered
  BY DEF SessionInv
<1> QED BY <1>1, SessionInvariant, PTL

\* No writer outlives its session: the next one has the outbox for itself.
THEOREM SessionEndsWithItsWriter == Spec => []WriterOfThisSession
<1>1. SessionInv => WriterOfThisSession
  BY DEF SessionInv
<1> QED BY <1>1, SessionInvariant, PTL

\* No result and no frame of the outbox is written before the pool has accepted
\* the registration of this session (registration_test.go:90).
THEOREM SessionWaitsForTheAnswer == Spec => []NothingBeforeAck
<1>1. SessionInv => NothingBeforeAck
  BY DEF SessionInv
<1> QED BY <1>1, SessionInvariant, PTL
=============================================================================
