---------------------------- MODULE MCPoolClient ----------------------------
(* TLC instances of PoolClient: an attempt and its retries, and two jobs.     *)
EXTENDS PoolClient

CONSTANTS a1, a2, a3, j1, j2

TwoAttempts == {a1, a2}
ThreeAttempts == {a1, a2, a3}
OneJob == [a \in Attempts |-> j1]
TwoJobs == [a \in Attempts |-> IF a = a2 THEN j2 ELSE j1]
AllDocker == [a \in Attempts |-> "docker-custom"]
WorkspaceFirst == [a \in Attempts |-> IF a = a1 THEN "workspace" ELSE "docker-custom"]
OllamaFirst == [a \in Attempts |-> IF a = a1 THEN "ollama" ELSE "docker-custom"]
=============================================================================
