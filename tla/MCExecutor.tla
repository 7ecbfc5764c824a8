----------------------------- MODULE MCExecutor -----------------------------
(* TLC instances of Executor: attempts of two jobs, or two attempts (dispatch *)
(* tokens) of one job, on different runtimes.                                 *)
EXTENDS Executor

CONSTANTS a1, a2, j1, j2

MCAttempts == {a1, a2}
TwoJobs == [a \in MCAttempts |-> IF a = a1 THEN j1 ELSE j2]
OneJob == [a \in MCAttempts |-> j1]

WorkspaceAndOllama == [a \in MCAttempts |-> IF a = a1 THEN "workspace" ELSE "ollama"]
WorkspaceAndDocker == [a \in MCAttempts |->
                         IF a = a1 THEN "workspace" ELSE "docker-custom"]
=============================================================================
