-------------------------- MODULE AttemptLifecycle --------------------------
(***************************************************************************)
(* What the coordinator may rely on when it dispatches attempts to one GPU, *)
(* whatever crashes, failed writes and failed removals happen below:        *)
(*   - an attempt's work begins at most once, and alone on the GPU;         *)
(*   - once the agent has promised that an attempt is stopped, that attempt *)
(*     does not work and will not begin;                                    *)
(*   - an accepted result is final, a failure is accepted only of an attempt*)
(*     that is not working, and an attempt with a result does not begin.    *)
(* The executor and its journal implement this (Executor!Lifecycle).        *)
(***************************************************************************)
CONSTANTS Attempts

VARIABLES
  begun,    \* attempts whose work has ever begun
  active,   \* attempts whose work goes on
  promised, \* attempts the agent has said are stopped
  verdict   \* the result accepted for each attempt

lvars == <<begun, active, promised, verdict>>

Verdicts == {"none", "success", "failure"}

Init ==
  /\ begun = {} /\ active = {} /\ promised = {}
  /\ verdict = [a \in Attempts |-> "none"]

Begin(a) ==
  /\ active = {} /\ a \notin begun \cup promised /\ verdict[a] = "none"
  /\ begun' = begun \cup {a}
  /\ active' = {a}
  /\ UNCHANGED <<promised, verdict>>

End(a) ==
  /\ a \in active
  /\ active' = active \ {a}
  /\ UNCHANGED <<begun, promised, verdict>>

\* The agent tells the coordinator that an attempt is stopped.
Promise(a) ==
  /\ promised' = promised \cup {a}
  /\ a \notin active
  /\ UNCHANGED <<begun, active, verdict>>

Settle(a, v) ==
  /\ verdict[a] = "none" /\ v # "none"
  /\ a \in active => v = "success"
  /\ verdict' = [verdict EXCEPT ![a] = v]
  /\ UNCHANGED <<begun, active, promised>>

Next ==
  \E a \in Attempts :
    \/ Begin(a)
    \/ End(a)
    \/ Promise(a)
    \/ \E v \in Verdicts : Settle(a, v)

Spec == Init /\ [][Next]_lvars
=============================================================================
