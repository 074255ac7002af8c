------------------------------ MODULE MC_Service ------------------------------
(* The threads of the sync service, in two parts that are explored each from  *)
(* its own states: the writers at the turnstile, and the drain's lanes.       *)
EXTENDS WriteTurnstile, DrainLanes

VARIABLE part
serviceVars == <<part, vars, laneVars>>

ServiceInit == part \in {"turnstile", "lanes"} /\ Init /\ LanesInit

TurnstileStep(A) == part = "turnstile" /\ A /\ UNCHANGED <<part, laneVars>>
LanesStep(A)     == part = "lanes" /\ A /\ UNCHANGED <<part, vars>>

ServiceNext == TurnstileStep(Next) \/ LanesStep(LanesNext)

(* The fairness of each part, of its own steps; steps of one thread that      *)
(* exclude each other share a condition.                                      *)
ServiceSpec ==
  /\ ServiceInit /\ [][ServiceNext]_serviceVars
  /\ \A w \in Writers : WF_serviceVars(TurnstileStep(Retest(w) \/ Release(w) \/ NotifyAll(w)))
  /\ \A g \in Gens : /\ WF_serviceVars(LanesStep(DrainStep(g)))
                     /\ WF_serviceVars(LanesStep(KickStarts(g) \/ KickExits(g)))
  /\ WF_serviceVars(LanesStep(Install \/ Joined))
===============================================================================
