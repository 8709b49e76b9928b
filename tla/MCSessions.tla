----------------------------- MODULE MCSessions -----------------------------
(* Lifecycle with everything that may happen to a session, and, from       *)
(* initial states of their own, calm behaviours: operators only, of whom   *)
(* nobody is killed.                                                       *)
EXTENDS MCLifecycle

VARIABLE calm

Operators ==
  \/ \E p \in Runners : \/ \E i \in Idents : RunStart(p, i)
                        \/ ResumeStart(p) \/ RunStep(p) \/ ResumeStep(p)
  \/ Tick

MCInit == Init /\ calm \in BOOLEAN
MCNext == ((~calm /\ Next) \/ (calm /\ Operators)) /\ UNCHANGED calm
MCSpec == MCInit /\ [][MCNext]_<<vars, calm>>

(* Operators alone, never killed, can always resume what they paused: the  *)
(* descriptor is there, is of that pause, and asks for a wait that is not  *)
(* satisfied yet (PausedIsResumable).                                      *)
CalmPausesResume == calm => PausedIsResumable
=============================================================================
