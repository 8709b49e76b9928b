------------------------------ MODULE MCQueue ------------------------------
(* What passes between a run and those outside it, one part in each        *)
(* behaviour: the callbacks it sends (Delivery), and the signals that      *)
(* resumes wait for (Signals).                                             *)
EXTENDS Delivery

CONSTANTS Resumes, Cron, Nobody, Ids, BrowserIds, MaxSignals, MaxPauses

VARIABLES scenario, redis, signals, desc, lock, proc, answers, wasted

S == INSTANCE Signals

ASSUME QueueAssumption == DeliveryConstants /\ S!SignalsConstants

signalVars == <<redis, signals, desc, lock, proc, answers, wasted>>

\* The part that is not the scenario's stays in one of its initial states.
MCInit ==
    /\ DeliveryInit /\ S!SignalsInit
    /\ \/ scenario = "callbacks"
       \/ scenario = "signals" /\ transport = [kind |-> "none", shared |-> FALSE]

MCNext ==
    \/ scenario = "callbacks" /\ DeliveryNext /\ UNCHANGED <<scenario, signalVars>>
    \/ scenario = "signals" /\ S!SignalsNext /\ UNCHANGED <<scenario, deliveryVars>>

\* A scan can always begin, and in the other part none does.
MCSpec ==
    /\ MCInit /\ [][MCNext]_<<scenario, deliveryVars, signalVars>>
    /\ DeliveryFairness
    /\ WF_signalVars(scenario = "signals" /\ S!BeginScan(Cron))
    /\ WF_signalVars(S!Resume(Cron))

\* A signal that was read under the lock answers its pause if it can, and that one only.
SpentOnItsPause == S!AnswersOnce /\ S!WastesNoAnswer

\* Events on record are in the order of emission, an event is applied once, and the events
\* file loses one only with the process that wrote it.
Received == RecordedAreOrdered /\ AppliedOnce /\ FileLosesKilled

\* Every variable keeps its type, whichever part is at work.
QueueTypeOK == DeliveryTypeOK /\ S!SignalsTypeOK

\* Every send ends, and every signal that is waited for is taken.
TrafficEnds == SendEnds /\ S!SignalsAreTaken
=============================================================================
