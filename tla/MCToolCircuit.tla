--------------------------- MODULE MCToolCircuit ----------------------------
(* Two components with a clock, in one run: a behaviour is one of          *)
(* ToolCircuit or one of Reminders, and the other stays as it began.       *)
EXTENDS ToolCircuit, Reminders

VARIABLE about      \* the component this behaviour is about

circuitRun  == about = "circuit" /\ UNCHANGED <<reminderVars, about>>
reminderRun == about = "reminders" /\ UNCHANGED <<vars, about>>

MCInit == about \in {"circuit", "reminders"} /\ Init /\ RemindersInit

MCNext ==
    \/ circuitRun /\ Next
    \/ reminderRun /\ RemindersNext

mcVars == <<vars, reminderVars, about>>

(* ToolCircuit's Fairness, and for Reminders: the loop is restarted and     *)
(* goes on, schedule() ends, the clock runs.                               *)
MCFairness ==
    /\ WF_mcVars(circuitRun /\ Tick)
    /\ \A c \in Calls :
         /\ WF_mcVars(circuitRun /\ Admit(c))
         /\ WF_mcVars(circuitRun /\ (Succeed(c) \/ Fail(c) \/ Cancel(c)))
         /\ SF_mcVars(circuitRun /\ Succeed(c))
         /\ WF_mcVars(circuitRun
                      /\ (RefusalLogged(c) \/ RefusalCancelled(c) \/ RefusalNotLogged(c)))
    /\ WF_mcVars(reminderRun /\ (Scan \/ StartLoop))
    /\ WF_mcVars(reminderRun /\ TimePasses)
    /\ \A r \in Ids : WF_mcVars(reminderRun /\ (ScheduleWakes(r) \/ ScheduleIsCut(r)))

MCSpec == MCInit /\ [][MCNext]_mcVars /\ MCFairness
=============================================================================
