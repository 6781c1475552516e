-------------------------------- MODULE Desk --------------------------------
(***************************************************************************)
(* The books beside the ledger: prices, maintenance, batches, schedules,   *)
(* settlement lanes, operators and reports, with the clock that they read. *)
(* Nothing in the crate connects them with one another: they share the     *)
(* epoch and nothing else.  A behaviour therefore exercises one of them    *)
(* (or the clock by itself, to the second), and the run adds their states  *)
(* up instead of multiplying them.                                         *)
(***************************************************************************)
EXTENDS Oracle, Maintenance, Batches, Schedules, Lanes, Operators, Reports

CONSTANT Desks   \* the books exercised by a run

VARIABLE desk

ASSUME DeskAssumption ==
    Desks \subseteq {"clock", "oracle", "maintenance", "batches", "schedules",
                     "lanes", "operators", "reports"}

bookVars == <<oracleVars, maintenanceVars, batchVars, scheduleVars, lanesVars,
              operatorsVars, reportsVars>>
deskVars == <<vars, bookVars, desk>>

DeskInit ==
    /\ desk \in Desks
    /\ Init /\ OracleInit /\ MaintenanceInit /\ BatchInit /\ ScheduleInit
    /\ LanesInit /\ OperatorsInit /\ ReportsInit

\* Beside a book, the clock advances by one epoch at a time.
ClockStep ==
    /\ IF desk = "clock" THEN Next ELSE AdvanceEpochs(1) \/ Loop
    /\ UNCHANGED <<bookVars, desk>>

OracleStep ==
    /\ desk = "oracle" /\ OracleNext
    /\ UNCHANGED <<vars, maintenanceVars, batchVars, scheduleVars, lanesVars,
                   operatorsVars, reportsVars, desk>>
MaintenanceStep ==
    /\ desk = "maintenance" /\ MaintenanceNext
    /\ UNCHANGED <<vars, oracleVars, batchVars, scheduleVars, lanesVars,
                   operatorsVars, reportsVars, desk>>
BatchStep ==
    /\ desk = "batches" /\ BatchNext
    /\ UNCHANGED <<vars, oracleVars, maintenanceVars, scheduleVars, lanesVars,
                   operatorsVars, reportsVars, desk>>
ScheduleStep ==
    /\ desk = "schedules" /\ ScheduleNext
    /\ UNCHANGED <<vars, oracleVars, maintenanceVars, batchVars, lanesVars,
                   operatorsVars, reportsVars, desk>>
LanesStep ==
    /\ desk = "lanes" /\ LanesNext
    /\ UNCHANGED <<vars, oracleVars, maintenanceVars, batchVars, scheduleVars,
                   operatorsVars, reportsVars, desk>>
OperatorsStep ==
    /\ desk = "operators" /\ OperatorsNext
    /\ UNCHANGED <<vars, oracleVars, maintenanceVars, batchVars, scheduleVars,
                   lanesVars, reportsVars, desk>>
ReportsStep ==
    /\ desk = "reports" /\ ReportsNext
    /\ UNCHANGED <<vars, oracleVars, maintenanceVars, batchVars, scheduleVars,
                   lanesVars, operatorsVars, desk>>

DeskNext ==
    \/ ClockStep \/ OracleStep \/ MaintenanceStep \/ BatchStep \/ ScheduleStep
    \/ LanesStep \/ OperatorsStep \/ ReportsStep

DeskSpec == DeskInit /\ [][DeskNext]_deskVars

(***************************************************************************)
(* A call of the clock runs its loop to the end.  Where there is a queue,  *)
(* its host keeps advancing the clock, and polls between the calls: the    *)
(* poll is enabled again and again, not without interruption, so its       *)
(* fairness is strong.                                                     *)
(***************************************************************************)
TimePasses == desk = "maintenance" /\ AdvanceEpochs(1) /\ UNCHANGED <<bookVars, desk>>
Polling == MaintenanceStep /\ NextReady
FairDesk ==
    /\ DeskSpec
    /\ WF_deskVars(ClockStep /\ Loop)
    /\ WF_deskVars(TimePasses)
    /\ SF_deskVars(Polling)
=============================================================================
