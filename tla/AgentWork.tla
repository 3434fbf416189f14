----------------------------- MODULE AgentWork ------------------------------
(***************************************************************************)
(* What the agents do: their jobs, cycles and events (AgentScheduler), the *)
(* plan for a goal and the analysis it stands for (PlannedAnalysis), the   *)
(* session in which both are called for (AnalysisSession), and the chart   *)
(* and the trading decision that end a run of it (TradingDecision).        *)
(*                                                                         *)
(* A plan reads the goal only; to a job and to a session, an analysis is   *)
(* foreign code that returns or raises, and what is made of a chart goes   *)
(* into no other run. They share no state but the status of one agent,     *)
(* which a session leaves to itself. One of them is chosen, and the others *)
(* rest. Init, Next and vars are those of AgentScheduler.                  *)
(***************************************************************************)
EXTENDS AgentScheduler, PlannedAnalysis, AnalysisSession, TradingDecision

VARIABLE work

workVars == <<work, vars, analysisVars, sessionVars, decisionVars>>

WorkInit ==
  /\ work \in {"jobs", "analysis", "session", "decision"}
  /\ Init /\ AnalysisInit /\ SessionInit /\ DecisionInit
  /\ work # "analysis" => goal = {}
  /\ work # "session" => records = 0
  /\ work # "decision" => symbol = "none"

WorkNext ==
  /\ UNCHANGED work
  /\ \/ work = "jobs" /\ Next /\ UNCHANGED <<analysisVars, sessionVars, decisionVars>>
     \/ work = "analysis" /\ AnalysisNext /\ UNCHANGED <<vars, sessionVars, decisionVars>>
     \/ work = "session" /\ SessionNext /\ UNCHANGED <<vars, analysisVars, decisionVars>>
     \/ work = "decision" /\ DecisionNext /\ UNCHANGED <<vars, analysisVars, sessionVars>>

WorkSpec == WorkInit /\ [][WorkNext]_workVars
=============================================================================
