---------------------------- MODULE GoalPlanner -----------------------------
(***************************************************************************)
(* GoalPlanner.build_plan (Orchestration/planner.py): from the metadata    *)
(* keys of a goal and the declared inputs and outputs of the services, the *)
(* steps with which the goal can be pursued. It goes in rounds: a round is *)
(* every service left whose inputs are available as it begins, and its     *)
(* services are planned in the order of their names.                       *)
(***************************************************************************)
EXTENDS Integers, Sequences, FiniteSets

CONSTANTS
  Keys,        \* the keys of metadata
  Services,    \* the service names of GoalPlanner._service_skills
  Required,    \* SkillMetadata.required_inputs of each
  Produced,    \* SkillMetadata.produced_outputs of each
  Rank,        \* the order in which sorted() puts their names
  Goals        \* the sets of keys that goals come with

ASSUME PlannerAssumption ==
  /\ Required \in [Services -> SUBSET Keys]
  /\ Produced \in [Services -> SUBSET Keys]
  /\ Rank \in [Services -> Int]
  /\ \A s, t \in Services : Rank[s] = Rank[t] => s = t
  /\ Goals \subseteq SUBSET Keys

VARIABLES
  goal,        \* the keys of goal.metadata
  available, remaining,
  round,       \* what is left of satisfied_this_round
  steps,       \* ordered_steps
  planning     \* build_plan has not returned

plannerVars == <<goal, available, remaining, round, steps, planning>>

\* The services of a plan, and what they and the goal put at disposal.
Planned == {steps[i] : i \in DOMAIN steps}

Supply(K) == goal \cup UNION {Produced[s] : s \in K}

PlannerTypeOK ==
  /\ goal \in Goals /\ available \in SUBSET Keys
  /\ remaining \in SUBSET Services /\ round \in SUBSET remaining
  /\ steps \in Seq(Services) /\ planning \in BOOLEAN

PlannerInit ==
  /\ goal \in Goals /\ available = goal
  /\ remaining = Services /\ round = {} /\ steps = << >> /\ planning = TRUE

-----------------------------------------------------------------------------

SatisfiedBySome == {s \in remaining : Required[s] \cap available # {}}

Satisfied == {s \in remaining : Required[s] \subseteq available}

BeginRound ==
  /\ planning /\ round = {} /\ Satisfied # {}
  /\ round' = Satisfied
  /\ UNCHANGED <<goal, available, remaining, steps, planning>>

TakeService ==
  \E s \in round :
    /\ \A t \in round : Rank[s] <= Rank[t]
    /\ steps' = Append(steps, s)
    /\ available' = available \cup Produced[s]
    /\ remaining' = remaining \ {s}
    /\ round' = round \ {s}
    /\ UNCHANGED <<goal, planning>>

\* Whatever is left over is logged and excluded.
ReturnPlan ==
  /\ planning /\ round = {} /\ Satisfied = {}
  /\ planning' = FALSE
  /\ UNCHANGED <<goal, available, remaining, round, steps>>

PlannerNext == BeginRound \/ TakeService \/ ReturnPlan

PlannerSpec == PlannerInit /\ [][PlannerNext]_plannerVars

-----------------------------------------------------------------------------
\* Every step finds its inputs in the goal or among the outputs of earlier
\* steps, and no service is planned twice (build_plan, planner.py:712-732).
PlanIsOrdered ==
  \A i \in DOMAIN steps :
    /\ Required[steps[i]] \subseteq
         goal \cup UNION {Produced[steps[j]] : j \in 1 .. i - 1}
    /\ \A j \in 1 .. i - 1 : steps[j] # steps[i]

\* A set of services that has everything its supply suffices for.
Closed(K) == \A s \in Services : Required[s] \subseteq Supply(K) => s \in K

\* A plan that is returned leaves out nothing that the goal and the plan make
\* possible (planner.py:720, 734-743).
PlanIsComplete == ~planning => Closed(Planned)

\* A plan has nothing that is not in every closed set: it is the least one
\* (planner.py:684-697).
PlanIsLeast == \A K \in SUBSET Services : Closed(K) => Planned \subseteq K

\* What needs nothing but the goal is planned before all that needs more,
\* whatever it could have used: a notification goes out before the chart that
\* it would attach is drawn (planner.py:713-718).
GoalServicesComeFirst ==
  \A i, j \in DOMAIN steps :
    Required[steps[i]] \subseteq goal /\ ~(Required[steps[j]] \subseteq goal)
      => i < j

\* The plan of a goal is executable and complete, and goes in rounds.
PlanIsClosure == PlanIsOrdered /\ PlanIsComplete /\ GoalServicesComeFirst
=============================================================================
