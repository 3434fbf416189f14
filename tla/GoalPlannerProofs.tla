-------------------------- MODULE GoalPlannerProofs --------------------------
(***************************************************************************)
(* A plan (GoalPlanner) is executable in its order, complete and the least *)
(* one, for every set of services with any declared inputs and outputs,    *)
(* and every goal.                                                         *)
(***************************************************************************)
EXTENDS GoalPlanner, TLAPS

\* What is available is what the goal and the plan supply, and a service is
\* left, or planned, or about to be.
Bookkeeping ==
  /\ available = Supply(Planned)
  /\ remaining = Services \ Planned
  /\ \A s \in round : Required[s] \subseteq available
  /\ ~planning => Satisfied = {}

GoalServices == {s \in Services : Required[s] \subseteq goal}

Fresh == steps = << >> /\ round = {}

\* As long as a service of the goal is left, it is in the round, and nothing
\* but services of the goal has been planned.
GoalRoundFirst ==
  \/ Fresh
  \/ /\ remaining \cap GoalServices \subseteq round
     /\ remaining \cap GoalServices # {} => Planned \cup round \subseteq GoalServices

PlannerInv ==
  /\ PlannerTypeOK /\ Bookkeeping /\ PlanIsOrdered
  /\ GoalRoundFirst /\ GoalServicesComeFirst

\* Taking a service appends it to those planned.
LEMMA PlannedAppend ==
  ASSUME steps \in Seq(Services), NEW s \in Services, steps' = Append(steps, s)
  PROVE  /\ Planned' = Planned \cup {s}
         /\ Len(steps') = Len(steps) + 1
         /\ steps'[Len(steps) + 1] = s
         /\ \A i \in 1 .. Len(steps) : steps'[i] = steps[i]
         /\ DOMAIN steps = 1 .. Len(steps) /\ DOMAIN steps' = 1 .. Len(steps) + 1
<1>1. /\ Len(steps') = Len(steps) + 1 /\ Len(steps) \in Nat
      /\ steps'[Len(steps) + 1] = s
      /\ \A i \in 1 .. Len(steps) : steps'[i] = steps[i]
      /\ DOMAIN steps = 1 .. Len(steps) /\ DOMAIN steps' = 1 .. Len(steps) + 1
  OBVIOUS
<1>2. Planned' \subseteq Planned \cup {s}
  BY <1>1 DEF Planned
<1>3. Planned \subseteq Planned'
  BY <1>1 DEF Planned
<1>4. s \in Planned'
  BY <1>1 DEF Planned
<1> QED BY <1>1, <1>2, <1>3, <1>4

LEMMA InitPlanner == PlannerInit => PlannerInv
<1> SUFFICES ASSUME PlannerInit PROVE PlannerInv
  OBVIOUS
<1> USE PlannerAssumption DEF PlannerInit
<1>1. DOMAIN steps = {} /\ Planned = {} /\ steps \in Seq(Services)
  BY DEF Planned
<1>2. PlannerTypeOK
  BY <1>1 DEF PlannerTypeOK
<1>3. Bookkeeping
  BY <1>1 DEF Bookkeeping, Supply
<1>4. PlanIsOrdered /\ GoalServicesComeFirst
  BY <1>1 DEF PlanIsOrdered, GoalServicesComeFirst
<1>5. GoalRoundFirst
  BY DEF GoalRoundFirst, Fresh
<1> QED BY <1>2, <1>3, <1>4, <1>5 DEF PlannerInv

LEMMA BeginRoundPlanner == PlannerInv /\ BeginRound => PlannerInv'
<1> SUFFICES ASSUME PlannerInv, BeginRound PROVE PlannerInv'
  OBVIOUS
<1> USE PlannerAssumption DEF PlannerInv, BeginRound
<1>1. Planned' = Planned /\ GoalServices' = GoalServices
  BY DEF Planned, GoalServices
<1>2. PlannerTypeOK'
  BY DEF PlannerTypeOK, Satisfied
<1>3. Bookkeeping'
  BY <1>1 DEF Bookkeeping, Supply, Satisfied, PlannerTypeOK
<1>4. PlanIsOrdered' /\ GoalServicesComeFirst'
  BY DEF PlanIsOrdered, GoalServicesComeFirst
<1>5. GoalRoundFirst'
  <2>1. goal \subseteq available
    BY DEF Bookkeeping, Supply
  <2>2. remaining \cap GoalServices \subseteq round'
    BY <2>1 DEF GoalServices, Satisfied
  <2>3. CASE Fresh
    <3>1. Planned = {} /\ available = goal
      BY <2>3 DEF Fresh, Planned, Bookkeeping, Supply
    <3>2. round' \subseteq GoalServices
      BY <3>1 DEF Satisfied, GoalServices, PlannerTypeOK
    <3> QED BY <1>1, <2>2, <3>1, <3>2 DEF GoalRoundFirst
  <2>4. CASE ~Fresh
    <3>1. remaining \cap GoalServices = {}
      BY <2>4 DEF GoalRoundFirst
    <3> QED BY <1>1, <2>2, <3>1 DEF GoalRoundFirst
  <2> QED BY <2>3, <2>4
<1> QED BY <1>2, <1>3, <1>4, <1>5

LEMMA TakeServicePlanner == PlannerInv /\ TakeService => PlannerInv'
<1> SUFFICES ASSUME PlannerInv, TakeService PROVE PlannerInv'
  OBVIOUS
<1>1. PICK s \in round :
        /\ steps' = Append(steps, s)
        /\ available' = available \cup Produced[s]
        /\ remaining' = remaining \ {s}
        /\ round' = round \ {s}
        /\ UNCHANGED <<goal, planning>>
  BY DEF TakeService
<1> USE PlannerAssumption, <1>1 DEF PlannerInv
<1>2. s \in Services /\ s \in remaining /\ steps \in Seq(Services)
  BY DEF PlannerTypeOK
<1>3. /\ Planned' = Planned \cup {s}
      /\ Len(steps') = Len(steps) + 1
      /\ steps'[Len(steps) + 1] = s
      /\ \A i \in 1 .. Len(steps) : steps'[i] = steps[i]
      /\ DOMAIN steps = 1 .. Len(steps) /\ DOMAIN steps' = 1 .. Len(steps) + 1
  BY <1>2, PlannedAppend
<1>4. GoalServices' = GoalServices /\ Len(steps) \in Nat
  BY <1>2 DEF GoalServices
<1>5. s \notin Planned /\ Required[s] \subseteq Supply(Planned)
  BY <1>2 DEF Bookkeeping
<1>6. PlannerTypeOK'
  <2>1. steps' \in Seq(Services) /\ Produced[s] \subseteq Keys
    BY <1>2
  <2> QED BY <2>1 DEF PlannerTypeOK
<1>7. Bookkeeping'
  <2>1. available' = Supply(Planned)'
    BY <1>3 DEF Bookkeeping, Supply
  <2>2. planning
    BY <1>2, <1>5 DEF Bookkeeping, Satisfied
  <2> QED BY <1>3, <2>1, <2>2 DEF Bookkeeping
<1>8. PlanIsOrdered'
  <2> SUFFICES ASSUME NEW i \in DOMAIN steps'
               PROVE  /\ Required[steps'[i]] \subseteq
                           goal \cup UNION {Produced[steps'[j]] : j \in 1 .. i - 1}
                      /\ \A j \in 1 .. i - 1 : steps'[j] # steps'[i]
    BY DEF PlanIsOrdered
  <2>1. \A j \in 1 .. i - 1 : j \in 1 .. Len(steps) /\ steps'[j] = steps[j]
    BY <1>3, <1>4
  <2>2. UNION {Produced[steps'[j]] : j \in 1 .. i - 1}
          = UNION {Produced[steps[j]] : j \in 1 .. i - 1}
    BY <2>1
  <2>3. CASE i = Len(steps) + 1
    <3>1. 1 .. i - 1 = DOMAIN steps /\ steps'[i] = s
      BY <1>3, <1>4, <2>3
    <3>2. Supply(Planned) = goal \cup UNION {Produced[steps[j]] : j \in 1 .. i - 1}
      BY <3>1 DEF Supply, Planned
    <3>3. \A j \in 1 .. i - 1 : steps[j] # s
      BY <1>5, <3>1 DEF Planned
    <3> QED BY <1>5, <2>1, <2>2, <3>1, <3>2, <3>3
  <2>4. CASE i # Len(steps) + 1
    <3>1. i \in DOMAIN steps /\ steps'[i] = steps[i]
      BY <1>3, <1>4, <2>4
    <3> QED BY <2>1, <2>2, <3>1 DEF PlanIsOrdered
  <2> QED BY <2>3, <2>4
<1>9. ~Fresh /\ ~Fresh'
  BY <1>3, <1>4 DEF Fresh
<1>10. GoalRoundFirst'
  BY <1>3, <1>4, <1>9 DEF GoalRoundFirst
<1>11. GoalServicesComeFirst'
  <2> SUFFICES ASSUME NEW i \in DOMAIN steps', NEW j \in DOMAIN steps',
                      Required[steps'[i]] \subseteq goal,
                      ~(Required[steps'[j]] \subseteq goal)
               PROVE  i < j
    BY DEF GoalServicesComeFirst
  <2>1. CASE i \in DOMAIN steps /\ j \in DOMAIN steps
    BY <1>3, <2>1 DEF GoalServicesComeFirst
  <2>2. CASE i \in DOMAIN steps /\ j = Len(steps) + 1
    BY <1>3, <1>4, <2>2
  <2>3. CASE i = Len(steps) + 1 /\ j \in DOMAIN steps
    <3>1. s \in remaining \cap GoalServices
      BY <1>2, <1>3, <2>3 DEF GoalServices
    <3>2. Planned \subseteq GoalServices
      BY <1>9, <3>1 DEF GoalRoundFirst
    <3>3. steps'[j] \in Planned
      BY <1>3, <2>3 DEF Planned
    <3> QED BY <3>2, <3>3 DEF GoalServices
  <2>4. CASE i = j
    BY <2>4
  <2> QED BY <1>3, <1>4, <2>1, <2>2, <2>3, <2>4
<1> QED BY <1>6, <1>7, <1>8, <1>10, <1>11

LEMMA ReturnPlanPlanner == PlannerInv /\ ReturnPlan => PlannerInv'
<1> SUFFICES ASSUME PlannerInv, ReturnPlan PROVE PlannerInv'
  OBVIOUS
<1> USE DEF PlannerInv, ReturnPlan
<1>1. Planned' = Planned /\ GoalServices' = GoalServices /\ Satisfied' = Satisfied
  BY DEF Planned, GoalServices, Satisfied
<1>2. PlannerTypeOK'
  BY DEF PlannerTypeOK
<1>3. Bookkeeping'
  BY <1>1 DEF Bookkeeping, Supply
<1>4. PlanIsOrdered' /\ GoalServicesComeFirst'
  BY DEF PlanIsOrdered, GoalServicesComeFirst
<1>5. GoalRoundFirst'
  BY <1>1 DEF GoalRoundFirst, Fresh
<1> QED BY <1>2, <1>3, <1>4, <1>5

LEMMA NextPlanner == PlannerInv /\ [PlannerNext]_plannerVars => PlannerInv'
<1>1. PlannerInv /\ UNCHANGED plannerVars => PlannerInv'
  BY DEF PlannerInv, plannerVars, PlannerTypeOK, Bookkeeping, Supply, Planned,
         Satisfied, PlanIsOrdered, GoalRoundFirst, Fresh, GoalServices,
         GoalServicesComeFirst
<1> QED
  BY <1>1, BeginRoundPlanner, TakeServicePlanner, ReturnPlanPlanner
  DEF PlannerNext

\* The plan of a goal is executable in its order, complete, and begins with
\* what the goal alone suffices for (build_plan, planner.py:708-754).
THEOREM PlanIsClosureThm == PlannerSpec => []PlanIsClosure
<1>1. PlannerInv => PlanIsClosure
  <2> SUFFICES ASSUME PlannerInv PROVE PlanIsClosure
    OBVIOUS
  <2>1. PlanIsComplete
    <3> SUFFICES ASSUME ~planning, NEW s \in Services,
                        Required[s] \subseteq Supply(Planned), s \notin Planned
                 PROVE  FALSE
      BY DEF PlanIsComplete, Closed
    <3>1. s \in Satisfied
      BY DEF PlannerInv, Bookkeeping, Satisfied
    <3> QED BY <3>1 DEF PlannerInv, Bookkeeping
  <2> QED BY <2>1 DEF PlannerInv, PlanIsClosure
<1> QED BY <1>1, InitPlanner, NextPlanner, PTL DEF PlannerSpec

\* No plan has a service that some closed set is without: with completeness,
\* the plan is the least fixed point that build_plan's docstring promises
\* (planner.py:684-697).
THEOREM PlanIsLeastThm == PlannerSpec => []PlanIsLeast
<1> DEFINE LeastInv ==
      \A K \in SUBSET Services : Closed(K) => Planned \cup round \subseteq K
<1>1. PlannerInit => LeastInv
  BY DEF PlannerInit, Planned
<1>2. PlannerInv /\ LeastInv /\ [PlannerNext]_plannerVars => LeastInv'
  <2> SUFFICES ASSUME PlannerInv, LeastInv, [PlannerNext]_plannerVars,
                      NEW K \in SUBSET Services, Closed(K)'
               PROVE  (Planned \cup round)' \subseteq K
    OBVIOUS
  <2>1. goal' = goal
    BY DEF PlannerNext, BeginRound, TakeService, ReturnPlan, plannerVars
  <2>2. Closed(K)
    BY <2>1 DEF Closed, Supply
  <2>3. Planned \cup round \subseteq K
    BY <2>2
  <2>4. CASE BeginRound
    <3>1. available \subseteq Supply(K)
      BY <2>3 DEF PlannerInv, Bookkeeping, Supply
    <3>2. Satisfied \subseteq K
      BY <2>2, <3>1 DEF Closed, Satisfied, PlannerInv, PlannerTypeOK
    <3> QED BY <2>3, <2>4, <3>2 DEF BeginRound, Planned
  <2>5. CASE TakeService
    <3>1. PICK s \in round : steps' = Append(steps, s) /\ round' = round \ {s}
      BY <2>5 DEF TakeService
    <3>2. Planned' = Planned \cup {s}
      BY <3>1, PlannedAppend DEF PlannerInv, PlannerTypeOK
    <3> QED BY <2>3, <3>1, <3>2
  <2>6. CASE ReturnPlan \/ UNCHANGED plannerVars
    BY <2>3, <2>6 DEF ReturnPlan, plannerVars, Planned
  <2> QED BY <2>4, <2>5, <2>6 DEF PlannerNext
<1>3. LeastInv => PlanIsLeast
  BY DEF PlanIsLeast
<1> QED BY <1>1, <1>2, <1>3, InitPlanner, NextPlanner, PTL DEF PlannerSpec

=============================================================================
