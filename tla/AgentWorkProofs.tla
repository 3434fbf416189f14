--------------------------- MODULE AgentWorkProofs ---------------------------
(***************************************************************************)
(* The theorems about what the agents do (AgentWork):                      *)
(*                                                                         *)
(*   - calls between agents, jobs and subscribers (AgentScheduler) end as  *)
(*     they should, for every set of agents, jobs and events and every     *)
(*     depth of the call stack;                                            *)
(*   - a session (AnalysisSession) keeps its runs apart and tells what it  *)
(*     did, for every sequence of commands of any length;                  *)
(*   - what is made of a chart (TradingDecision) says what the provider's  *)
(*     answer had something for, and decides on nothing;                   *)
(*   - a plan of the twelve services says, executed, what the pipeline     *)
(*     says (PlannedAnalysis), for every goal and every world.             *)
(***************************************************************************)
EXTENDS AgentWork, GoalPlannerProofs, SequenceTheorems

-----------------------------------------------------------------------------
(***************************************************************************)
(* Calls: AgentScheduler                                                   *)
(*                                                                         *)
(* A step pushes a frame, pops one, replaces the top, or lets it call; the *)
(* frames below stay as they are. FramesInv says what each frame is, and   *)
(* what it is to the frame that it called; on it rest CyclesInv (the       *)
(* cycles of the agents), JobsInv (where the jobs are) and OnceInv (who    *)
(* knows a handler of once).                                               *)
(***************************************************************************)

(***************************************************************************)
(* Sequences                                                               *)
(***************************************************************************)
\* No element of s is twice in it.
Distinct(s) == \A i, j \in DOMAIN s : s[i] = s[j] => i = j

\* What is under the top of a stack.
LEMMA FrontFacts ==
  ASSUME NEW S, NEW s \in Seq(S), s # << >>
  PROVE  /\ Front(s) \in Seq(S) /\ Len(Front(s)) = Len(s) - 1
         /\ Len(s) \in Nat /\ Len(s) >= 1 /\ Last(s) = s[Len(s)] /\ Last(s) \in S
         /\ \A i \in 1 .. Len(s) - 1 : Front(s)[i] = s[i]
<1>1. Len(s) \in Nat /\ Len(s) >= 1 /\ \A i \in 1 .. Len(s) : s[i] \in S
  OBVIOUS
<1>2. PICK n \in Int : n = Len(s) - 1 /\ n >= 0
  BY <1>1
<1>3. \A i \in 1 .. n : s[i] \in S
  BY <1>1, <1>2
<1>4. PICK t : t = SubSeq(s, 1, n)
  OBVIOUS
<1>5. /\ t \in Seq(S) /\ Len(t) = IF 1 <= n THEN n - 1 + 1 ELSE 0
      /\ \A i \in 1 .. n - 1 + 1 : t[i] = s[1 + i - 1]
  BY <1>3, <1>4, SubSeqProperties
<1>6. Front(s) = t
  BY <1>2, <1>4 DEF Front
<1>7. QED
  BY <1>1, <1>2, <1>5, <1>6 DEF Last

\* The top replaced.
LEMMA BecomeFacts ==
  ASSUME NEW S, NEW s \in Seq(S), s # << >>, NEW f \in S
  PROVE  /\ Append(Front(s), f) \in Seq(S) /\ Len(Append(Front(s), f)) = Len(s)
         /\ Append(Front(s), f)[Len(s)] = f
         /\ \A i \in 1 .. Len(s) - 1 : Append(Front(s), f)[i] = s[i]
<1>1. PICK u : u = Front(s)
  OBVIOUS
<1>2. /\ u \in Seq(S) /\ Len(u) = Len(s) - 1 /\ Len(s) \in Nat
      /\ \A i \in 1 .. Len(s) - 1 : u[i] = s[i]
  BY <1>1, FrontFacts
<1>3. QED
  BY <1>1, <1>2

\* The top replaced, and another frame put on it.
LEMMA CallTopFacts ==
  ASSUME NEW S, NEW s \in Seq(S), s # << >>, NEW f \in S, NEW g \in S
  PROVE  /\ Front(s) \o <<f, g>> \in Seq(S) /\ Len(Front(s) \o <<f, g>>) = Len(s) + 1
         /\ (Front(s) \o <<f, g>>)[Len(s)] = f
         /\ (Front(s) \o <<f, g>>)[Len(s) + 1] = g
         /\ \A i \in 1 .. Len(s) - 1 : (Front(s) \o <<f, g>>)[i] = s[i]
<1>1. PICK t : t = Front(s)
  OBVIOUS
<1>2. /\ t \in Seq(S) /\ Len(t) = Len(s) - 1 /\ Len(s) \in Nat
      /\ \A i \in 1 .. Len(s) - 1 : t[i] = s[i]
  BY <1>1, FrontFacts
<1>3. <<f, g>> \in Seq(S) /\ Len(<<f, g>>) = 2 /\ <<f, g>>[1] = f /\ <<f, g>>[2] = g
  OBVIOUS
<1>4. PICK u : u = <<f, g>>
  OBVIOUS
<1>5. QED
  BY <1>1, <1>2, <1>3, <1>4

\* An element taken out of a sequence: those behind it move up by one.
LEMMA RemoveAtFacts ==
  ASSUME NEW S, NEW s \in Seq(S), NEW i \in DOMAIN s
  PROVE  /\ RemoveAt(s, i) \in Seq(S) /\ Len(RemoveAt(s, i)) = Len(s) - 1
         /\ \A k \in 1 .. Len(s) - 1 :
              RemoveAt(s, i)[k] = IF k < i THEN s[k] ELSE s[k + 1]
<1>1. PICK n, b, e : n = Len(s) /\ b = i - 1 /\ e = i + 1
  OBVIOUS
<1>2. /\ n \in Int /\ b \in Int /\ e \in Int /\ i \in 1 .. n
      /\ \A k \in 1 .. n : s[k] \in S
  BY <1>1
<1>3. PICK t, u : t = SubSeq(s, 1, b) /\ u = SubSeq(s, e, n)
  OBVIOUS
<1>4. /\ t \in Seq(S) /\ Len(t) = i - 1
      /\ \A k \in 1 .. i - 1 : t[k] = s[k]
  <2>1. \A k \in 1 .. b : s[k] \in S
    BY <1>1, <1>2
  <2>2. /\ t \in Seq(S) /\ Len(t) = IF 1 <= b THEN b - 1 + 1 ELSE 0
        /\ \A k \in 1 .. b - 1 + 1 : t[k] = s[1 + k - 1]
    BY <1>2, <1>3, <2>1, SubSeqProperties
  <2>3. QED
    BY <1>1, <1>2, <2>2
<1>5. /\ u \in Seq(S) /\ Len(u) = n - i
      /\ \A k \in 1 .. n - i : u[k] = s[k + i]
  <2>1. \A k \in e .. n : s[k] \in S
    BY <1>1, <1>2
  <2>2. /\ u \in Seq(S) /\ Len(u) = IF e <= n THEN n - e + 1 ELSE 0
        /\ \A k \in 1 .. n - e + 1 : u[k] = s[e + k - 1]
    BY <1>2, <1>3, <2>1, SubSeqProperties
  <2>3. n - e + 1 = n - i /\ (e <= n <=> n - i > 0) /\ n - i >= 0
    BY <1>1, <1>2
  <2>4. \A k \in 1 .. n - i : e + k - 1 = k + i
    BY <1>1, <1>2
  <2>5. \A k \in 1 .. n - i : u[k] = s[k + i]
    BY <2>2, <2>3, <2>4
  <2>6. QED
    BY <1>2, <2>2, <2>3, <2>5
<1>6. RemoveAt(s, i) = t \o u
  BY <1>1, <1>3 DEF RemoveAt
<1>7. PICK r : r = t \o u
  OBVIOUS
<1>8. /\ r \in Seq(S) /\ Len(r) = Len(t) + Len(u)
      /\ \A k \in 1 .. Len(t) + Len(u) :
           r[k] = IF k <= Len(t) THEN t[k] ELSE u[k - Len(t)]
  BY <1>4, <1>5, <1>7, ConcatProperties
<1>9. Len(r) = n - 1
  BY <1>2, <1>4, <1>5, <1>8
<1>10. ASSUME NEW k \in 1 .. n - 1
       PROVE  r[k] = IF k < i THEN s[k] ELSE s[k + 1]
  <2>1. k \in 1 .. Len(t) + Len(u)
    BY <1>2, <1>4, <1>5, <1>10
  <2>2. CASE k < i
    <3>1. k <= Len(t) /\ k \in 1 .. i - 1
      BY <1>2, <1>4, <1>10, <2>2
    <3>2. QED
      BY <1>4, <1>8, <2>1, <2>2, <3>1
  <2>3. CASE ~(k < i)
    <3>0. ~(k <= Len(t)) /\ k - Len(t) = k - (i - 1) /\ k - (i - 1) \in 1 .. n - i
      BY <1>2, <1>4, <1>10, <2>3
    <3>1. r[k] = u[k - (i - 1)] /\ k - (i - 1) \in 1 .. n - i
      BY <1>8, <2>1, <3>0
    <3>2. (k - (i - 1)) + i = k + 1
      BY <1>2, <1>10
    <3>3. QED
      BY <1>5, <2>3, <3>1, <3>2
  <2>4. QED
    BY <2>2, <2>3
<1>11. QED
  BY <1>1, <1>6, <1>7, <1>8, <1>9, <1>10

\* Every other element stays.
LEMMA RemoveAtKeeps ==
  ASSUME NEW S, NEW s \in Seq(S), NEW i \in DOMAIN s, NEW k \in DOMAIN s, k # i
  PROVE  \E m \in DOMAIN RemoveAt(s, i) : RemoveAt(s, i)[m] = s[k]
<1>1. PICK r : r = RemoveAt(s, i)
  OBVIOUS
<1>2. /\ r \in Seq(S) /\ Len(r) = Len(s) - 1
      /\ \A m \in 1 .. Len(s) - 1 : r[m] = IF m < i THEN s[m] ELSE s[m + 1]
  BY <1>1, RemoveAtFacts
<1>3. k \in 1 .. Len(s) /\ i \in 1 .. Len(s) /\ Len(s) \in Nat
  OBVIOUS
<1>4. CASE k < i
  BY <1>1, <1>2, <1>4
<1>5. CASE k > i
  <2>1. PICK m \in Int : m = k - 1
    BY <1>3
  <2>2. m \in 1 .. Len(s) - 1 /\ ~(m < i) /\ m + 1 = k
    BY <1>3, <1>5, <2>1
  <2>3. r[m] = s[k] /\ DOMAIN r = 1 .. Len(s) - 1
    BY <1>2, <1>3, <2>2
  <2>4. QED
    BY <1>1, <2>2, <2>3
<1>6. QED
  BY <1>3, <1>4, <1>5

\* list.remove of an element that is in the list once.
LEMMA RemoveFirstFacts ==
  ASSUME NEW S, NEW s \in Seq(S), Distinct(s), NEW h \in ToSet(s)
  PROVE  /\ RemoveFirst(s, h) \in Seq(S) /\ Distinct(RemoveFirst(s, h))
         /\ ToSet(RemoveFirst(s, h)) = ToSet(s) \ {h}
<1>1. PICK i \in DOMAIN s : s[i] = h
  BY DEF ToSet
<1>2. DOMAIN s = 1 .. Len(s)
  OBVIOUS
<1>3. {k \in 1 .. Len(s) : s[k] = h} = {i}
  BY <1>1, <1>2 DEF Distinct
<1>4. SelectInSeq(s, LAMBDA v : v = h) = i
  <2>1. i \in Int
    BY <1>1
  <2>2. Min({i}) = i
    BY <2>1 DEF Min
  <2>3. QED
    BY <1>3, <2>2 DEF SelectInSeq
<1>5. RemoveFirst(s, h) = RemoveAt(s, i)
  BY <1>1, <1>2, <1>4 DEF RemoveFirst
<1>6. PICK r : r = RemoveAt(s, i)
  OBVIOUS
<1>7. /\ r \in Seq(S) /\ Len(r) = Len(s) - 1
      /\ \A k \in 1 .. Len(s) - 1 : r[k] = IF k < i THEN s[k] ELSE s[k + 1]
  BY <1>6, RemoveAtFacts
<1>8. Distinct(r)
  <2> SUFFICES ASSUME NEW k \in DOMAIN r, NEW m \in DOMAIN r, r[k] = r[m]
               PROVE  k = m
    BY DEF Distinct
  <2>1. k \in 1 .. Len(s) - 1 /\ m \in 1 .. Len(s) - 1
    BY <1>7
  <2>2. PICK a, b : /\ a = (IF k < i THEN k ELSE k + 1)
                    /\ b = (IF m < i THEN m ELSE m + 1)
    OBVIOUS
  <2>3. a \in DOMAIN s /\ b \in DOMAIN s /\ s[a] = s[b]
    <3>1. a \in DOMAIN s /\ b \in DOMAIN s
      BY <1>2, <2>1, <2>2
    <3>2. r[k] = s[a] /\ r[m] = s[b]
      BY <1>7, <2>1, <2>2
    <3>3. QED
      BY <3>1, <3>2
  <2>4. a = b
    BY <2>3 DEF Distinct
  <2>5. QED
    BY <1>1, <1>2, <2>1, <2>2, <2>4
<1>9. ToSet(r) = ToSet(s) \ {h}
  <2>1. ASSUME NEW k \in ToSet(r)
        PROVE  k \in ToSet(s) \ {h}
    <3>1. PICK m \in 1 .. Len(s) - 1 : r[m] = k
      BY <1>7, <2>1 DEF ToSet
    <3>2. PICK a : a = (IF m < i THEN m ELSE m + 1)
      OBVIOUS
    <3>3. a \in DOMAIN s /\ s[a] = k /\ a # i
      BY <1>1, <1>2, <1>7, <3>1, <3>2
    <3>4. QED
      BY <1>1, <3>3 DEF ToSet, Distinct
  <2>2. ASSUME NEW k \in ToSet(s) \ {h}
        PROVE  k \in ToSet(r)
    <3>1. PICK m \in DOMAIN s : s[m] = k /\ m # i
      BY <1>1, <2>2 DEF ToSet
    <3>2. \E n \in DOMAIN r : r[n] = k
      BY <1>6, <3>1, RemoveAtKeeps
    <3>3. QED
      BY <3>2 DEF ToSet
  <2>3. QED
    BY <2>1, <2>2
<1>10. QED
  BY <1>5, <1>6, <1>7, <1>8, <1>9

(***************************************************************************)
(* The frames of the call stack                                            *)
(***************************************************************************)
TodoLists ==
  {<< >>} \cup UNION {{SubSeq(l, i, Len(l)) : i \in DOMAIN l} : l \in AgentLists}

TickFrames ==
  [kind : {"tick"}, at : {"loop", "start", "run", "failed"},
   job : {0} \cup JobIds, todo : TodoLists, left : 0 .. Iterations]
PublishFrames == [kind : {"publish"}, name : EventNames, todo : Seq(Handlers)]
HandlerFrames == [kind : {"handler"}, name : Names, handler : Handlers]
CycleFrames   == [kind : {"cycle"}, agent : Agents]

\* A frame is one of four kinds.
LEMMA FrameKinds ==
  /\ Frames = TickFrames \cup PublishFrames \cup HandlerFrames \cup CycleFrames
  /\ \A f \in Frames :
       /\ f.kind \in {"tick", "publish", "handler", "cycle"}
       /\ f.kind = "tick" => f \in TickFrames
       /\ f.kind = "publish" => f \in PublishFrames
       /\ f.kind = "handler" => f \in HandlerFrames
       /\ f.kind = "cycle" => f \in CycleFrames
<1>1. Frames = TickFrames \cup PublishFrames \cup HandlerFrames \cup CycleFrames
  BY DEF Frames, TickFrames, TodoLists, PublishFrames, HandlerFrames, CycleFrames
<1>2. QED
  BY <1>1 DEF TickFrames, PublishFrames, HandlerFrames, CycleFrames

\* What a tick has yet to do is the end of a list of agents.
LEMMA SuffixIsTodo ==
  ASSUME NEW l \in AgentLists, NEW i \in DOMAIN l
  PROVE  SubSeq(l, i, Len(l)) \in TodoLists
<1> DEFINE S == {SubSeq(l, j, Len(l)) : j \in DOMAIN l}
<1>1. SubSeq(l, i, Len(l)) \in S
  OBVIOUS
<1>2. S \in {{SubSeq(k, j, Len(k)) : j \in DOMAIN k} : k \in AgentLists}
  OBVIOUS
<1> HIDE DEF S
<1>3. QED
  BY <1>1, <1>2, Zenon DEF TodoLists

\* At first it is the whole list,
LEMMA ListsAreSuffixes ==
  ASSUME NEW l \in AgentLists
  PROVE  l \in TodoLists /\ l # << >> /\ l \in Seq(Agents)
<1>1. l \in Seq(Agents) /\ l # << >>
  BY SchedulerAssumption
<1>2. SubSeq(l, 1, Len(l)) = l /\ 1 \in DOMAIN l
  BY <1>1, SubSeqFull
<1>3. QED
  BY <1>1, <1>2, SuffixIsTodo

\* and one agent less after another.
LEMMA TailsAreSuffixes ==
  ASSUME NEW t \in TodoLists, t # << >>
  PROVE  Tail(t) \in TodoLists /\ Head(t) \in Agents
<1>0. PICK l \in AgentLists : \E i \in DOMAIN l : t = SubSeq(l, i, Len(l))
  BY DEF TodoLists
<1>1. PICK i \in DOMAIN l : t = SubSeq(l, i, Len(l))
  BY <1>0
<1>2. l \in Seq(Agents) /\ Len(l) \in Nat /\ i \in 1 .. Len(l) /\ Len(l) \in i .. Len(l)
  BY <1>1, ListsAreSuffixes
<1>3. Head(t) = l[i] /\ Tail(t) = SubSeq(l, i + 1, Len(l))
  BY <1>1, <1>2, HeadTailOfSubSeq
<1>4. CASE i < Len(l)
  <2>1. i + 1 \in DOMAIN l
    BY <1>2, <1>4
  <2>2. QED
    <3>1. SubSeq(l, i + 1, Len(l)) \in TodoLists
      BY <2>1, SuffixIsTodo
    <3>2. l[i] \in Agents
      BY <1>2
    <3>3. QED
      BY <1>3, <3>1, <3>2
<1>5. CASE i = Len(l)
  <2>1. SubSeq(l, i + 1, Len(l)) = << >>
    BY <1>2, <1>5, SubSeqEmpty
  <2>2. QED
    BY <1>2, <1>3, <2>1 DEF TodoLists
<1>6. QED
  BY <1>2, <1>4, <1>5

(***************************************************************************)
(* What a frame is, and how the stack moves                                *)
(***************************************************************************)
\* What a frame is on its own: a tick has cycles to go, and at the top of its
\* loop no job; the handlers to call are of an event that has any.
Sound(f) ==
  /\ f.kind = "tick" =>
       /\ f.at = "run" => f.left >= 1 /\ (f.left < Iterations => f.todo # << >>)
       /\ f.at = "start" => f.left = Iterations
       /\ f.at = "loop" => f.job = 0
  /\ f.kind = "publish" =>
       /\ f.todo # << >> => f.name \in Names
       /\ Distinct(f.todo)

\* What a frame is to the one that it called: a handler is called by the
\* publication of its event, which has it behind itself; a job that runs has
\* called a cycle, of the agent whose turn it is.
Called(f, g) ==
  /\ g.kind = "handler" =>
       /\ f.kind = "publish" /\ f.name = g.name
       /\ g.handler \notin ToSet(f.todo)
  /\ f.kind = "tick" /\ f.at = "run" =>
       /\ g.kind = "cycle"
       /\ f.left < Iterations => g.agent = Head(f.todo)

StackSound ==
  /\ \A i \in DOMAIN stack : Sound(stack[i])
  /\ \A i \in DOMAIN stack : i > 1 => Called(stack[i - 1], stack[i])
  /\ stack # << >> => stack[1].kind # "handler"

\* An exception never reaches a job that runs; a job that goes on finds the
\* agent of the cycle before idle or in error.
TopSound ==
  stack # << >> /\ Top.kind = "tick" /\ Top.at = "run" =>
    /\ ~raising
    /\ Top.left < Iterations => status[Head(Top.todo)] \in {"IDLE", "ERROR"}

CountsOK ==
  /\ jobs \in 0 .. MaxJobs /\ handlers \in 0 .. MaxHandlers
  /\ \A n \in Names :
       /\ Distinct(subscribers[n])
       /\ \A i \in DOMAIN subscribers[n] : subscribers[n][i].id <= handlers

FramesInv == TypeOK /\ CountsOK /\ StackSound /\ TopSound

\* How the stack moves.
Pushed(g) ==
  /\ g \in Frames /\ Sound(g) /\ g.kind \in {"tick", "publish"}
  /\ g.kind = "tick" => g.at = "loop"
  /\ stack # << >> => Top.kind \in {"handler", "cycle"}
  /\ stack' = Append(stack, g)

Popped == stack # << >> /\ stack' = Front(stack)

Replaced(f) ==
  /\ f \in Frames /\ Sound(f)
  /\ stack # << >> /\ f.kind = Top.kind /\ f.kind \in {"tick", "publish"}
  /\ stack' = Append(Front(stack), f)

CalledFrom(f, g) ==
  /\ f \in Frames /\ g \in Frames /\ Sound(f) /\ Sound(g) /\ Called(f, g)
  /\ stack # << >> /\ f.kind = Top.kind /\ f.kind \in {"tick", "publish"}
  /\ g.kind # "tick"
  /\ stack' = Front(stack) \o <<f, g>>

\* Frames below position n stay as they are.
Below(n) == \A i \in 1 .. n - 1 : stack'[i] = stack[i]

\* Each move keeps the frames below it, and the stack sound.
LEMMA PushFacts ==
  ASSUME FramesInv, NEW g, Pushed(g)
  PROVE  /\ stack' \in Seq(Frames) /\ Len(stack') = Len(stack) + 1
         /\ Below(Len(stack) + 1) /\ stack'[Len(stack) + 1] = g
         /\ StackSound'
<1>1. stack \in Seq(Frames) /\ Len(stack) \in Nat
  BY DEF FramesInv, TypeOK
<1>2. /\ stack' \in Seq(Frames) /\ Len(stack') = Len(stack) + 1
      /\ Below(Len(stack) + 1) /\ stack'[Len(stack) + 1] = g
  BY <1>1 DEF Pushed, Below
<1>3. DOMAIN stack' = 1 .. Len(stack) + 1 /\ DOMAIN stack = 1 .. Len(stack)
  BY <1>1, <1>2
<1>4. \A i \in DOMAIN stack' : Sound(stack'[i])
  BY <1>1, <1>2, <1>3 DEF FramesInv, StackSound, Pushed, Below
<1>5. stack # << >> => Called(stack[Len(stack)], g)
  BY DEF Pushed, Called, Top, Last
<1>6. ASSUME NEW i \in DOMAIN stack', i > 1
      PROVE  Called(stack'[i - 1], stack'[i])
  <2>1. CASE i <= Len(stack)
    BY <1>1, <1>2, <1>3, <1>6, <2>1 DEF FramesInv, StackSound, Below
  <2>2. CASE i = Len(stack) + 1
    <3>1. stack # << >> /\ stack'[i - 1] = stack[Len(stack)]
      BY <1>1, <1>2, <1>3, <1>6, <2>2 DEF Below
    <3>2. QED
      BY <1>2, <1>5, <2>2, <3>1
  <2>3. QED
    BY <1>1, <1>3, <1>6, <2>1, <2>2
<1>7. stack'[1].kind # "handler"
  <2>1. CASE stack = << >>
    BY <1>2, <2>1 DEF Pushed
  <2>2. CASE stack # << >>
    BY <1>1, <1>2, <2>2 DEF FramesInv, StackSound, Below
  <2>3. QED
    BY <2>1, <2>2
<1>8. QED
  BY <1>2, <1>4, <1>6, <1>7 DEF StackSound

LEMMA PopFacts ==
  ASSUME FramesInv, Popped
  PROVE  /\ stack' \in Seq(Frames) /\ Len(stack') = Len(stack) - 1 /\ Len(stack) >= 1
         /\ Len(stack) \in Nat /\ Top = stack[Len(stack)] /\ Top \in Frames
         /\ Below(Len(stack)) /\ StackSound'
<1>1. stack \in Seq(Frames) /\ Len(stack) \in Nat
  BY DEF FramesInv, TypeOK
<1>2. /\ stack' \in Seq(Frames) /\ Len(stack') = Len(stack) - 1 /\ Len(stack) >= 1
      /\ Top = stack[Len(stack)] /\ Top \in Frames
      /\ Below(Len(stack))
  <2>1. stack # << >> /\ stack' = Front(stack)
    BY DEF Popped
  <2>2. QED
    BY <1>1, <2>1, FrontFacts DEF Below, Top
<1>3. /\ DOMAIN stack' = 1 .. Len(stack) - 1 /\ DOMAIN stack = 1 .. Len(stack)
      /\ stack' # << >> => 1 \in DOMAIN stack'
  BY <1>1, <1>2
<1>4. StackSound'
  <2>1. \A i \in DOMAIN stack' : i \in DOMAIN stack /\ stack'[i] = stack[i]
    BY <1>1, <1>2, <1>3 DEF Below
  <2>2. \A i \in DOMAIN stack' : i > 1 => i - 1 \in DOMAIN stack'
    BY <1>1, <1>3
  <2>3. stack' # << >> => stack # << >> /\ stack'[1] = stack[1]
    BY <1>1, <1>2, <1>3, <2>1
  <2>4. QED
    BY <2>1, <2>2, <2>3 DEF FramesInv, StackSound
<1>5. QED
  BY <1>1, <1>2, <1>4

LEMMA ReplaceFacts ==
  ASSUME FramesInv, NEW f, Replaced(f)
  PROVE  /\ stack' \in Seq(Frames) /\ Len(stack') = Len(stack) /\ Len(stack) >= 1
         /\ Len(stack) \in Nat /\ Top = stack[Len(stack)] /\ Top \in Frames
         /\ Below(Len(stack)) /\ stack'[Len(stack)] = f /\ StackSound'
<1>1. stack \in Seq(Frames) /\ Len(stack) \in Nat
  BY DEF FramesInv, TypeOK
<1>2. /\ stack' \in Seq(Frames) /\ Len(stack') = Len(stack) /\ Len(stack) >= 1
      /\ Top = stack[Len(stack)] /\ Top \in Frames
      /\ Below(Len(stack)) /\ stack'[Len(stack)] = f
  <2>1. stack # << >> /\ f \in Frames /\ stack' = Append(Front(stack), f)
    BY DEF Replaced
  <2>2. /\ stack' \in Seq(Frames) /\ Len(stack') = Len(stack) /\ stack'[Len(stack)] = f
        /\ Below(Len(stack))
    BY <1>1, <2>1, BecomeFacts DEF Below
  <2>3. Len(stack) >= 1 /\ Top = stack[Len(stack)] /\ Top \in Frames
    BY <1>1, <2>1, FrontFacts DEF Top
  <2>4. QED
    BY <2>2, <2>3
<1>3. DOMAIN stack' = 1 .. Len(stack) /\ DOMAIN stack = 1 .. Len(stack)
  BY <1>1, <1>2
<1>4. \A i \in DOMAIN stack' : Sound(stack'[i])
  BY <1>1, <1>2, <1>3 DEF FramesInv, StackSound, Replaced, Below
<1>5. ASSUME NEW i \in DOMAIN stack', i > 1
      PROVE  Called(stack'[i - 1], stack'[i])
  <2>1. Called(stack[i - 1], stack[i]) /\ stack'[i - 1] = stack[i - 1]
    BY <1>1, <1>2, <1>3, <1>5 DEF FramesInv, StackSound, Below
  <2>2. CASE i < Len(stack)
    BY <1>1, <1>2, <1>3, <2>1, <2>2 DEF Below
  <2>3. CASE i = Len(stack)
    BY <1>2, <2>1, <2>3 DEF Replaced, Called
  <2>4. QED
    BY <1>1, <1>3, <2>2, <2>3
<1>6. stack'[1].kind # "handler"
  BY <1>1, <1>2 DEF FramesInv, StackSound, Below, Replaced
<1>7. QED
  BY <1>1, <1>2, <1>4, <1>5, <1>6 DEF StackSound

LEMMA CallFacts ==
  ASSUME FramesInv, NEW f, NEW g, CalledFrom(f, g)
  PROVE  /\ stack' \in Seq(Frames) /\ Len(stack') = Len(stack) + 1 /\ Len(stack) >= 1
         /\ Len(stack) \in Nat /\ Top = stack[Len(stack)] /\ Top \in Frames
         /\ Below(Len(stack)) /\ stack'[Len(stack)] = f /\ stack'[Len(stack) + 1] = g
         /\ StackSound'
<1>1. stack \in Seq(Frames) /\ Len(stack) \in Nat
  BY DEF FramesInv, TypeOK
<1>2. /\ stack' \in Seq(Frames) /\ Len(stack') = Len(stack) + 1 /\ Len(stack) >= 1
      /\ Top = stack[Len(stack)] /\ Top \in Frames
      /\ Below(Len(stack)) /\ stack'[Len(stack)] = f /\ stack'[Len(stack) + 1] = g
  BY <1>1, FrontFacts, CallTopFacts DEF CalledFrom, Below, Top
<1>3. DOMAIN stack' = 1 .. Len(stack) + 1 /\ DOMAIN stack = 1 .. Len(stack)
  BY <1>1, <1>2
<1>4. \A i \in DOMAIN stack' : Sound(stack'[i])
  <2> SUFFICES ASSUME NEW i \in DOMAIN stack'
               PROVE  Sound(stack'[i])
    OBVIOUS
  <2>1. CASE i < Len(stack)
    BY <1>1, <1>2, <1>3, <2>1 DEF FramesInv, StackSound, Below
  <2>2. CASE i = Len(stack) \/ i = Len(stack) + 1
    BY <1>2, <2>2 DEF CalledFrom
  <2>3. QED
    BY <1>1, <1>3, <2>1, <2>2
<1>5. ASSUME NEW i \in DOMAIN stack', i > 1
      PROVE  Called(stack'[i - 1], stack'[i])
  <2>1. CASE i = Len(stack) + 1
    <3>1. i - 1 = Len(stack)
      BY <1>1, <2>1
    <3>2. QED
      BY <1>2, <2>1, <3>1 DEF CalledFrom
  <2>2. CASE i <= Len(stack)
    <3>1. Called(stack[i - 1], stack[i]) /\ stack'[i - 1] = stack[i - 1]
      BY <1>1, <1>2, <1>3, <1>5, <2>2 DEF FramesInv, StackSound, Below
    <3>2. CASE i < Len(stack)
      BY <1>1, <1>2, <1>3, <3>1, <3>2 DEF Below
    <3>3. CASE i = Len(stack)
      BY <1>2, <3>1, <3>3 DEF CalledFrom, Called
    <3>4. QED
      BY <1>1, <1>3, <2>2, <3>2, <3>3
  <2>3. QED
    BY <1>1, <1>3, <2>1, <2>2
<1>6. stack'[1].kind # "handler"
  <2>1. PICK n : n = Len(stack)
    OBVIOUS
  <2>2. n \in Nat /\ n >= 1
    BY <1>1, <1>2, <2>1
  <2>3. CASE n = 1
    BY <1>2, <2>1, <2>3 DEF CalledFrom
  <2>4. CASE n # 1
    <3>1. 1 \in 1 .. n - 1
      BY <2>2, <2>4
    <3>2. stack'[1] = stack[1] /\ stack # << >>
      BY <1>2, <2>1, <3>1 DEF Below, CalledFrom
    <3>3. QED
      BY <3>2 DEF FramesInv, StackSound
  <2>5. QED
    BY <2>3, <2>4
<1>7. QED
  BY <1>1, <1>2, <1>4, <1>5, <1>6 DEF StackSound

(***************************************************************************)
(* What each action does to the stack                                      *)
(***************************************************************************)
\* The frame on top is one of the stack.
LEMMA TopFacts ==
  ASSUME FramesInv, stack # << >>
  PROVE  /\ stack \in Seq(Frames) /\ Len(stack) \in Nat /\ Len(stack) >= 1
         /\ Top = stack[Len(stack)] /\ Top \in Frames /\ Sound(Top)
         /\ Top.kind \in {"tick", "publish", "handler", "cycle"}
<1>1. stack \in Seq(Frames)
  BY DEF FramesInv, TypeOK
<1>2. /\ Len(stack) \in Nat /\ Len(stack) >= 1
      /\ Top = stack[Len(stack)] /\ Top \in Frames
  BY <1>1, FrontFacts DEF Top
<1>3. Sound(Top)
  BY <1>1, <1>2 DEF FramesInv, StackSound
<1>4. QED
  BY <1>1, <1>2, <1>3, FrameKinds

\* A publication takes the subscribers as its frame.
LEMMA PublishingFacts ==
  ASSUME FramesInv, NEW name \in EventNames
  PROVE  /\ Publishing(name) \in Frames /\ Sound(Publishing(name))
         /\ Publishing(name).kind = "publish" /\ Publishing(name).name = name
<1>1. PICK t : t = IF name \in Names THEN subscribers[name] ELSE << >>
  OBVIOUS
<1>2. t \in Seq(Handlers) /\ Distinct(t) /\ (t # << >> => name \in Names)
  BY <1>1 DEF FramesInv, TypeOK, CountsOK, Distinct
<1>3. PICK f : f = [kind |-> "publish", name |-> name, todo |-> t]
  OBVIOUS
<1>4. f \in PublishFrames /\ f.kind = "publish" /\ f.name = name /\ f.todo = t
  BY <1>2, <1>3 DEF PublishFrames
<1>5. Publishing(name) = f
  BY <1>1, <1>3 DEF Publishing
<1>6. Sound(f)
  BY <1>2, <1>4 DEF Sound
<1>7. QED
  BY <1>4, <1>5, <1>6, FrameKinds

LEMMA TickFrameFacts ==
  ASSUME NEW at \in {"loop", "start", "run", "failed"}, NEW job \in {0} \cup JobIds,
         NEW todo \in TodoLists, NEW left \in 0 .. Iterations
  PROVE  LET f == TickFrame(at, job, todo, left)
         IN  /\ f \in Frames /\ f.kind = "tick" /\ f.at = at /\ f.job = job
             /\ f.todo = todo /\ f.left = left
<1>1. TickFrame(at, job, todo, left) \in TickFrames
  BY DEF TickFrame, TickFrames
<1>2. QED
  BY <1>1, FrameKinds DEF TickFrame

LEMMA LoopFrame ==
  LET f == TickFrame("loop", 0, << >>, 0)
  IN  f \in Frames /\ Sound(f) /\ f.kind = "tick" /\ f.at = "loop" /\ f.job = 0
<1>1. << >> \in TodoLists /\ 0 \in 0 .. Iterations
  BY SchedulerAssumption DEF TodoLists
<1>2. QED
  BY <1>1, TickFrameFacts DEF Sound

\* Foreign code calls while nothing is raised.
LEMMA ForeignCalls ==
  ASSUME FramesInv, Foreign
  PROVE  raising = FALSE /\ (stack # << >> => Top.kind \in {"handler", "cycle"})
BY DEF Foreign, FramesInv, TypeOK

\* The operations of the scheduler push their publication.
LEMMA Announced ==
  ASSUME FramesInv, Foreign, NEW name \in EventNames, Publish(name)
  PROVE  Pushed(Publishing(name))
BY ForeignCalls, PublishingFacts DEF Publish, Calls, Pushed

LEMMA TickCalled ==
  ASSUME FramesInv, Tick
  PROVE  Pushed(TickFrame("loop", 0, << >>, 0))
BY ForeignCalls, LoopFrame DEF Tick, Call, Calls, Pushed

\* CallHandler, TakeJob, RunCycle and FinishJob let the top call.
LEMMA HandlerCalled ==
  ASSUME FramesInv, CallHandler
  PROVE  LET f == [Top EXCEPT !.todo = Tail(@)]
             h == [kind |-> "handler", name |-> Top.name, handler |-> Head(Top.todo)]
         IN  /\ CalledFrom(f, h)
             /\ f.kind = "publish" /\ f.name = Top.name /\ f.todo = Tail(Top.todo)
             /\ Top.name \in Names /\ Head(Top.todo) \in Handlers
             /\ Head(Top.todo) \in ToSet(Top.todo)
             /\ ToSet(Tail(Top.todo)) \subseteq ToSet(Top.todo)
<1>1. stack # << >> /\ Top.kind = "publish" /\ Top.todo # << >>
  BY DEF CallHandler, Running
<1>2. Top \in PublishFrames /\ Sound(Top)
  BY <1>1, TopFacts, FrameKinds
<1>3. PICK n, t : n = Top.name /\ t = Top.todo
  OBVIOUS
<1>4. /\ t \in Seq(Handlers) /\ t # << >> /\ n \in EventNames /\ n \in Names
      /\ Distinct(t) /\ Top = [kind |-> "publish", name |-> n, todo |-> t]
  BY <1>1, <1>2, <1>3 DEF PublishFrames, Sound
<1>5. PICK u, h : u = Tail(t) /\ h = Head(t)
  OBVIOUS
<1>6. /\ u \in Seq(Handlers) /\ h \in Handlers /\ Len(u) = Len(t) - 1 /\ Len(t) \in Nat
      /\ h = t[1] /\ Len(t) >= 1 /\ \A i \in 1 .. Len(t) - 1 : u[i] = t[i + 1]
  BY <1>4, <1>5
<1>7. Distinct(u) /\ h \notin ToSet(u) /\ h \in ToSet(t) /\ ToSet(u) \subseteq ToSet(t)
  <2>1. \A i \in DOMAIN u : i + 1 \in DOMAIN t /\ u[i] = t[i + 1] /\ i + 1 # 1
    BY <1>4, <1>6
  <2>2. Distinct(u)
    BY <1>4, <1>6, <2>1 DEF Distinct
  <2>3. 1 \in DOMAIN t
    BY <1>4, <1>6
  <2>4. \A i \in DOMAIN u : u[i] # h
    <3>1. \A i \in DOMAIN t : t[i] = t[1] => i = 1
      BY <1>4, <2>3 DEF Distinct
    <3>2. QED
      BY <1>6, <2>1, <3>1
  <2>5. h \notin ToSet(u) /\ ToSet(u) \subseteq ToSet(t)
    BY <2>1, <2>4 DEF ToSet
  <2>6. h \in ToSet(t)
    BY <1>6, <2>3 DEF ToSet
  <2>7. QED
    BY <2>2, <2>5, <2>6
<1>8. PICK f, g : /\ f = [kind |-> "publish", name |-> n, todo |-> u]
                  /\ g = [kind |-> "handler", name |-> n, handler |-> h]
  OBVIOUS
<1>9. /\ f \in PublishFrames /\ g \in HandlerFrames
      /\ f.kind = "publish" /\ f.name = n /\ f.todo = u
      /\ g.kind = "handler" /\ g.name = n /\ g.handler = h
  BY <1>4, <1>6, <1>8 DEF PublishFrames, HandlerFrames
<1>10. Sound(f) /\ Sound(g) /\ Called(f, g)
  BY <1>4, <1>7, <1>9 DEF Sound, Called
<1>11. [Top EXCEPT !.todo = Tail(@)] = f
  <2>1. PICK r : r = Top
    OBVIOUS
  <2>2. [r EXCEPT !.todo = u] = f
    BY <1>4, <1>8, <2>1
  <2>3. Tail(Top.todo) = u
    BY <1>3, <1>5
  <2>4. QED
    BY <2>1, <2>2, <2>3
<1>12. stack' = Front(stack) \o <<f, g>>
  BY <1>3, <1>5, <1>8, <1>11 DEF CallHandler, BecomeAndCall
<1>13. CalledFrom(f, g)
  BY <1>1, <1>9, <1>10, <1>12, FrameKinds DEF CalledFrom
<1>14. QED
  BY <1>3, <1>4, <1>5, <1>6, <1>7, <1>8, <1>9, <1>11, <1>13

LEMMA JobTaken ==
  ASSUME FramesInv, TakeJob
  PROVE  LET f == TickFrame("start", Head(queue).id, Head(queue).agents, Iterations)
         IN  /\ CalledFrom(f, Publishing("job_started"))
             /\ f.kind = "tick" /\ f.at = "start" /\ f.job = Head(queue).id
             /\ f.job \in JobIds /\ Top.job = 0
             /\ queue # << >> /\ queue \in Seq(Jobs)
<1>1. stack # << >> /\ Top.kind = "tick" /\ Top.at = "loop" /\ queue # << >>
  BY DEF TakeJob, Running
<1>2. PICK j : j = Head(queue)
  OBVIOUS
<1>3. queue \in Seq(Jobs) /\ j \in Jobs
  BY <1>1, <1>2 DEF FramesInv, TypeOK
<1>4. j.id \in JobIds /\ j.agents \in AgentLists
  BY <1>3 DEF Jobs
<1>5. PICK f : f = TickFrame("start", j.id, j.agents, Iterations)
  OBVIOUS
<1>6. Iterations \in 0 .. Iterations /\ j.agents \in TodoLists
  BY <1>4, SchedulerAssumption, ListsAreSuffixes
<1>7. /\ f \in Frames /\ f.kind = "tick" /\ f.at = "start" /\ f.job = j.id
      /\ f.left = Iterations
  <2>1. f = [kind |-> "tick", at |-> "start", job |-> j.id, todo |-> j.agents,
             left |-> Iterations]
    BY <1>5 DEF TickFrame
  <2>2. f \in TickFrames
    BY <1>4, <1>6, <2>1 DEF TickFrames
  <2>3. QED
    BY <2>1, <2>2, FrameKinds
<1>8. PICK g : g = Publishing("job_started")
  OBVIOUS
<1>9. g \in Frames /\ Sound(g) /\ g.kind = "publish"
  BY <1>8, PublishingFacts DEF EventNames
<1>10. Sound(f) /\ Called(f, g)
  BY <1>7, <1>9 DEF Sound, Called
<1>11. stack' = Front(stack) \o <<f, g>>
  BY <1>2, <1>5, <1>8 DEF TakeJob, BecomeAndCall
<1>12. CalledFrom(f, g)
  BY <1>1, <1>7, <1>9, <1>10, <1>11 DEF CalledFrom
<1>13. Top.job = 0
  BY <1>1, TopFacts DEF Sound
<1>14. QED
  BY <1>1, <1>2, <1>3, <1>4, <1>5, <1>7, <1>8, <1>12, <1>13

LEMMA JobStarted ==
  ASSUME FramesInv, StartJob
  PROVE  LET f == [Top EXCEPT !.at = "run"]
         IN  /\ Replaced(f) /\ f.kind = "tick" /\ f.at = "run" /\ f.job = Top.job
             /\ f.left = Iterations
<1>1. stack # << >> /\ Top.kind = "tick" /\ Top.at = "start"
  BY DEF StartJob, Running
<1>2. Top \in TickFrames /\ Sound(Top)
  BY <1>1, TopFacts, FrameKinds
<1>3. PICK f : f = [Top EXCEPT !.at = "run"]
  OBVIOUS
<1>4. /\ f \in TickFrames /\ f.kind = "tick" /\ f.at = "run" /\ f.job = Top.job
      /\ f.left = Top.left /\ f.todo = Top.todo
  BY <1>2, <1>3 DEF TickFrames
<1>5. f.left = Iterations /\ Iterations \in Nat /\ Iterations >= 1
  BY <1>1, <1>2, <1>4, SchedulerAssumption DEF Sound
<1>6. Sound(f)
  BY <1>4, <1>5 DEF Sound
<1>7. Replaced(f)
  BY <1>1, <1>3, <1>4, <1>6, FrameKinds DEF Replaced, StartJob, Become
<1>8. QED
  BY <1>3, <1>4, <1>5, <1>7

\* A tick in its job has a cycle to go.
LEMMA JobRuns ==
  ASSUME FramesInv, Running("tick"), Top.at = "run"
  PROVE  /\ stack # << >> /\ Top \in TickFrames /\ Top.kind = "tick"
         /\ Sound(Top) /\ Top.left \in 1 .. Iterations /\ Top.todo \in TodoLists
         /\ Top.job \in {0} \cup JobIds
<1>1. stack # << >> /\ Top.kind = "tick"
  BY DEF Running
<1>2. Top \in TickFrames /\ Sound(Top)
  BY <1>1, TopFacts, FrameKinds
<1>3. QED
  BY <1>1, <1>2, SchedulerAssumption DEF Sound, TickFrames

\* The three ways of RunCycle: a cycle begins,
LEMMA CycleBegun ==
  ASSUME FramesInv, RunCycle, MayStep(Head(Top.todo))
  PROVE  LET a == Head(Top.todo)
         IN  /\ a \in Agents
             /\ \E f : /\ CalledFrom(f, [kind |-> "cycle", agent |-> a])
                       /\ f.kind = "tick" /\ f.at = "run" /\ f.job = Top.job
             /\ Top.kind = "tick"
             /\ status[a] = "IDLE" /\ status' = [status EXCEPT ![a] = "RUNNING"]
             /\ UNCHANGED <<raising, history>>
<1>1. Running("tick") /\ Top.at = "run" /\ Top.todo # << >>
  BY DEF RunCycle
<1>2. /\ stack # << >> /\ Top \in TickFrames /\ Top.kind = "tick"
      /\ Sound(Top) /\ Top.left \in 1 .. Iterations /\ Top.todo \in TodoLists
  BY <1>1, JobRuns
<1>3. Head(Top.todo) \in Agents /\ Tail(Top.todo) \in TodoLists
  BY <1>1, <1>2, TailsAreSuffixes
<1>4. status[Head(Top.todo)] = "IDLE" /\ ~Refused(Head(Top.todo))
  BY DEF MayStep, Refused
<1>5. PICK f : f = IF Top.left = 1 THEN [Top EXCEPT !.todo = Tail(@), !.left = Iterations]
                   ELSE [Top EXCEPT !.left = @ - 1]
  OBVIOUS
<1>6. PICK g : g = [kind |-> "cycle", agent |-> Head(Top.todo)]
  OBVIOUS
<1>7. /\ stack' = Front(stack) \o <<f, g>> /\ UNCHANGED <<raising, history>>
      /\ status' = [status EXCEPT ![Head(Top.todo)] = "RUNNING"]
  BY <1>4, <1>5, <1>6 DEF RunCycle, MayStep, BecomeAndCall
<1>8. /\ f \in TickFrames /\ f.kind = "tick" /\ f.at = "run" /\ f.job = Top.job
      /\ f.left \in 1 .. Iterations /\ (f.left < Iterations => f.todo = Top.todo)
  <2>1. Iterations \in Nat /\ Iterations >= 1
    BY SchedulerAssumption
  <2>2. CASE Top.left = 1
    <3>1. f = [Top EXCEPT !.todo = Tail(@), !.left = Iterations]
      BY <1>5, <2>2
    <3>2. PICK r, t : r = Top /\ t = Tail(r.todo)
      OBVIOUS
    <3>3. f = [r EXCEPT !.todo = t, !.left = Iterations]
      BY <3>1, <3>2
    <3>4. r \in TickFrames /\ t \in TodoLists /\ Iterations \in 0 .. Iterations
      BY <1>2, <1>3, <2>1, <3>2
    <3>5. /\ f \in TickFrames /\ f.kind = "tick" /\ f.at = r.at /\ f.job = r.job
          /\ f.left = Iterations
      BY <3>3, <3>4 DEF TickFrames
    <3>6. QED
      BY <1>1, <2>1, <3>2, <3>5
  <2>3. CASE Top.left # 1
    <3>1. f = [Top EXCEPT !.left = @ - 1]
      BY <1>5, <2>3
    <3>2. Top.left - 1 \in 1 .. Iterations
      BY <1>2, <2>1, <2>3
    <3>3. QED
      BY <1>1, <1>2, <2>1, <3>1, <3>2 DEF TickFrames
  <2>4. QED
    BY <2>2, <2>3
<1>9. g \in CycleFrames /\ g.kind = "cycle" /\ g.agent = Head(Top.todo)
  BY <1>3, <1>6 DEF CycleFrames
<1>10. Sound(f) /\ Sound(g) /\ Called(f, g)
  BY <1>1, <1>8, <1>9, SchedulerAssumption DEF Sound, Called
<1>11. CalledFrom(f, g)
  BY <1>2, <1>7, <1>8, <1>9, <1>10, FrameKinds DEF CalledFrom
<1>12. QED
  BY <1>2, <1>3, <1>4, <1>6, <1>7, <1>8, <1>11

\* or the job fails.
LEMMA JobFailed ==
  ASSUME FramesInv, RunCycle, ~MayStep(Head(Top.todo))
  PROVE  LET a == Head(Top.todo)
             f == [Top EXCEPT !.at = "failed"]
         IN  /\ a \in Agents /\ Top.at = "run" /\ Top.kind = "tick"
             /\ CalledFrom(f, Publishing("job_failed"))
             /\ f.kind = "tick" /\ f.at = "failed" /\ f.job = Top.job
             /\ FailJob
             /\ \/ ~Refused(a) /\ status' = [status EXCEPT ![a] = "ERROR"]
                \/ Refused(a) /\ UNCHANGED status
<1>1. Running("tick") /\ Top.at = "run" /\ Top.todo # << >>
  BY DEF RunCycle
<1>2. /\ stack # << >> /\ Top \in TickFrames /\ Top.kind = "tick"
      /\ Top.todo \in TodoLists
  BY <1>1, JobRuns
<1>3. Head(Top.todo) \in Agents
  BY <1>1, <1>2, TailsAreSuffixes
<1>4. /\ FailJob
      /\ \/ ~Refused(Head(Top.todo)) /\ status' = [status EXCEPT ![Head(Top.todo)] = "ERROR"]
         \/ Refused(Head(Top.todo)) /\ UNCHANGED status
  BY DEF RunCycle
<1>5. PICK f : f = [Top EXCEPT !.at = "failed"]
  OBVIOUS
<1>6. f \in TickFrames /\ f.kind = "tick" /\ f.at = "failed" /\ f.job = Top.job
  BY <1>2, <1>5 DEF TickFrames
<1>7. PICK g : g = Publishing("job_failed")
  OBVIOUS
<1>8. g \in Frames /\ Sound(g) /\ g.kind = "publish"
  BY <1>7, PublishingFacts DEF EventNames
<1>9. Sound(f) /\ Called(f, g)
  BY <1>6, <1>8 DEF Sound, Called
<1>10. CalledFrom(f, g)
  BY <1>2, <1>4, <1>5, <1>6, <1>7, <1>8, <1>9, FrameKinds DEF CalledFrom, FailJob, BecomeAndCall
<1>11. QED
  BY <1>1, <1>2, <1>3, <1>4, <1>5, <1>6, <1>7, <1>10

LEMMA JobFinished ==
  ASSUME FramesInv, FinishJob
  PROVE  LET f == TickFrame("loop", 0, << >>, 0)
         IN  /\ CalledFrom(f, Publishing("job_finished"))
             /\ f.kind = "tick" /\ f.at = "loop" /\ Top.at = "run" /\ Top.kind = "tick"
<1>1. stack # << >> /\ Top.kind = "tick" /\ Top.at = "run"
  BY DEF FinishJob, Running
<1>2. PICK f : f = TickFrame("loop", 0, << >>, 0)
  OBVIOUS
<1>3. f \in Frames /\ Sound(f) /\ f.kind = "tick" /\ f.at = "loop"
  BY <1>2, LoopFrame
<1>4. PICK g : g = Publishing("job_finished")
  OBVIOUS
<1>5. g \in Frames /\ Sound(g) /\ g.kind = "publish"
  BY <1>4, PublishingFacts DEF EventNames
<1>6. Called(f, g)
  BY <1>3, <1>5 DEF Called
<1>7. CalledFrom(f, g)
  BY <1>1, <1>2, <1>3, <1>4, <1>5, <1>6 DEF CalledFrom, FinishJob, BecomeAndCall
<1>8. QED
  BY <1>1, <1>2, <1>3, <1>4, <1>7

(***************************************************************************)
(* Every step keeps FramesInv                                              *)
(***************************************************************************)
\* The frame on top after each move.
LEMMA TopAfter ==
  ASSUME FramesInv
  PROVE  /\ \A g : Pushed(g) => stack' # << >> /\ Top' = g
         /\ \A f : Replaced(f) => stack' # << >> /\ Top' = f
         /\ \A f, g : CalledFrom(f, g) => stack' # << >> /\ Top' = g
         /\ Popped /\ stack' # << >> => Len(stack) > 1 /\ Called(Top', Top)
         /\ Popped /\ Len(stack) > 1 => stack' # << >>
<1>1. ASSUME NEW g, Pushed(g)
      PROVE  stack' # << >> /\ Top' = g
  BY <1>1, PushFacts DEF Top, Last, FramesInv, TypeOK
<1>2. ASSUME NEW f, Replaced(f)
      PROVE  stack' # << >> /\ Top' = f
  BY <1>2, ReplaceFacts DEF Top, Last
<1>3. ASSUME NEW f, NEW g, CalledFrom(f, g)
      PROVE  stack' # << >> /\ Top' = g
  BY <1>3, CallFacts DEF Top, Last
<1>4. ASSUME Popped, stack' # << >>
      PROVE  Len(stack) > 1 /\ Called(Top', Top)
  <2>1. /\ stack' \in Seq(Frames) /\ Len(stack') = Len(stack) - 1 /\ Len(stack) >= 1
        /\ Len(stack) \in Nat /\ Top = stack[Len(stack)]
        /\ Below(Len(stack))
    BY <1>4, PopFacts
  <2>2. Len(stack) > 1
    BY <1>4, <2>1
  <2>3. Top' = stack[Len(stack) - 1]
    BY <2>1, <2>2 DEF Below, Top, Last
  <2>4. Len(stack) \in DOMAIN stack
    BY <2>1, FramesInv DEF FramesInv, TypeOK
  <2>5. QED
    BY <2>1, <2>2, <2>3, <2>4 DEF FramesInv, StackSound
<1>5. ASSUME Popped, Len(stack) > 1
      PROVE  stack' # << >>
  BY <1>5, PopFacts
<1>6. QED
  BY <1>1, <1>2, <1>3, <1>4, <1>5

\* The queue holds jobs, whatever is put on it, run from it or taken off it.
LEMMA QueueTyped ==
  ASSUME FramesInv, Next
  PROVE  queue' \in Seq(Jobs) /\ paused' \in BOOLEAN /\ jobs' \in 0 .. MaxJobs
<1> USE DEF FramesInv, TypeOK, CountsOK
<1>0. MaxJobs \in Nat
  BY SchedulerAssumption
<1>1. ASSUME NEW list \in AgentLists, Schedule(list)
      PROVE  queue' \in Seq(Jobs) /\ paused' \in BOOLEAN /\ jobs' \in 0 .. MaxJobs
  <2>1. jobs + 1 \in 1 .. MaxJobs /\ jobs' = jobs + 1
    BY <1>0, <1>1 DEF Schedule
  <2>2. [id |-> jobs + 1, agents |-> list] \in Jobs
    BY <2>1 DEF Jobs, JobIds
  <2>3. QED
    BY <1>0, <1>1, <2>1, <2>2 DEF Schedule
<1>2. ASSUME NEW i \in 1 .. MaxJobs, Cancel(i)
      PROVE  queue' \in Seq(Jobs) /\ paused' \in BOOLEAN /\ jobs' \in 0 .. MaxJobs
  BY <1>2, RemoveAtFacts DEF Cancel
<1>3. CASE TakeJob
  BY <1>3 DEF TakeJob, bounds
<1>4. CASE Clear
  BY <1>4 DEF Clear
<1>5. CASE Pause \/ Resume
  BY <1>5 DEF Pause, Resume
<1>6. CASE \/ \E list \in AgentLists : StopAll(list)
           \/ Tick
           \/ \E name \in Names : \/ Unsubscribe(name)
                                  \/ \E once \in BOOLEAN : Subscribe(name, once)
           \/ \E a \in Agents : \/ PauseAgent(a) \/ ResumeAgent(a) \/ StopAgent(a)
                                \/ Snapshot(a) \/ Restore(a)
  <2>1. UNCHANGED <<queue, paused, jobs>>
    BY <1>6 DEF StopAll, Tick, Unsubscribe, Subscribe, PauseAgent, ResumeAgent, StopAgent,
             SetStatus, Snapshot, Restore, scheduler
  <2>2. QED
    BY <2>1
<1>7. CASE Bus
  <2>1. UNCHANGED <<queue, paused, jobs>>
    BY <1>7 DEF Bus, CallHandler, Published, PublishRaises, HandlerReturns, HandlerRaises,
             Catch, scheduler, bounds
  <2>2. QED
    BY <2>1
<1>8. CASE TickEnds \/ StartJob \/ RunCycle \/ FinishJob \/ TickReraises \/ TickRaises
           \/ CycleSucceeds \/ CycleFails
  <2>1. UNCHANGED <<queue, paused, jobs>>
    BY <1>8 DEF TickEnds, StartJob, RunCycle, FinishJob, TickReraises, TickRaises,
             CycleSucceeds, CycleFails, scheduler, bounds
  <2>2. QED
    BY <2>1
<1>9. QED
  BY <1>1, <1>2, <1>3, <1>4, <1>5, <1>6, <1>7, <1>8 DEF Next, Operation, Work

\* The end of a list of agents may be stopped as far as the first in error.
LEMMA StatusTyped ==
  ASSUME FramesInv, Next
  PROVE  status' \in [Agents -> Statuses] /\ saved' \in [Agents -> SUBSET Statuses]
<1> USE DEF FramesInv, TypeOK
<1>1. ASSUME NEW list \in AgentLists, StopAll(list)
      PROVE  status' \in [Agents -> Statuses] /\ saved' \in [Agents -> SUBSET Statuses]
  BY <1>1 DEF StopAll, Statuses
<1>2. ASSUME NEW a \in Agents, PauseAgent(a) \/ ResumeAgent(a) \/ StopAgent(a)
      PROVE  status' \in [Agents -> Statuses] /\ saved' \in [Agents -> SUBSET Statuses]
  BY <1>2 DEF PauseAgent, ResumeAgent, StopAgent, SetStatus, Statuses
<1>3. ASSUME NEW a \in Agents, Snapshot(a)
      PROVE  status' \in [Agents -> Statuses] /\ saved' \in [Agents -> SUBSET Statuses]
  BY <1>3 DEF Snapshot
<1>4. ASSUME NEW a \in Agents, Restore(a)
      PROVE  status' \in [Agents -> Statuses] /\ saved' \in [Agents -> SUBSET Statuses]
  <2>1. (CHOOSE s \in saved[a] : TRUE) \in Statuses
    BY <1>4 DEF Restore
  <2>2. QED
    BY <1>4, <2>1 DEF Restore
<1>5. CASE RunCycle
  <2>1. CASE MayStep(Head(Top.todo))
    BY <1>5, <2>1, CycleBegun DEF RunCycle, Statuses
  <2>2. CASE ~MayStep(Head(Top.todo))
    BY <1>5, <2>2, JobFailed DEF RunCycle, Statuses
  <2>3. QED
    BY <2>1, <2>2
<1>6. CASE CycleSucceeds \/ CycleFails
  BY <1>6 DEF CycleSucceeds, CycleFails, Statuses
<1>7. CASE \/ \E list \in AgentLists : Schedule(list)
           \/ \E i \in 1 .. MaxJobs : Cancel(i)
           \/ Clear \/ Pause \/ Resume \/ Tick
           \/ \E name \in Names : \/ Unsubscribe(name)
                                  \/ \E once \in BOOLEAN : Subscribe(name, once)
  <2>1. UNCHANGED agents
    BY <1>7 DEF Schedule, Cancel, Clear, Pause, Resume, Tick, Unsubscribe, Subscribe
  <2>2. QED
    BY <2>1 DEF agents
<1>8. CASE Bus
  <2>1. UNCHANGED agents
    BY <1>8 DEF Bus, CallHandler, Published, PublishRaises, HandlerReturns, HandlerRaises,
             Catch
  <2>2. QED
    BY <2>1 DEF agents
<1>9. CASE TickEnds \/ TakeJob \/ StartJob \/ FinishJob \/ TickReraises \/ TickRaises
  <2>1. UNCHANGED agents
    BY <1>9 DEF TickEnds, TakeJob, StartJob, FinishJob, TickReraises, TickRaises
  <2>2. QED
    BY <2>1 DEF agents
<1>10. QED
  BY <1>1, <1>2, <1>3, <1>4, <1>5, <1>6, <1>7, <1>8, <1>9 DEF Next, Operation, Work

\* A handler that runs was called by the publication below it.
LEMMA HandlerOnTop ==
  ASSUME FramesInv, stack # << >>, Top.kind = "handler"
  PROVE  /\ Top.name \in Names /\ Top.handler \in Handlers
         /\ Len(stack) > 1 /\ Called(stack[Len(stack) - 1], Top)
<1>1. /\ stack \in Seq(Frames) /\ Len(stack) \in Nat /\ Len(stack) >= 1
      /\ Top = stack[Len(stack)] /\ Top \in Frames
  BY TopFacts
<1>2. Top \in HandlerFrames
  BY <1>1, FrameKinds
<1>3. Len(stack) # 1
  BY <1>1 DEF FramesInv, StackSound
<1>4. Len(stack) \in DOMAIN stack /\ Len(stack) > 1
  <2>1. PICK n : n = Len(stack)
    OBVIOUS
  <2>2. n \in Nat /\ n >= 1 /\ n # 1
    BY <1>1, <1>3, <2>1
  <2>3. n > 1 /\ n \in 1 .. n
    BY <2>2
  <2>4. DOMAIN stack = 1 .. n
    BY <1>1, <2>1
  <2>5. QED
    BY <2>1, <2>3, <2>4
<1>5. Called(stack[Len(stack) - 1], stack[Len(stack)])
  BY <1>4 DEF FramesInv, StackSound
<1>6. QED
  BY <1>1, <1>2, <1>4, <1>5 DEF HandlerFrames

\* A subscription comes or goes, or all stay.
LEMMA SubscriptionMoves ==
  ASSUME FramesInv, Next
  PROVE  \/ UNCHANGED <<subscribers, handlers>>
         \/ \E name \in Names, once \in BOOLEAN : Subscribe(name, once)
         \/ /\ UNCHANGED handlers
            /\ \E name \in Names : \E h \in ToSet(subscribers[name]) :
                 subscribers' = Without(name, h)
<1>1. CASE \E name \in Names : Unsubscribe(name)
  BY <1>1 DEF Unsubscribe
<1>2. CASE HandlerReturns
  <2>1. CASE UNCHANGED subscribers
    BY <1>2, <2>1 DEF HandlerReturns, bounds
  <2>2. CASE /\ Contains(subscribers[Top.name], Top.handler)
             /\ subscribers' = Without(Top.name, Top.handler)
    <3>1. Top.name \in Names
      BY <1>2, HandlerOnTop DEF HandlerReturns, Running
    <3>2. Top.handler \in ToSet(subscribers[Top.name])
      BY <2>2 DEF Contains, ToSet
    <3>3. UNCHANGED handlers
      BY <1>2 DEF HandlerReturns, bounds
    <3>4. QED
      BY <2>2, <3>1, <3>2, <3>3
  <2>3. QED
    BY <1>2, <2>1, <2>2 DEF HandlerReturns
<1>3. CASE \/ \E list \in AgentLists : Schedule(list) \/ StopAll(list)
           \/ \E i \in 1 .. MaxJobs : Cancel(i)
           \/ Clear \/ Pause \/ Resume \/ Tick
           \/ \E a \in Agents : \/ PauseAgent(a) \/ ResumeAgent(a) \/ StopAgent(a)
                                \/ Snapshot(a) \/ Restore(a)
  <2>1. UNCHANGED <<subscribers, handlers>>
    BY <1>3 DEF Schedule, StopAll, Cancel, Clear, Pause, Resume, Tick, PauseAgent,
             ResumeAgent, StopAgent, SetStatus, Snapshot, Restore
  <2>2. QED
    BY <2>1
<1>4. CASE CallHandler \/ Published \/ PublishRaises \/ HandlerRaises \/ Catch
  BY <1>4 DEF CallHandler, Published, PublishRaises, HandlerRaises, Catch, bounds
<1>5. CASE Work
  BY <1>5 DEF Work, TickEnds, TakeJob, StartJob, RunCycle, FinishJob, TickReraises,
           TickRaises, CycleSucceeds, CycleFails, bounds
<1>6. QED
  BY <1>1, <1>2, <1>3, <1>4, <1>5 DEF Next, Operation, Bus

LEMMA SubscribersTyped ==
  ASSUME FramesInv, Next
  PROVE  /\ subscribers' \in [Names -> Seq(Handlers)] /\ handlers' \in 0 .. MaxHandlers
         /\ \A n \in Names :
              /\ Distinct(subscribers'[n])
              /\ \A i \in DOMAIN subscribers'[n] : subscribers'[n][i].id <= handlers'
<1> USE DEF FramesInv, TypeOK, CountsOK
<1>0. MaxHandlers \in Nat
  BY SchedulerAssumption
<1>1. CASE UNCHANGED <<subscribers, handlers>>
  BY <1>1
<1>2. ASSUME NEW name \in Names, NEW once \in BOOLEAN, Subscribe(name, once)
      PROVE  /\ subscribers' \in [Names -> Seq(Handlers)] /\ handlers' \in 0 .. MaxHandlers
             /\ \A n \in Names :
                  /\ Distinct(subscribers'[n])
                  /\ \A i \in DOMAIN subscribers'[n] : subscribers'[n][i].id <= handlers'
  <2>1. PICK h : h = [id |-> handlers + 1, once |-> once]
    OBVIOUS
  <2>2. handlers' = handlers + 1 /\ handlers' \in 0 .. MaxHandlers /\ handlers \in Nat
    BY <1>0, <1>2 DEF Subscribe
  <2>3. h \in Handlers /\ h.id = handlers + 1
    BY <1>0, <2>1, <2>2 DEF Handlers
  <2>4. subscribers' = [subscribers EXCEPT ![name] = Append(@, h)]
    BY <1>2, <2>1 DEF Subscribe
  <2>5. subscribers' \in [Names -> Seq(Handlers)]
    BY <2>3, <2>4
  <2>6. ASSUME NEW n \in Names
        PROVE  /\ Distinct(subscribers'[n])
               /\ \A i \in DOMAIN subscribers'[n] : subscribers'[n][i].id <= handlers'
    <3>1. PICK s, k : s = subscribers[n] /\ k = handlers
      OBVIOUS
    <3>2. /\ s \in Seq(Handlers) /\ Distinct(s) /\ k \in Nat
          /\ \A i \in DOMAIN s : s[i].id \in Nat /\ s[i].id <= k
      <4>1. s \in Seq(Handlers) /\ Distinct(s) /\ k \in Nat /\ \A i \in DOMAIN s : s[i].id <= k
        BY <2>2, <3>1
      <4>2. \A i \in DOMAIN s : s[i] \in Handlers
        BY <4>1
      <4>3. \A i \in DOMAIN s : s[i].id \in Nat
        BY <4>2 DEF Handlers
      <4>4. QED
        BY <4>1, <4>3
    <3>3. CASE n # name
      BY <2>2, <2>4, <3>1, <3>2, <3>3
    <3>4. CASE n = name
      <4>1. PICK t : t = Append(s, h)
        OBVIOUS
      <4>2. /\ DOMAIN t = 1 .. Len(s) + 1 /\ DOMAIN s = 1 .. Len(s) /\ Len(s) \in Nat
            /\ t[Len(s) + 1] = h /\ \A i \in 1 .. Len(s) : t[i] = s[i]
        BY <2>3, <3>2, <4>1
      <4>3. h.id = k + 1
        BY <2>3, <3>1
      <4>4. \A i \in DOMAIN s : s[i] # h
        BY <3>2, <4>3
      <4>5. Distinct(t)
        BY <3>2, <4>2, <4>4 DEF Distinct
      <4>6. ASSUME NEW i \in DOMAIN t
            PROVE  t[i].id <= k + 1
        <5>1. CASE i \in DOMAIN s
          <6>1. t[i] = s[i] /\ s[i].id \in Nat /\ s[i].id <= k
            BY <3>2, <4>2, <5>1
          <6>2. QED
            BY <3>2, <6>1
        <5>2. CASE i = Len(s) + 1
          BY <3>2, <4>2, <4>3, <5>2
        <5>3. QED
          BY <4>2, <5>1, <5>2
      <4>7. subscribers'[n] = t
        BY <2>4, <3>1, <3>4, <4>1
      <4>8. QED
        BY <2>2, <3>1, <4>5, <4>6, <4>7
    <3>5. QED
      BY <3>3, <3>4
  <2>7. QED
    BY <2>2, <2>5, <2>6
<1>3. ASSUME NEW name \in Names, NEW h \in ToSet(subscribers[name]), UNCHANGED handlers,
             subscribers' = Without(name, h)
      PROVE  /\ subscribers' \in [Names -> Seq(Handlers)] /\ handlers' \in 0 .. MaxHandlers
             /\ \A n \in Names :
                  /\ Distinct(subscribers'[n])
                  /\ \A i \in DOMAIN subscribers'[n] : subscribers'[n][i].id <= handlers'
  <2>1. PICK s, t : s = subscribers[name] /\ t = RemoveFirst(s, h)
    OBVIOUS
  <2>2. s \in Seq(Handlers) /\ Distinct(s) /\ h \in ToSet(s)
    BY <1>3, <2>1
  <2>3. t \in Seq(Handlers) /\ Distinct(t) /\ ToSet(t) = ToSet(s) \ {h}
    BY <2>1, <2>2, RemoveFirstFacts
  <2>4. subscribers' = [subscribers EXCEPT ![name] = t]
    BY <1>3, <2>1 DEF Without
  <2>5. ASSUME NEW i \in DOMAIN t
        PROVE  t[i].id <= handlers
    <3>1. t[i] \in ToSet(s)
      BY <2>3 DEF ToSet
    <3>2. QED
      BY <2>1, <3>1 DEF ToSet
  <2>6. QED
    BY <1>3, <2>3, <2>4, <2>5
<1>4. QED
  BY <1>1, <1>2, <1>3, SubscriptionMoves

\* What becomes of the stack and of an exception on its way up.
Moves ==
  \/ UNCHANGED stack /\ (stack # << >> => Top.kind \in {"handler", "cycle"})
  \/ \E g : Pushed(g) /\ UNCHANGED raising
  \/ \E f : Replaced(f) /\ ~raising /\ UNCHANGED raising /\ f.left = Iterations
  \/ \E f, g : CalledFrom(f, g) /\ UNCHANGED raising
  \/ Popped /\ (raising' => Len(stack) > 1)

\* Every step is one of the moves.
LEMMA StepMoves ==
  ASSUME FramesInv, Next
  PROVE  Moves /\ raising' \in BOOLEAN /\ (raising' => stack' # << >>)
<1> USE DEF FramesInv, TypeOK
<1>1. CASE Operation
  <2>1. Foreign
    BY <1>1 DEF Operation, Schedule, StopAll, Cancel, Clear, Pause, Resume, Tick, Unsubscribe,
             Subscribe, PauseAgent, ResumeAgent, StopAgent, SetStatus, Snapshot, Restore, Call
  <2>2. raising = FALSE /\ (stack # << >> => Top.kind \in {"handler", "cycle"})
    BY <2>1, ForeignCalls
  <2>3. CASE \/ \E list \in AgentLists : Schedule(list)
             \/ \E i \in 1 .. MaxJobs : Cancel(i)
             \/ Clear \/ Pause \/ Resume
    <3>1. \E name \in EventNames : Publish(name)
      BY <2>3 DEF Schedule, Cancel, Clear, Pause, Resume, EventNames
    <3>2. (\E g : Pushed(g)) /\ UNCHANGED raising
      BY <2>1, <3>1, Announced DEF Publish
    <3>3. QED
      BY <2>2, <3>2 DEF Moves
  <2>4. CASE Tick
    <3>1. (\E g : Pushed(g)) /\ UNCHANGED raising
      BY <2>4, TickCalled DEF Tick
    <3>2. QED
      BY <2>2, <3>1 DEF Moves
  <2>5. CASE \/ \E list \in AgentLists : StopAll(list)
             \/ \E name \in Names : \/ Unsubscribe(name)
                                    \/ \E once \in BOOLEAN : Subscribe(name, once)
             \/ \E a \in Agents : \/ PauseAgent(a) \/ ResumeAgent(a) \/ StopAgent(a)
                                  \/ Snapshot(a) \/ Restore(a)
    <3>1. UNCHANGED stack
      BY <2>5 DEF StopAll, Unsubscribe, Subscribe, PauseAgent, ResumeAgent, StopAgent, SetStatus,
               Snapshot, Restore
    <3>2. raising' \in BOOLEAN /\ (raising' => stack # << >>)
      BY <2>2, <2>5 DEF StopAll, Unsubscribe, Subscribe, PauseAgent, ResumeAgent, StopAgent,
               SetStatus, Snapshot, Restore
    <3>3. QED
      BY <2>2, <3>1, <3>2 DEF Moves
  <2>6. QED
    BY <1>1, <2>3, <2>4, <2>5 DEF Operation
<1>2. CASE CallHandler
  <2>1. \E f, g : CalledFrom(f, g)
    BY <1>2, HandlerCalled
  <2>2. raising = FALSE /\ UNCHANGED raising
    BY <1>2 DEF CallHandler, Running
  <2>3. QED
    BY <2>1, <2>2 DEF Moves
<1>3. CASE Catch
  <2>1. /\ UNCHANGED stack /\ stack # << >> /\ Top.kind \in {"handler", "cycle"}
        /\ raising' = FALSE
    BY <1>3 DEF Catch, Raised
  <2>2. QED
    BY <2>1 DEF Moves
<1>4. CASE \/ Published \/ PublishRaises \/ HandlerReturns \/ HandlerRaises
           \/ TickEnds \/ TickReraises \/ TickRaises \/ CycleSucceeds \/ CycleFails
  <2>1. stack # << >>
    BY <1>4 DEF Published, PublishRaises, HandlerReturns, HandlerRaises, TickEnds, TickReraises,
             TickRaises, CycleSucceeds, CycleFails, Running, Raised
  <2>2. /\ stack' = Front(stack)
        /\ raising' = FALSE \/ raising' = (Len(stack) > 1)
    BY <1>4 DEF Published, PublishRaises, HandlerReturns, HandlerRaises, TickEnds, TickReraises,
             TickRaises, CycleSucceeds, CycleFails, Running, Raised, Return, Throw
  <2>3. Popped /\ (raising' => Len(stack) > 1)
    BY <2>1, <2>2 DEF Popped
  <2>4. raising' => stack' # << >>
    BY <2>3, PopFacts
  <2>5. raising' \in BOOLEAN
    <3>1. (Len(stack) > 1) \in BOOLEAN
      OBVIOUS
    <3>2. QED
      BY <2>2, <3>1, Zenon
  <2>6. QED
    BY <2>3, <2>4, <2>5 DEF Moves
<1>5. CASE TakeJob \/ RunCycle \/ FinishJob
  <2>1. \E f, g : CalledFrom(f, g)
    BY <1>5, JobTaken, CycleBegun, JobFailed, JobFinished
  <2>2. raising = FALSE /\ UNCHANGED raising
    BY <1>5 DEF TakeJob, RunCycle, FinishJob, Running, FailJob
  <2>3. QED
    BY <2>1, <2>2 DEF Moves
<1>6. CASE StartJob
  <2>1. \E f : Replaced(f) /\ f.left = Iterations
    BY <1>6, JobStarted
  <2>2. raising = FALSE /\ UNCHANGED raising
    BY <1>6 DEF StartJob, Running
  <2>3. QED
    BY <2>1, <2>2 DEF Moves
<1>7. QED
  BY <1>1, <1>2, <1>3, <1>4, <1>5, <1>6 DEF Next, Bus, Work

\* After a cycle its agent is idle or in error, and nothing is raised.
LEMMA CyclesEndQuietly ==
  ASSUME FramesInv, Next, Popped, stack # << >>, Top.kind = "cycle", raising \in BOOLEAN
  PROVE  CycleSucceeds \/ CycleFails
<1>1. stack' # stack
  BY PopFacts
<1>2. ~Operation
  <2>1. SUFFICES ASSUME Operation PROVE FALSE
    OBVIOUS
  <2>2. Foreign
    BY <2>1 DEF Operation, Schedule, StopAll, Cancel, Clear, Pause, Resume, Tick, Unsubscribe,
             Subscribe, PauseAgent, ResumeAgent, StopAgent, SetStatus, Snapshot, Restore, Call
  <2>3. CASE \/ \E list \in AgentLists : Schedule(list)
             \/ \E i \in 1 .. MaxJobs : Cancel(i)
             \/ Clear \/ Pause \/ Resume
    <3>1. \E name \in EventNames : Publish(name)
      BY <2>3 DEF Schedule, Cancel, Clear, Pause, Resume, EventNames
    <3>2. \E g : Pushed(g)
      BY <2>2, <3>1, Announced
    <3>3. Len(stack') = Len(stack) + 1 /\ Len(stack') = Len(stack) - 1 /\ Len(stack) \in Nat
      BY <3>2, PushFacts, PopFacts
    <3>4. QED
      BY <3>3
  <2>4. CASE Tick
    <3>1. Len(stack') = Len(stack) + 1 /\ Len(stack') = Len(stack) - 1 /\ Len(stack) \in Nat
      BY <2>4, TickCalled, PushFacts, PopFacts
    <3>2. QED
      BY <3>1
  <2>5. CASE \/ \E list \in AgentLists : StopAll(list)
             \/ \E name \in Names : \/ Unsubscribe(name)
                                    \/ \E once \in BOOLEAN : Subscribe(name, once)
             \/ \E a \in Agents : \/ PauseAgent(a) \/ ResumeAgent(a) \/ StopAgent(a)
                                  \/ Snapshot(a) \/ Restore(a)
    BY <1>1, <2>5 DEF StopAll, Unsubscribe, Subscribe, PauseAgent, ResumeAgent, StopAgent, SetStatus,
               Snapshot, Restore
  <2>6. QED
    BY <2>1, <2>3, <2>4, <2>5 DEF Operation
<1>3. ~Catch
  BY <1>1 DEF Catch
<1>4. ~CallHandler /\ ~Published /\ ~PublishRaises /\ ~HandlerReturns /\ ~HandlerRaises
  BY DEF CallHandler, Published, PublishRaises, HandlerReturns, HandlerRaises, Running, Raised
<1>5. ~TickEnds /\ ~TakeJob /\ ~StartJob /\ ~RunCycle /\ ~FinishJob /\ ~TickReraises /\ ~TickRaises
  BY DEF TickEnds, TakeJob, StartJob, RunCycle, FinishJob, TickReraises, TickRaises, Running, Raised
<1>6. QED
  BY <1>2, <1>3, <1>4, <1>5 DEF Next, Bus, Work

LEMMA FramesInvStep ==
  ASSUME FramesInv, [Next]_vars
  PROVE  FramesInv'
<1>1. CASE UNCHANGED vars
  BY <1>1 DEF vars, scheduler, agents, bounds, history, FramesInv, TypeOK, CountsOK, StackSound,
           TopSound, Top
<1>2. CASE Next
  <2>1. Moves /\ raising' \in BOOLEAN /\ (raising' => stack' # << >>)
    BY <1>2, StepMoves
  <2>2. stack' \in Seq(Frames) /\ StackSound'
    <3>1. CASE UNCHANGED stack
      BY <3>1 DEF FramesInv, TypeOK, StackSound
    <3>2. CASE ~UNCHANGED stack
      BY <2>1, <3>2, PushFacts, PopFacts, ReplaceFacts, CallFacts DEF Moves
    <3>3. QED
      BY <3>1, <3>2
  <2>3. TypeOK' /\ CountsOK'
    BY <1>2, <2>1, <2>2, QueueTyped, StatusTyped, SubscribersTyped DEF TypeOK, CountsOK
  <2>4. TopSound'
    <3>1. CASE UNCHANGED stack /\ (stack # << >> => Top.kind \in {"handler", "cycle"})
      BY <3>1 DEF TopSound, Top
    <3>2. ASSUME NEW g, Pushed(g)
          PROVE  TopSound'
      <4>1. Top' = g
        BY <3>2, TopAfter
      <4>2. QED
        BY <3>2, <4>1 DEF TopSound, Pushed
    <3>3. ASSUME NEW f, Replaced(f), ~raising, UNCHANGED raising, f.left = Iterations
          PROVE  TopSound'
      <4>1. Top' = f
        BY <3>3, TopAfter
      <4>2. QED
        BY <3>3, <4>1, SchedulerAssumption DEF TopSound
    <3>4. ASSUME NEW f, NEW g, CalledFrom(f, g)
          PROVE  TopSound'
      <4>1. Top' = g
        BY <3>4, TopAfter
      <4>2. QED
        BY <3>4, <4>1 DEF TopSound, CalledFrom
    <3>5. CASE Popped
      <4> SUFFICES ASSUME stack' # << >>, Top'.kind = "tick", Top'.at = "run"
                   PROVE  /\ ~raising'
                          /\ Top'.left < Iterations => status'[Head(Top'.todo)] \in {"IDLE", "ERROR"}
        BY DEF TopSound
      <4>1. Called(Top', Top) /\ stack # << >>
        BY <3>5, TopAfter DEF Popped
      <4>2. /\ Top.kind = "cycle"
            /\ Top'.left < Iterations => Top.agent = Head(Top'.todo)
        BY <4>1 DEF Called
      <4>3. CycleSucceeds \/ CycleFails
        BY <1>2, <3>5, <4>1, <4>2, CyclesEndQuietly DEF FramesInv, TypeOK
      <4>4. Top.agent \in Agents
        BY <4>1, <4>2, TopFacts, FrameKinds DEF CycleFrames
      <4>5. status \in [Agents -> Statuses]
        BY DEF FramesInv, TypeOK
      <4>6. raising' = FALSE /\ status'[Top.agent] \in {"IDLE", "ERROR"}
        BY <4>3, <4>4, <4>5 DEF CycleSucceeds, CycleFails, Running, Return, FramesInv, TypeOK
      <4>7. QED
        BY <4>2, <4>6
    <3>6. QED
      BY <2>1, <3>1, <3>2, <3>3, <3>4, <3>5 DEF Moves
  <2>5. QED
    BY <2>2, <2>3, <2>4 DEF FramesInv
<1>3. QED
  BY <1>1, <1>2

(***************************************************************************)
(* The cycles of the agents                                                *)
(***************************************************************************)
Cycle(a)  == [kind |-> "cycle", agent |-> a]
Cycles(a) == {i \in DOMAIN stack : stack[i] = Cycle(a)}

\* An agent in a cycle is not idle, or another cycle could begin.
AwakeInCycle ==
  \A a \in Agents \ restored : InCycle(a) => status[a] # "IDLE"

CyclesInv == OneCycleAtATime /\ PauseEndsWithCycle /\ AwakeInCycle

\* The statuses move without a cycle that begins or ends: who is idle may be
\* stopped or fail, but nobody begins to run or becomes idle.
Calm ==
  /\ restored \subseteq restored'
  /\ \A a \in Agents \ restored' :
       /\ status[a] # "IDLE" => status'[a] # "IDLE"
       /\ status'[a] \in {"RUNNING", "PAUSED"} => status[a] \in {"RUNNING", "PAUSED"}
       /\ status[a] \in {"STOPPED", "ERROR"} => status'[a] = status[a]

\* The cycles on the stack stay where they are,
LEMMA CyclesStay ==
  ASSUME FramesInv,
         \/ UNCHANGED stack
         \/ \E g : Pushed(g)
         \/ \E f : Replaced(f)
         \/ \E f, g : CalledFrom(f, g) /\ g.kind # "cycle"
         \/ Popped /\ Top.kind # "cycle",
         NEW a
  PROVE  Cycles(a)' = Cycles(a)
<1>0. stack \in Seq(Frames) /\ Len(stack) \in Nat /\ DOMAIN stack = 1 .. Len(stack)
  BY DEF FramesInv, TypeOK
<1>1. Cycle(a).kind = "cycle"
  BY DEF Cycle
<1>2. CASE UNCHANGED stack
  BY <1>2 DEF Cycles
<1>3. ASSUME NEW g, Pushed(g)
      PROVE  Cycles(a)' = Cycles(a)
  <2>1. /\ stack' \in Seq(Frames) /\ Len(stack') = Len(stack) + 1
        /\ Below(Len(stack) + 1) /\ stack'[Len(stack) + 1] # Cycle(a)
    BY <1>1, <1>3, PushFacts DEF Pushed
  <2>2. QED
    BY <1>0, <2>1 DEF Cycles, Below
<1>4. ASSUME NEW f, Replaced(f)
      PROVE  Cycles(a)' = Cycles(a)
  <2>1. /\ stack' \in Seq(Frames) /\ Len(stack') = Len(stack) /\ Below(Len(stack))
        /\ stack[Len(stack)] # Cycle(a) /\ stack'[Len(stack)] # Cycle(a)
    BY <1>1, <1>4, ReplaceFacts DEF Replaced
  <2>2. QED
    BY <1>0, <2>1 DEF Cycles, Below
<1>5. ASSUME NEW f, NEW g, CalledFrom(f, g), g.kind # "cycle"
      PROVE  Cycles(a)' = Cycles(a)
  <2>1. /\ stack' \in Seq(Frames) /\ Len(stack') = Len(stack) + 1 /\ Below(Len(stack))
        /\ stack[Len(stack)] # Cycle(a) /\ stack'[Len(stack)] # Cycle(a)
        /\ stack'[Len(stack) + 1] # Cycle(a)
    BY <1>1, <1>5, CallFacts DEF CalledFrom
  <2>2. QED
    BY <1>0, <2>1 DEF Cycles, Below
<1>6. CASE Popped /\ Top.kind # "cycle"
  <2>1. /\ stack' \in Seq(Frames) /\ Len(stack') = Len(stack) - 1 /\ Below(Len(stack))
        /\ stack[Len(stack)] # Cycle(a)
    BY <1>1, <1>6, PopFacts
  <2>2. QED
    BY <1>0, <2>1 DEF Cycles, Below
<1>7. QED
  BY <1>2, <1>3, <1>4, <1>5, <1>6

\* come
LEMMA CycleComes ==
  ASSUME FramesInv, NEW f, NEW b, CalledFrom(f, Cycle(b)), NEW a
  PROVE  Cycles(a)' = IF a = b THEN Cycles(a) \cup {Len(stack) + 1} ELSE Cycles(a)
<1>0. stack \in Seq(Frames) /\ Len(stack) \in Nat /\ DOMAIN stack = 1 .. Len(stack)
  BY DEF FramesInv, TypeOK
<1>1. Cycle(a).kind = "cycle" /\ (a # b => Cycle(b) # Cycle(a))
  BY DEF Cycle
<1>2. /\ stack' \in Seq(Frames) /\ Len(stack') = Len(stack) + 1 /\ Below(Len(stack))
      /\ stack[Len(stack)] # Cycle(a) /\ stack'[Len(stack)] # Cycle(a)
      /\ stack'[Len(stack) + 1] = Cycle(b)
  BY <1>1, CallFacts DEF CalledFrom
<1>3. CASE a = b
  BY <1>0, <1>2, <1>3 DEF Cycles, Below
<1>4. CASE a # b
  BY <1>0, <1>1, <1>2, <1>4 DEF Cycles, Below
<1>5. QED
  BY <1>3, <1>4

\* and go.
LEMMA CycleGoes ==
  ASSUME FramesInv, Popped, Top.kind = "cycle", NEW a
  PROVE  /\ Top.agent \in Agents
         /\ Len(stack) \in Cycles(Top.agent)
         /\ Cycles(a)' = IF a = Top.agent THEN Cycles(a) \ {Len(stack)} ELSE Cycles(a)
<1>0. stack \in Seq(Frames) /\ Len(stack) \in Nat /\ DOMAIN stack = 1 .. Len(stack)
  BY DEF FramesInv, TypeOK
<1>1. /\ stack' \in Seq(Frames) /\ Len(stack') = Len(stack) - 1 /\ Below(Len(stack))
      /\ Len(stack) >= 1 /\ Top = stack[Len(stack)] /\ Top \in Frames
  BY PopFacts
<1>2. PICK b : b = Top.agent
  OBVIOUS
<1>3. b \in Agents /\ stack[Len(stack)] = Cycle(b)
  BY <1>1, <1>2, FrameKinds DEF CycleFrames, Cycle
<1>4. a # b => Cycle(b) # Cycle(a)
  BY DEF Cycle
<1>5. Len(stack) \in Cycles(b)
  BY <1>0, <1>1, <1>3 DEF Cycles
<1>6. CASE a = b
  BY <1>0, <1>1, <1>2, <1>3, <1>5, <1>6 DEF Cycles, Below
<1>7. CASE a # b
  BY <1>0, <1>1, <1>2, <1>3, <1>4, <1>5, <1>7 DEF Cycles, Below
<1>8. QED
  BY <1>6, <1>7

\* Every other step is calm, and leaves the cycles where they are.
LEMMA CycleSteps ==
  ASSUME FramesInv, Next
  PROVE  \/ Calm /\ \A a : Cycles(a)' = Cycles(a)
         \/ RunCycle /\ MayStep(Head(Top.todo))
         \/ CycleSucceeds \/ CycleFails
<1>0. status \in [Agents -> Statuses]
  BY DEF FramesInv, TypeOK
<1>1. CASE /\ \/ \E list \in AgentLists : Schedule(list)
              \/ \E i \in 1 .. MaxJobs : Cancel(i)
              \/ Clear \/ Pause \/ Resume
  <2>1. \E name \in EventNames : Publish(name)
    BY <1>1 DEF Schedule, Cancel, Clear, Pause, Resume, EventNames
  <2>2. Foreign /\ UNCHANGED <<status, restored>>
    BY <1>1 DEF Schedule, Cancel, Clear, Pause, Resume, Call, agents, Publish
  <2>3. \E g : Pushed(g)
    BY <2>1, <2>2, Announced
  <2>4. QED
    BY <2>2, <2>3, CyclesStay DEF Calm
<1>2. CASE Tick
  BY <1>2, TickCalled, CyclesStay DEF Calm, Tick, agents, history
<1>3. CASE \E list \in AgentLists : StopAll(list)
  <2>1. PICK list \in AgentLists : StopAll(list)
    BY <1>3
  <2>2. list \in Seq(Agents)
    BY ListsAreSuffixes
  <2>3. UNCHANGED <<stack, restored>>
    BY <2>1 DEF StopAll, history
  <2>4. PICK ahead : /\ ahead = {i \in DOMAIN list : \A j \in 1 .. i : status[list[j]] # "ERROR"}
                     /\ status' = [a \in Agents |-> IF \E i \in ahead : list[i] = a
                                                    THEN "STOPPED" ELSE status[a]]
    BY <2>1 DEF StopAll
  <2>5. \A i \in ahead : status[list[i]] # "ERROR"
    BY <2>2, <2>4
  <2>6. Calm
    BY <2>3, <2>4, <2>5 DEF Calm
  <2>7. QED
    BY <2>3, <2>6, CyclesStay
<1>4. CASE \E name \in Names : \/ Unsubscribe(name)
                               \/ \E once \in BOOLEAN : Subscribe(name, once)
  <2>1. UNCHANGED <<stack, status, restored>>
    BY <1>4 DEF Unsubscribe, Subscribe, agents, history
  <2>2. QED
    BY <2>1, CyclesStay DEF Calm
<1>5. CASE \E a \in Agents : PauseAgent(a) \/ ResumeAgent(a) \/ StopAgent(a)
  <2>1. UNCHANGED <<stack, restored>>
    BY <1>5 DEF PauseAgent, ResumeAgent, StopAgent, SetStatus, history
  <2>2. Calm
    BY <1>0, <1>5, <2>1 DEF PauseAgent, ResumeAgent, StopAgent, SetStatus, Calm
  <2>3. QED
    BY <2>1, <2>2, CyclesStay
<1>6. CASE \E a \in Agents : Snapshot(a) \/ Restore(a)
  <2>1. UNCHANGED stack
    BY <1>6 DEF Snapshot, Restore
  <2>2. Calm
    BY <1>0, <1>6 DEF Snapshot, Restore, Calm, history
  <2>3. QED
    BY <2>1, <2>2, CyclesStay
<1>7. CASE Bus
  <2>1. UNCHANGED <<status, restored>>
    BY <1>7 DEF Bus, CallHandler, Published, PublishRaises, HandlerReturns, HandlerRaises, Catch,
             agents, history
  <2>2. \/ UNCHANGED stack
        \/ \E f, g : CalledFrom(f, g) /\ g.kind # "cycle"
        \/ Popped /\ Top.kind # "cycle"
    <3>1. CASE CallHandler
      BY <3>1, HandlerCalled
    <3>2. CASE Catch
      BY <3>2 DEF Catch
    <3>3. CASE Published \/ PublishRaises \/ HandlerReturns \/ HandlerRaises
      BY <3>3 DEF Published, PublishRaises, HandlerReturns, HandlerRaises, Running, Raised,
               Return, Throw, Popped, FramesInv, TypeOK
    <3>4. QED
      BY <1>7, <3>1, <3>2, <3>3 DEF Bus
  <2>3. QED
    BY <2>1, <2>2, CyclesStay DEF Calm
<1>8. CASE TickEnds \/ TickReraises \/ TickRaises
  <2>1. UNCHANGED <<status, restored>>
    BY <1>8 DEF TickEnds, TickReraises, TickRaises, agents, history
  <2>2. Popped /\ Top.kind # "cycle"
    BY <1>8 DEF TickEnds, TickReraises, TickRaises, Running, Raised, Return, Throw, Popped,
             FramesInv, TypeOK
  <2>3. QED
    BY <2>1, <2>2, CyclesStay DEF Calm
<1>9. CASE TakeJob \/ FinishJob
  <2>1. UNCHANGED <<status, restored>>
    BY <1>9 DEF TakeJob, FinishJob, agents
  <2>2. \E f, g : CalledFrom(f, g) /\ g.kind # "cycle"
    BY <1>9, JobTaken, JobFinished, PublishingFacts DEF EventNames
  <2>3. QED
    BY <2>1, <2>2, CyclesStay DEF Calm
<1>10. CASE StartJob
  BY <1>10, JobStarted, CyclesStay DEF Calm, StartJob, agents, history
<1>11. CASE RunCycle /\ ~MayStep(Head(Top.todo))
  <2>1. PICK a : a = Head(Top.todo)
    OBVIOUS
  <2>2. /\ a \in Agents /\ Top.at = "run" /\ Top.kind = "tick" /\ FailJob
        /\ \/ ~Refused(a) /\ status' = [status EXCEPT ![a] = "ERROR"]
           \/ Refused(a) /\ UNCHANGED status
        /\ \E f, g : CalledFrom(f, g) /\ g.kind # "cycle"
    BY <1>11, <2>1, JobFailed, PublishingFacts DEF EventNames
  <2>3. UNCHANGED restored
    BY <2>2 DEF FailJob
  <2>4. status[a] = "STOPPED" => Refused(a)
    <3>1. stack # << >> /\ Top.left \in 1 .. Iterations
      BY <1>11, JobRuns DEF RunCycle
    <3>2. Top.left < Iterations => status[a] \in {"IDLE", "ERROR"}
      BY <2>1, <2>2, <3>1 DEF FramesInv, TopSound
    <3>3. Iterations \in Nat
      BY SchedulerAssumption
    <3>4. QED
      BY <3>1, <3>2, <3>3 DEF Refused
  <2>5. Calm
    BY <1>0, <2>2, <2>3, <2>4 DEF Calm
  <2>6. QED
    BY <2>2, <2>5, CyclesStay
<1>12. QED
  BY <1>1, <1>2, <1>3, <1>4, <1>5, <1>6, <1>7, <1>8, <1>9, <1>10, <1>11
     DEF Next, Operation, Work

LEMMA CyclesInvStep ==
  ASSUME FramesInv, CyclesInv, [Next]_vars
  PROVE  CyclesInv'
<1>0. /\ \A a : InCycle(a) <=> Cycles(a) # {}
      /\ \A a : InCycle(a)' <=> Cycles(a)' # {}
      /\ OneCycleAtATime <=> \A a \in Agents \ restored : \A i, j \in Cycles(a) : i = j
      /\ OneCycleAtATime' <=> \A a \in Agents \ restored' : \A i, j \in Cycles(a)' : i = j
  BY DEF InCycle, Cycles, Cycle, OneCycleAtATime
<1>1. status \in [Agents -> Statuses]
  BY DEF FramesInv, TypeOK
<1>2. CASE UNCHANGED vars
  BY <1>2 DEF vars, agents, history, CyclesInv, OneCycleAtATime, PauseEndsWithCycle, AwakeInCycle,
           InCycle
<1>3. CASE Calm /\ \A a : Cycles(a)' = Cycles(a)
  BY <1>0, <1>3 DEF Calm, CyclesInv, PauseEndsWithCycle, AwakeInCycle
<1>4. CASE RunCycle /\ MayStep(Head(Top.todo))
  <2>1. PICK b : b = Head(Top.todo)
    OBVIOUS
  <2>2. /\ b \in Agents /\ status[b] = "IDLE" /\ status' = [status EXCEPT ![b] = "RUNNING"]
        /\ UNCHANGED restored
        /\ \E f : CalledFrom(f, Cycle(b))
    BY <1>4, <2>1, CycleBegun DEF history, Cycle
  <2>3. \A a : Cycles(a)' = IF a = b THEN Cycles(a) \cup {Len(stack) + 1} ELSE Cycles(a)
    BY <2>2, CycleComes
  <2>4. b \notin restored => Cycles(b) = {}
    BY <1>0, <2>2 DEF CyclesInv, AwakeInCycle
  <2>5. OneCycleAtATime'
    <3>1. SUFFICES ASSUME NEW a \in Agents \ restored', NEW i \in Cycles(a)', NEW j \in Cycles(a)'
                   PROVE  i = j
      BY <1>0
    <3>2. CASE a = b
      BY <2>2, <2>3, <2>4, <3>1, <3>2
    <3>3. CASE a # b
      BY <1>0, <2>2, <2>3, <3>1, <3>3 DEF CyclesInv
    <3>4. QED
      BY <3>2, <3>3
  <2>6. PauseEndsWithCycle' /\ AwakeInCycle'
    <3>1. ASSUME NEW a \in Agents \ restored'
          PROVE  /\ status'[a] \in {"RUNNING", "PAUSED"} => InCycle(a)'
                 /\ InCycle(a)' => status'[a] # "IDLE"
      <4>1. CASE a = b
        BY <1>0, <1>1, <2>2, <2>3, <4>1
      <4>2. CASE a # b
        BY <1>0, <1>1, <2>2, <2>3, <3>1, <4>2 DEF CyclesInv, PauseEndsWithCycle, AwakeInCycle
      <4>3. QED
        BY <4>1, <4>2
    <3>2. QED
      BY <3>1 DEF PauseEndsWithCycle, AwakeInCycle
  <2>7. QED
    BY <2>5, <2>6 DEF CyclesInv
<1>5. CASE CycleSucceeds \/ CycleFails
  <2>1. PICK b : b = Top.agent
    OBVIOUS
  <2>2. /\ Popped /\ Top.kind = "cycle" /\ UNCHANGED restored
        /\ \E s \in {"IDLE", "ERROR"} : status' = [status EXCEPT ![b] = s]
    BY <1>5, <2>1 DEF CycleSucceeds, CycleFails, Running, Raised, Return, Popped, history, FramesInv,
             TypeOK
  <2>3. /\ b \in Agents /\ Len(stack) \in Cycles(b)
        /\ \A a : Cycles(a)' = IF a = b THEN Cycles(a) \ {Len(stack)} ELSE Cycles(a)
    BY <2>1, <2>2, CycleGoes
  <2>4. b \notin restored => Cycles(b)' = {}
    BY <1>0, <2>3 DEF CyclesInv
  <2>5. OneCycleAtATime'
    BY <1>0, <2>2, <2>3 DEF CyclesInv
  <2>6. PauseEndsWithCycle' /\ AwakeInCycle'
    <3>1. ASSUME NEW a \in Agents \ restored'
          PROVE  /\ status'[a] \in {"RUNNING", "PAUSED"} => InCycle(a)'
                 /\ InCycle(a)' => status'[a] # "IDLE"
      <4>1. CASE a = b
        BY <1>0, <1>1, <2>2, <2>3, <2>4, <4>1
      <4>2. CASE a # b
        BY <1>0, <1>1, <2>2, <2>3, <3>1, <4>2 DEF CyclesInv, PauseEndsWithCycle, AwakeInCycle
      <4>3. QED
        BY <4>1, <4>2
    <3>2. QED
      BY <3>1 DEF PauseEndsWithCycle, AwakeInCycle
  <2>7. QED
    BY <2>5, <2>6 DEF CyclesInv
<1>6. QED
  BY <1>2, <1>3, <1>4, <1>5, CycleSteps

LEMMA FramesInvInit == Init => FramesInv /\ CyclesInv
<1> SUFFICES ASSUME Init PROVE FramesInv /\ CyclesInv
  OBVIOUS
<1>1. MaxJobs \in Nat /\ MaxHandlers \in Nat
  BY SchedulerAssumption
<1>2. TypeOK
  <2>1. \A S : << >> \in Seq(S)
    OBVIOUS
  <2>2. status \in [Agents -> Statuses] /\ saved \in [Agents -> SUBSET Statuses]
    BY DEF Init, Statuses
  <2>3. subscribers \in [Names -> Seq(Handlers)]
    BY <2>1 DEF Init
  <2>4. QED
    BY <2>1, <2>2, <2>3 DEF Init, TypeOK
<1>3. CountsOK /\ StackSound /\ TopSound
  BY <1>1 DEF Init, CountsOK, StackSound, TopSound, Distinct
<1>4. CyclesInv
  BY DEF Init, CyclesInv, OneCycleAtATime, PauseEndsWithCycle, AwakeInCycle, InCycle
<1>5. QED
  BY <1>2, <1>3, <1>4 DEF FramesInv

\* However deep subscribers and cycles call each other and whatever raises: the
\* cycles of one agent never overlap and end its pause, unless a snapshot is put
\* back in between (AutonomousAgent.step, autonomous_agent.py).
THEOREM AgentsStaySound == Spec => []AgentsSound
<1>1. Init => FramesInv /\ CyclesInv
  BY FramesInvInit
<1>2. FramesInv /\ CyclesInv /\ [Next]_vars => FramesInv' /\ CyclesInv'
  BY FramesInvStep, CyclesInvStep
<1>3. FramesInv /\ CyclesInv => AgentsSound
  BY DEF FramesInv, CyclesInv, AgentsSound
<1>4. QED
  BY <1>1, <1>2, <1>3, PTL DEF Spec

\* A stop or an error is undone by nothing but the end of a cycle that the agent
\* is in, or a snapshot (AutonomousAgent.step, AutonomousHost.start_all).
THEOREM EndedAgentsStayEnded == Spec => EndedStaysEnded
<1>1. Init => FramesInv
  BY FramesInvInit
<1>2. FramesInv /\ [Next]_vars => FramesInv'
  BY FramesInvStep
<1>3. FramesInv /\ [Next]_vars =>
        [\A a \in Agents :
           status[a] \in {"STOPPED", "ERROR"} /\ status'[a] # status[a] =>
             InCycle(a) \/ a \in restored']_vars
  <2> SUFFICES ASSUME FramesInv, Next, NEW a \in Agents,
                      status[a] \in {"STOPPED", "ERROR"}, status'[a] # status[a]
               PROVE  InCycle(a) \/ a \in restored'
    OBVIOUS
  <2>0. status \in [Agents -> Statuses]
    BY DEF FramesInv, TypeOK
  <2>1. CASE Calm
    BY <2>1 DEF Calm
  <2>2. CASE RunCycle /\ MayStep(Head(Top.todo))
    BY <2>0, <2>2, CycleBegun
  <2>3. CASE CycleSucceeds \/ CycleFails
    <3>1. Popped /\ Top.kind = "cycle"
      BY <2>3 DEF CycleSucceeds, CycleFails, Running, Raised, Return, Popped, FramesInv, TypeOK
    <3>2. Top.agent \in Agents /\ Len(stack) \in Cycles(Top.agent)
      BY <3>1, CycleGoes
    <3>3. a = Top.agent
      BY <2>0, <2>3, <3>2 DEF CycleSucceeds, CycleFails
    <3>4. QED
      BY <3>2, <3>3 DEF Cycles, Cycle, InCycle
  <2>4. QED
    BY <2>1, <2>2, <2>3, CycleSteps
<1>4. QED
  BY <1>1, <1>2, <1>3, PTL DEF Spec, EndedStaysEnded

(***************************************************************************)
(* Jobs: where each of them is                                             *)
(***************************************************************************)
Queued(j) == \E i \in DOMAIN queue : queue[i].id = j
Works(j)  == \E i \in DOMAIN stack : stack[i].kind = "tick" /\ stack[i].job = j

\* A job that failed is reported before its exception goes on.
FailedAreEnded ==
  \A i \in DOMAIN stack :
    stack[i].kind = "tick" /\ stack[i].at = "failed" => stack[i].job \in ended

JobsInv == NoJobLost /\ FailedAreEnded

\* What a step puts on the stack.
LEMMA FramesCome ==
  ASSUME FramesInv, Next
  PROVE  \A i \in DOMAIN stack' :
           \/ i \in DOMAIN stack /\ stack'[i] = stack[i]
           \/ stack'[i].kind = "cycle"
           \/ /\ stack'[i].kind = "tick"
              /\ stack'[i].at = "failed" => RunCycle /\ FailJob /\ stack'[i].job = Top.job
           \/ /\ i = Len(stack')
              /\ \E name \in EventNames : stack'[i] = Publishing(name) /\ Noted(name)
           \/ CallHandler /\ i \in DOMAIN stack /\ i = Len(stack)
                /\ stack'[i] = [Top EXCEPT !.todo = Tail(@)]
           \/ CallHandler
                /\ stack'[i] = [kind |-> "handler", name |-> Top.name, handler |-> Head(Top.todo)]
<1>0. stack \in Seq(Frames) /\ Len(stack) \in Nat /\ DOMAIN stack = 1 .. Len(stack)
  BY DEF FramesInv, TypeOK
<1>1. CASE UNCHANGED stack
  BY <1>1
<1>2. CASE Popped
  BY <1>0, <1>2, PopFacts DEF Below
<1>3. ASSUME NEW name \in EventNames, Foreign, Publish(name)
      PROVE  \A i \in DOMAIN stack' :
               \/ i \in DOMAIN stack /\ stack'[i] = stack[i]
               \/ i = Len(stack') /\ stack'[i] = Publishing(name) /\ Noted(name)
  <2>1. Pushed(Publishing(name)) /\ Noted(name)
    BY <1>3, Announced DEF Publish
  <2>2. /\ stack' \in Seq(Frames) /\ Len(stack') = Len(stack) + 1
        /\ Below(Len(stack) + 1) /\ stack'[Len(stack) + 1] = Publishing(name)
    BY <2>1, PushFacts
  <2>3. QED
    BY <1>0, <2>1, <2>2 DEF Below
<1>4. CASE \/ \E list \in AgentLists : Schedule(list)
           \/ \E i \in 1 .. MaxJobs : Cancel(i)
           \/ Clear \/ Pause \/ Resume
  <2>1. Foreign /\ \E name \in EventNames : Publish(name)
    BY <1>4 DEF Schedule, Cancel, Clear, Pause, Resume, EventNames, Call
  <2>2. QED
    BY <1>3, <2>1
<1>5. CASE Tick
  <2>1. PICK f : f = TickFrame("loop", 0, << >>, 0)
    OBVIOUS
  <2>2. Pushed(f) /\ f.kind = "tick" /\ f.at = "loop"
    BY <1>5, <2>1, TickCalled, LoopFrame
  <2>3. /\ stack' \in Seq(Frames) /\ Len(stack') = Len(stack) + 1
        /\ Below(Len(stack) + 1) /\ stack'[Len(stack) + 1] = f
    BY <2>2, PushFacts
  <2>4. QED
    BY <1>0, <2>2, <2>3 DEF Below
<1>6. CASE \/ \E list \in AgentLists : StopAll(list)
           \/ \E name \in Names : \/ Unsubscribe(name)
                                  \/ \E once \in BOOLEAN : Subscribe(name, once)
           \/ \E a \in Agents : \/ PauseAgent(a) \/ ResumeAgent(a) \/ StopAgent(a)
                                \/ Snapshot(a) \/ Restore(a)
           \/ Catch
  <2>1. UNCHANGED stack
    BY <1>6 DEF StopAll, Unsubscribe, Subscribe, PauseAgent, ResumeAgent, StopAgent, SetStatus,
             Snapshot, Restore, Catch
  <2>2. QED
    BY <1>1, <2>1
<1>7. CASE \/ Published \/ PublishRaises \/ HandlerReturns \/ HandlerRaises
           \/ TickEnds \/ TickReraises \/ TickRaises \/ CycleSucceeds \/ CycleFails
  <2>1. Popped
    BY <1>7 DEF Published, PublishRaises, HandlerReturns, HandlerRaises, TickEnds, TickReraises,
             TickRaises, CycleSucceeds, CycleFails, Running, Raised, Return, Throw, Popped,
             FramesInv, TypeOK
  <2>2. QED
    BY <1>2, <2>1
<1>8. CASE CallHandler
  <2>1. PICK f, h : /\ f = [Top EXCEPT !.todo = Tail(@)]
                    /\ h = [kind |-> "handler", name |-> Top.name, handler |-> Head(Top.todo)]
    OBVIOUS
  <2>2. CalledFrom(f, h)
    BY <1>8, <2>1, HandlerCalled
  <2>3. /\ stack' \in Seq(Frames) /\ Len(stack') = Len(stack) + 1 /\ Below(Len(stack))
        /\ stack'[Len(stack)] = f /\ stack'[Len(stack) + 1] = h /\ Len(stack) >= 1
    BY <2>2, CallFacts
  <2>4. \A i \in DOMAIN stack' : i < Len(stack) \/ i = Len(stack) \/ i = Len(stack) + 1
    BY <1>0, <2>3
  <2>5. Len(stack) \in DOMAIN stack
    BY <1>0, <2>3
  <2>6. \A i \in DOMAIN stack' : i < Len(stack) => i \in DOMAIN stack /\ stack'[i] = stack[i]
    BY <1>0, <2>3 DEF Below
  <2>7. QED
    BY <1>8, <2>1, <2>3, <2>4, <2>5, <2>6
<1>9. CASE StartJob
  <2>1. PICK f : f = [Top EXCEPT !.at = "run"]
    OBVIOUS
  <2>2. Replaced(f) /\ f.kind = "tick" /\ f.at = "run"
    BY <1>9, <2>1, JobStarted
  <2>3. /\ stack' \in Seq(Frames) /\ Len(stack') = Len(stack) /\ Below(Len(stack))
        /\ stack'[Len(stack)] = f
    BY <2>2, ReplaceFacts
  <2>4. QED
    BY <1>0, <2>2, <2>3 DEF Below
<1>10. ASSUME NEW f, NEW name \in EventNames, CalledFrom(f, Publishing(name)), f.kind = "tick",
              Noted(name), f.at = "failed" => RunCycle /\ FailJob /\ f.job = Top.job
       PROVE  \A i \in DOMAIN stack' :
                \/ i \in DOMAIN stack /\ stack'[i] = stack[i]
                \/ /\ stack'[i].kind = "tick"
                   /\ stack'[i].at = "failed" => RunCycle /\ FailJob /\ stack'[i].job = Top.job
                \/ i = Len(stack') /\ stack'[i] = Publishing(name) /\ Noted(name)
  <2>1. /\ stack' \in Seq(Frames) /\ Len(stack') = Len(stack) + 1 /\ Below(Len(stack))
        /\ stack'[Len(stack)] = f /\ stack'[Len(stack) + 1] = Publishing(name)
    BY <1>10, CallFacts
  <2>2. \A i \in DOMAIN stack' : i < Len(stack) \/ i = Len(stack) \/ i = Len(stack) + 1
    BY <1>0, <2>1
  <2>3. \A i \in DOMAIN stack' : i < Len(stack) => i \in DOMAIN stack /\ stack'[i] = stack[i]
    BY <1>0, <2>1 DEF Below
  <2>4. QED
    BY <1>10, <2>1, <2>2, <2>3
<1>11. CASE TakeJob
  <2>1. Noted("job_started") /\ "job_started" \in EventNames
    BY <1>11 DEF TakeJob, EventNames
  <2>2. PICK f : /\ CalledFrom(f, Publishing("job_started"))
                 /\ f.kind = "tick" /\ f.at = "start"
    BY <1>11, JobTaken
  <2>3. QED
    BY <1>10, <2>1, <2>2
<1>12. CASE FinishJob
  <2>1. Noted("job_finished") /\ "job_finished" \in EventNames
    BY <1>12 DEF FinishJob, EventNames
  <2>2. PICK f : /\ CalledFrom(f, Publishing("job_finished"))
                 /\ f.kind = "tick" /\ f.at = "loop"
    BY <1>12, JobFinished
  <2>3. QED
    BY <1>10, <2>1, <2>2
<1>13. CASE RunCycle /\ ~MayStep(Head(Top.todo))
  <2>1. PICK f : /\ CalledFrom(f, Publishing("job_failed")) /\ FailJob
                 /\ f.kind = "tick" /\ f.at = "failed" /\ f.job = Top.job
    BY <1>13, JobFailed
  <2>2. Noted("job_failed") /\ "job_failed" \in EventNames
    BY <2>1 DEF FailJob, EventNames
  <2>3. QED
    BY <1>10, <1>13, <2>1, <2>2
<1>14. CASE RunCycle /\ MayStep(Head(Top.todo))
  <2>1. PICK f, g : /\ CalledFrom(f, g) /\ g.kind = "cycle"
                    /\ f.kind = "tick" /\ f.at = "run"
    BY <1>14, CycleBegun
  <2>2. /\ stack' \in Seq(Frames) /\ Len(stack') = Len(stack) + 1 /\ Below(Len(stack))
        /\ stack'[Len(stack)] = f /\ stack'[Len(stack) + 1] = g
    BY <2>1, CallFacts
  <2>3. \A i \in DOMAIN stack' : i < Len(stack) \/ i = Len(stack) \/ i = Len(stack) + 1
    BY <1>0, <2>2
  <2>4. \A i \in DOMAIN stack' : i < Len(stack) => i \in DOMAIN stack /\ stack'[i] = stack[i]
    BY <1>0, <2>2 DEF Below
  <2>5. QED
    BY <2>1, <2>2, <2>3, <2>4
<1>15. QED
  BY <1>4, <1>5, <1>6, <1>7, <1>8, <1>9, <1>11, <1>12, <1>13, <1>14
     DEF Next, Operation, Bus, Work

\* A move that keeps the tick of a job.
LEMMA WorksOn ==
  ASSUME FramesInv, NEW j, Works(j),
         \/ UNCHANGED stack
         \/ \E g : Pushed(g)
         \/ \E f : Replaced(f) /\ (f.kind = "tick" => f.job = Top.job)
         \/ \E f, g : CalledFrom(f, g) /\ (f.kind = "tick" => f.job = Top.job)
         \/ Popped /\ ~(Top.kind = "tick" /\ Top.job = j)
         \/ \E f, g : CalledFrom(f, g) /\ ~(Top.kind = "tick" /\ Top.job = j)
  PROVE  Works(j)'
<1>0. stack \in Seq(Frames) /\ Len(stack) \in Nat /\ DOMAIN stack = 1 .. Len(stack)
  BY DEF FramesInv, TypeOK
<1>1. PICK i \in DOMAIN stack : stack[i].kind = "tick" /\ stack[i].job = j
  BY DEF Works
<1>2. CASE UNCHANGED stack
  BY <1>1, <1>2 DEF Works
<1>3. CASE \E g : Pushed(g)
  <2>1. i \in DOMAIN stack' /\ stack'[i] = stack[i]
    BY <1>0, <1>3, PushFacts DEF Below
  <2>2. QED
    BY <1>1, <2>1 DEF Works
<1>4. ASSUME NEW f, Replaced(f), f.kind = "tick" => f.job = Top.job
      PROVE  Works(j)'
  <2>1. /\ stack' \in Seq(Frames) /\ Len(stack') = Len(stack) /\ Below(Len(stack))
        /\ stack'[Len(stack)] = f /\ Top = stack[Len(stack)] /\ f.kind = Top.kind
    BY <1>4, ReplaceFacts DEF Replaced
  <2>2. i \in DOMAIN stack' /\ stack'[i].kind = "tick" /\ stack'[i].job = j
    BY <1>0, <1>1, <1>4, <2>1 DEF Below
  <2>3. QED
    BY <2>2 DEF Works
<1>5. ASSUME NEW f, NEW g, CalledFrom(f, g), f.kind = "tick" => f.job = Top.job
      PROVE  Works(j)'
  <2>1. /\ stack' \in Seq(Frames) /\ Len(stack') = Len(stack) + 1 /\ Below(Len(stack))
        /\ stack'[Len(stack)] = f /\ Top = stack[Len(stack)] /\ f.kind = Top.kind
    BY <1>5, CallFacts DEF CalledFrom
  <2>2. i \in DOMAIN stack' /\ stack'[i].kind = "tick" /\ stack'[i].job = j
    BY <1>0, <1>1, <1>5, <2>1 DEF Below
  <2>3. QED
    BY <2>2 DEF Works
<1>6. CASE Popped /\ ~(Top.kind = "tick" /\ Top.job = j)
  <2>1. /\ stack' \in Seq(Frames) /\ Len(stack') = Len(stack) - 1 /\ Below(Len(stack))
        /\ Top = stack[Len(stack)]
    BY <1>6, PopFacts
  <2>2. i # Len(stack)
    BY <1>1, <1>6, <2>1
  <2>3. i \in DOMAIN stack' /\ stack'[i] = stack[i]
    BY <1>0, <2>1, <2>2 DEF Below
  <2>4. QED
    BY <1>1, <2>3 DEF Works
<1>7. ASSUME NEW f, NEW g, CalledFrom(f, g), ~(Top.kind = "tick" /\ Top.job = j)
      PROVE  Works(j)'
  <2>1. /\ stack' \in Seq(Frames) /\ Len(stack') = Len(stack) + 1 /\ Below(Len(stack))
        /\ Top = stack[Len(stack)]
    BY <1>7, CallFacts
  <2>2. i # Len(stack)
    BY <1>1, <1>7, <2>1
  <2>3. i \in DOMAIN stack' /\ stack'[i] = stack[i]
    BY <1>0, <2>1, <2>2 DEF Below
  <2>4. QED
    BY <1>1, <2>3 DEF Works
<1>8. QED
  BY <1>2, <1>3, <1>4, <1>5, <1>6, <1>7

Histories ==
  ended \subseteq ended' /\ removed \subseteq removed' /\ interrupted \subseteq interrupted'

\* A job that is queued stays queued, is taken off or begins to run.
LEMMA QueuedOn ==
  ASSUME FramesInv, Next, NEW j, Queued(j)
  PROVE  Queued(j)' \/ j \in removed' \/ Works(j)'
<1>0. queue \in Seq(Jobs) /\ DOMAIN queue = 1 .. Len(queue) /\ Len(queue) \in Nat
  BY DEF FramesInv, TypeOK
<1>1. PICK i \in DOMAIN queue : queue[i].id = j
  BY DEF Queued
<1>2. ASSUME NEW list \in AgentLists, Schedule(list)
      PROVE  Queued(j)'
  <2>1. queue' = Append(queue, [id |-> jobs + 1, agents |-> list])
    BY <1>2 DEF Schedule
  <2>2. i \in DOMAIN queue' /\ queue'[i] = queue[i]
    BY <1>0, <2>1
  <2>3. QED
    BY <1>1, <2>2 DEF Queued
<1>3. ASSUME NEW k \in 1 .. MaxJobs, Cancel(k)
      PROVE  Queued(j)' \/ j \in removed'
  <2>1. k \in DOMAIN queue /\ queue' = RemoveAt(queue, k) /\ queue[k].id \in removed'
    BY <1>3 DEF Cancel
  <2>2. CASE i = k
    BY <1>1, <2>1, <2>2
  <2>3. CASE i # k
    <3>1. \E m \in DOMAIN queue' : queue'[m] = queue[i]
      BY <1>0, <1>1, <2>1, <2>3, RemoveAtKeeps
    <3>2. QED
      BY <1>1, <3>1 DEF Queued
  <2>4. QED
    BY <2>2, <2>3
<1>4. CASE Clear
  BY <1>1, <1>4 DEF Clear
<1>5. CASE TakeJob
  <2>1. queue # << >> /\ queue' = Tail(queue)
    BY <1>5 DEF TakeJob
  <2>2. CASE i = 1
    <3>1. PICK f, g : CalledFrom(f, g) /\ f.kind = "tick" /\ f.job = j
      <4>1. Head(queue).id = j
        BY <1>0, <1>1, <2>1, <2>2
      <4>2. QED
        BY <1>5, <4>1, JobTaken
    <3>2. /\ stack' \in Seq(Frames) /\ Len(stack') = Len(stack) + 1 /\ Len(stack) \in Nat
          /\ stack'[Len(stack)] = f /\ Len(stack) >= 1
      BY <3>1, CallFacts
    <3>3. Len(stack) \in DOMAIN stack'
      BY <3>2
    <3>4. QED
      BY <3>1, <3>2, <3>3 DEF Works
  <2>3. CASE i # 1
    <3>1. i - 1 \in DOMAIN queue' /\ queue'[i - 1] = queue[i]
      BY <1>0, <1>1, <2>1, <2>3
    <3>2. QED
      BY <1>1, <3>1 DEF Queued
  <2>4. QED
    BY <2>2, <2>3
<1>6. CASE UNCHANGED queue
  BY <1>1, <1>6 DEF Queued
<1>7. QED
  BY <1>2, <1>3, <1>4, <1>5, <1>6
     DEF Next, Operation, Bus, Work, StopAll, Pause, Resume, Tick, Unsubscribe, Subscribe, PauseAgent,
         ResumeAgent, StopAgent, SetStatus, Snapshot, Restore, CallHandler, Published, PublishRaises,
         HandlerReturns, HandlerRaises, Catch, TickEnds, StartJob, RunCycle, FinishJob, TickReraises,
         TickRaises, CycleSucceeds, CycleFails, scheduler

\* A job in progress stays so until it is reported or its start is.
LEMMA WorkedOn ==
  ASSUME FramesInv, FailedAreEnded, Next, NEW j \in Nat \ {0}, Works(j)
  PROVE  Works(j)' \/ j \in ended' \cup interrupted'
<1>1. CASE Operation
  <2>1. UNCHANGED stack \/ \E g : Pushed(g)
    <3>1. CASE \/ \E list \in AgentLists : Schedule(list)
               \/ \E i \in 1 .. MaxJobs : Cancel(i)
               \/ Clear \/ Pause \/ Resume
      <4>1. Foreign /\ \E name \in EventNames : Publish(name)
        BY <3>1 DEF Schedule, Cancel, Clear, Pause, Resume, EventNames, Call
      <4>2. QED
        BY <4>1, Announced
    <3>2. CASE Tick
      BY <3>2, TickCalled
    <3>3. CASE \/ \E list \in AgentLists : StopAll(list)
               \/ \E name \in Names : \/ Unsubscribe(name)
                                      \/ \E once \in BOOLEAN : Subscribe(name, once)
               \/ \E a \in Agents : \/ PauseAgent(a) \/ ResumeAgent(a) \/ StopAgent(a)
                                    \/ Snapshot(a) \/ Restore(a)
      BY <3>3 DEF StopAll, Unsubscribe, Subscribe, PauseAgent, ResumeAgent, StopAgent, SetStatus,
               Snapshot, Restore
    <3>4. QED
      BY <1>1, <3>1, <3>2, <3>3 DEF Operation
  <2>2. QED
    BY <2>1, WorksOn
<1>2. CASE CallHandler
  <2>1. \E f, g : CalledFrom(f, g) /\ f.kind # "tick"
    BY <1>2, HandlerCalled
  <2>2. QED
    BY <2>1, WorksOn
<1>3. CASE Catch
  BY <1>3, WorksOn DEF Catch
<1>4. CASE \/ Published \/ PublishRaises \/ HandlerReturns \/ HandlerRaises
           \/ CycleSucceeds \/ CycleFails
  <2>1. Popped /\ Top.kind # "tick"
    BY <1>4 DEF Published, PublishRaises, HandlerReturns, HandlerRaises, CycleSucceeds, CycleFails,
             Running, Raised, Return, Throw, Popped, FramesInv, TypeOK
  <2>2. QED
    BY <2>1, WorksOn
<1>5. CASE TickEnds
  <2>1. Popped /\ Top.kind = "tick" /\ Top.at = "loop" /\ stack # << >>
    BY <1>5 DEF TickEnds, Running, Return, Popped
  <2>2. Top.job = 0
    BY <2>1, TopFacts DEF Sound
  <2>3. QED
    BY <2>1, <2>2, WorksOn
<1>6. CASE TakeJob
  <2>1. (\E f, g : CalledFrom(f, g)) /\ Top.job = 0
    BY <1>6, JobTaken
  <2>2. QED
    BY <2>1, WorksOn
<1>7. CASE StartJob
  <2>1. \E f : Replaced(f) /\ f.job = Top.job
    BY <1>7, JobStarted
  <2>2. QED
    BY <2>1, WorksOn
<1>8. CASE RunCycle
  <2>1. \E f, g : CalledFrom(f, g) /\ f.job = Top.job
    BY <1>8, CycleBegun, JobFailed
  <2>2. QED
    BY <2>1, WorksOn
<1>9. CASE FinishJob
  <2>1. CASE Top.kind = "tick" /\ Top.job = j
    BY <1>9, <2>1 DEF FinishJob
  <2>2. CASE ~(Top.kind = "tick" /\ Top.job = j)
    <3>1. \E f, g : CalledFrom(f, g)
      BY <1>9, JobFinished
    <3>2. QED
      BY <2>2, <3>1, WorksOn
  <2>3. QED
    BY <2>1, <2>2
<1>10. CASE TickReraises \/ TickRaises
  <2>1. Popped /\ stack # << >> /\ Top.kind = "tick"
    BY <1>10 DEF TickReraises, TickRaises, Running, Raised, Throw, Popped, FramesInv, TypeOK
  <2>2. CASE Top.job # j
    BY <2>1, <2>2, WorksOn
  <2>3. CASE Top.job = j
    <3>1. Top \in TickFrames /\ Sound(Top)
      BY <2>1, TopFacts, FrameKinds
    <3>2. Top.at \in {"loop", "start", "run", "failed"}
      BY <3>1 DEF TickFrames
    <3>3. CASE Top.at = "failed"
      <4>1. Len(stack) \in DOMAIN stack /\ Top = stack[Len(stack)]
        BY <2>1, TopFacts
      <4>2. Top.job \in ended /\ ended' = ended
        BY <1>10, <2>1, <3>3, <4>1 DEF FailedAreEnded, TickReraises, TickRaises, history
      <4>3. QED
        BY <2>3, <4>2
    <3>4. CASE Top.at = "loop"
      BY <2>1, <2>3, <3>1, <3>4 DEF Sound
    <3>5. CASE Top.at = "start"
      BY <1>10, <2>3, <3>5 DEF TickReraises, TickRaises
    <3>6. CASE Top.at = "run"
      <4>1. TickRaises /\ raising
        BY <1>10, <3>6 DEF TickReraises, TickRaises, Raised
      <4>2. QED
        BY <2>1, <3>6, <4>1 DEF FramesInv, TopSound
    <3>7. QED
      BY <3>2, <3>3, <3>4, <3>5, <3>6
  <2>4. QED
    BY <2>2, <2>3
<1>11. QED
  BY <1>1, <1>2, <1>3, <1>4, <1>5, <1>6, <1>7, <1>8, <1>9, <1>10 DEF Next, Bus, Work

\* The history only grows.
LEMMA HistoriesGrow ==
  ASSUME Next
  PROVE  Histories
<1>1. CASE Operation
  BY <1>1 DEF Operation, Schedule, StopAll, Cancel, Clear, Pause, Resume, Tick, Unsubscribe,
           Subscribe, PauseAgent, ResumeAgent, StopAgent, SetStatus, Snapshot, Restore, Publish, Histories,
           history
<1>2. CASE Bus
  BY <1>2 DEF Bus, CallHandler, Published, PublishRaises, HandlerReturns, HandlerRaises, Catch,
           Histories, history
<1>3. CASE Work
  BY <1>3 DEF Work, TickEnds, TakeJob, StartJob, RunCycle, FailJob, FinishJob, TickReraises, TickRaises,
           CycleSucceeds, CycleFails, Histories, history
<1>4. QED
  BY <1>1, <1>2, <1>3 DEF Next

\* A new job is queued.
LEMMA JobsCount ==
  ASSUME FramesInv, Next
  PROVE  \/ jobs' = jobs
         \/ \E n : n = jobs + 1 /\ jobs' = n /\ Queued(n)'
<1>1. ASSUME NEW list \in AgentLists, Schedule(list)
      PROVE  \E n : n = jobs + 1 /\ jobs' = n /\ Queued(n)'
  <2>1. PICK q, j, n : q = queue /\ j = [id |-> jobs + 1, agents |-> list] /\ n = jobs
    OBVIOUS
  <2>2. q \in Seq(Jobs) /\ queue' = Append(q, j) /\ jobs' = n + 1 /\ j.id = n + 1
    BY <1>1, <2>1 DEF Schedule, FramesInv, TypeOK
  <2>3. Append(q, j)[Len(q) + 1] = j /\ Len(q) + 1 \in DOMAIN Append(q, j)
    BY <2>2
  <2>4. \E i \in DOMAIN queue' : queue'[i].id = n + 1
    BY <2>2, <2>3
  <2>5. Queued(n + 1)'
    BY <2>4 DEF Queued
  <2>7. QED
    BY <2>1, <2>2, <2>5
<1>2. CASE UNCHANGED jobs
  BY <1>2
<1>3. QED
  BY <1>1, <1>2
     DEF Next, Operation, Bus, Work, StopAll, Cancel, Clear, Pause, Resume, Tick, Unsubscribe, Subscribe,
         PauseAgent, ResumeAgent, StopAgent, SetStatus, Snapshot, Restore, CallHandler, Published,
         PublishRaises, HandlerReturns, HandlerRaises, Catch, TickEnds, TakeJob, StartJob, RunCycle,
         FinishJob, TickReraises, TickRaises, CycleSucceeds, CycleFails, bounds

LEMMA JobsInvStep ==
  ASSUME FramesInv, JobsInv, [Next]_vars
  PROVE  JobsInv'
<1>0. /\ NoJobLost <=> \A j \in 1 .. jobs : j \in ended \cup removed \cup interrupted
                                            \/ Queued(j) \/ Works(j)
      /\ NoJobLost' <=> \A j \in 1 .. jobs' : j \in ended' \cup removed' \cup interrupted'
                                              \/ Queued(j)' \/ Works(j)'
  BY DEF NoJobLost, Queued, Works
<1>1. CASE UNCHANGED vars
  BY <1>1 DEF vars, scheduler, bounds, history, JobsInv, NoJobLost, FailedAreEnded
<1>2. CASE Next
  <2>1. Histories
    BY <1>2, HistoriesGrow
  <2>2. jobs \in Nat
    BY SchedulerAssumption DEF FramesInv, CountsOK
  <2>3. NoJobLost'
    <3>1. SUFFICES ASSUME NEW j \in 1 .. jobs'
                   PROVE  j \in ended' \cup removed' \cup interrupted' \/ Queued(j)' \/ Works(j)'
      BY <1>0
    <3>2. CASE j \in 1 .. jobs
      <4>1. j \in ended \cup removed \cup interrupted \/ Queued(j) \/ Works(j)
        BY <1>0, <3>2 DEF JobsInv
      <4>2. j \in Nat \ {0}
        BY <2>2, <3>2
      <4>3. QED
        BY <1>2, <2>1, <4>1, <4>2, QueuedOn, WorkedOn DEF Histories, JobsInv
    <3>3. CASE j \notin 1 .. jobs
      <4>1. PICK n : n = jobs + 1 /\ jobs' = n /\ Queued(n)'
        BY <1>2, <3>1, <3>3, JobsCount
      <4>2. j = n
        BY <2>2, <3>1, <3>3, <4>1
      <4>3. QED
        BY <4>1, <4>2
    <3>4. QED
      BY <3>2, <3>3
  <2>4. FailedAreEnded'
    <3>1. SUFFICES ASSUME NEW i \in DOMAIN stack', stack'[i].kind = "tick", stack'[i].at = "failed"
                   PROVE  stack'[i].job \in ended'
      BY DEF FailedAreEnded
    <3>2. CASE i \in DOMAIN stack /\ stack'[i] = stack[i]
      BY <2>1, <3>1, <3>2 DEF JobsInv, FailedAreEnded, Histories
    <3>3. CASE FailJob /\ stack'[i].job = Top.job
      BY <3>3 DEF FailJob
    <3>4. \/ i \in DOMAIN stack /\ stack'[i] = stack[i]
          \/ FailJob /\ stack'[i].job = Top.job
      <4>1. \A name \in EventNames : stack'[i] # Publishing(name)
        BY <3>1, PublishingFacts
      <4>2. PICK f, h : /\ f = [Top EXCEPT !.todo = Tail(@)]
                        /\ h = [kind |-> "handler", name |-> Top.name, handler |-> Head(Top.todo)]
        OBVIOUS
      <4>3. CallHandler => f.kind # "tick" /\ h.kind # "tick"
        BY <4>2, HandlerCalled
      <4>4. \/ i \in DOMAIN stack /\ stack'[i] = stack[i]
            \/ stack'[i].kind = "cycle"
            \/ FailJob /\ stack'[i].job = Top.job
            \/ \E name \in EventNames : stack'[i] = Publishing(name)
            \/ CallHandler /\ stack'[i] \in {f, h}
        BY <1>2, <3>1, <4>2, FramesCome
      <4>5. QED
        BY <3>1, <4>1, <4>3, <4>4
    <3>5. QED
      BY <3>2, <3>3, <3>4
  <2>5. QED
    BY <2>3, <2>4 DEF JobsInv
<1>3. QED
  BY <1>1, <1>2

(***************************************************************************)
(* Handlers of once: who knows them                                        *)
(***************************************************************************)
\* A handler is subscribed to, about to be called for or in a call of an event.
Carries(f, n, h) ==
  \/ f.kind = "publish" /\ f.name = n /\ h \in ToSet(f.todo)
  \/ f.kind = "handler" /\ f.name = n /\ f.handler = h

Knows(n, h) ==
  h \in ToSet(subscribers[n]) \/ \E i \in DOMAIN stack : Carries(stack[i], n, h)

\* It belongs to one event.
KnownByOne ==
  \A n \in Names : \A h \in Handlers : Knows(n, h) =>
    /\ h.id <= handlers
    /\ \A m \in Names : \A g \in Handlers : Knows(m, g) /\ g.id = h.id => m = n /\ g = h

ServedAreGone ==
  /\ served \subseteq 0 .. handlers
  /\ \A n \in Names : \A h \in ToSet(subscribers[n]) : h.id \notin served

\* What is still to be called although it was served is left of a publication
\* around the one that served it.
ServedInNested ==
  \A i \in DOMAIN stack : stack[i].kind = "publish" =>
    \A h \in ToSet(stack[i].todo) : h.id \in served => stack[i].name \in nested

TwiceIsNested ==
  \A i, j \in DOMAIN stack :
    /\ i # j
    /\ stack[i].kind = "publish" /\ stack[j].kind = "publish" /\ stack[i].name = stack[j].name
    => stack[i].name \in nested

OnceInv ==
  /\ KnownByOne /\ ServedAreGone /\ ServedInNested /\ TwiceIsNested
  /\ OnceUnlessNested

\* A publication that has handlers to call is of an event that has any.
LEMMA PublishedTodo ==
  ASSUME FramesInv, NEW f \in Frames, Sound(f), f.kind = "publish"
  PROVE  f.name \in EventNames /\ \A h \in ToSet(f.todo) : h \in Handlers /\ f.name \in Names
<1>1. f.name \in EventNames /\ f.todo \in Seq(Handlers)
  BY FrameKinds DEF PublishFrames
<1>2. ASSUME NEW h \in ToSet(f.todo)
      PROVE  h \in Handlers /\ f.name \in Names
  <2>1. PICK k \in DOMAIN f.todo : f.todo[k] = h
    BY <1>2 DEF ToSet
  <2>2. f.todo # << >>
    BY <1>1, <2>1
  <2>3. QED
    BY <1>1, <2>1, <2>2 DEF Sound
<1>3. QED
  BY <1>1, <1>2

\* Nobody gets to know a handler but by its subscription.
LEMMA KeptFromBefore ==
  ASSUME FramesInv, Next, NEW i \in DOMAIN stack', NEW n \in Names, NEW h,
         Carries(stack'[i], n, h)
  PROVE  Knows(n, h)
<1>1. CASE i \in DOMAIN stack /\ stack'[i] = stack[i]
  BY <1>1 DEF Knows
<1>2. ASSUME NEW name \in EventNames, stack'[i] = Publishing(name)
      PROVE  Knows(n, h)
  <2>1. Publishing(name).kind = "publish" /\ Publishing(name).name = name
    BY PublishingFacts
  <2>2. n = name /\ h \in ToSet(Publishing(name).todo)
    BY <1>2, <2>1 DEF Carries
  <2>3. Publishing(name).todo = subscribers[name]
    BY <2>2 DEF Publishing
  <2>4. QED
    BY <2>2, <2>3 DEF Knows
<1>3. ASSUME CallHandler, NEW f, NEW g,
             f = [Top EXCEPT !.todo = Tail(@)],
             g = [kind |-> "handler", name |-> Top.name, handler |-> Head(Top.todo)],
             stack'[i] = f \/ stack'[i] = g
      PROVE  Knows(n, h)
  <2>1. /\ f.kind = "publish" /\ f.name = Top.name /\ f.todo = Tail(Top.todo)
        /\ Head(Top.todo) \in ToSet(Top.todo)
        /\ ToSet(Tail(Top.todo)) \subseteq ToSet(Top.todo)
    BY <1>3, HandlerCalled
  <2>2. g.kind = "handler" /\ g.name = Top.name /\ g.handler = Head(Top.todo)
    BY <1>3
  <2>3. stack # << >> /\ Top.kind = "publish"
    BY <1>3 DEF CallHandler, Running
  <2>4. n = Top.name /\ h \in ToSet(Top.todo)
    BY <1>3, <2>1, <2>2 DEF Carries
  <2>5. Len(stack) \in DOMAIN stack /\ Top = stack[Len(stack)]
    BY <2>3, TopFacts
  <2>6. QED
    BY <2>3, <2>4, <2>5 DEF Knows, Carries
<1>4. PICK f, g : /\ f = [Top EXCEPT !.todo = Tail(@)]
                  /\ g = [kind |-> "handler", name |-> Top.name, handler |-> Head(Top.todo)]
  OBVIOUS
<1>5. stack'[i].kind \notin {"tick", "cycle"}
  BY DEF Carries
<1>6. \/ i \in DOMAIN stack /\ stack'[i] = stack[i]
      \/ \E name \in EventNames : stack'[i] = Publishing(name)
      \/ CallHandler /\ (stack'[i] = f \/ stack'[i] = g)
  BY <1>4, <1>5, FramesCome
<1>7. QED
  BY <1>1, <1>2, <1>3, <1>4, <1>6

\* What a publication on the stack was before the step.
LEMMA PublicationsCome ==
  ASSUME FramesInv, Next, NEW i \in DOMAIN stack', stack'[i].kind = "publish"
  PROVE  \/ /\ i \in DOMAIN stack /\ stack[i].kind = "publish"
            /\ stack'[i].name = stack[i].name
            /\ ToSet(stack'[i].todo) \subseteq ToSet(stack[i].todo)
         \/ /\ i = Len(stack') /\ Noted(stack'[i].name)
            /\ stack'[i] = Publishing(stack'[i].name) /\ stack'[i].name \in EventNames
<1>1. CASE i \in DOMAIN stack /\ stack'[i] = stack[i]
  BY <1>1
<1>2. ASSUME NEW name \in EventNames, i = Len(stack'), stack'[i] = Publishing(name), Noted(name)
      PROVE  /\ i = Len(stack') /\ Noted(stack'[i].name)
             /\ stack'[i] = Publishing(stack'[i].name) /\ stack'[i].name \in EventNames
  <2>1. stack'[i].name = name
    BY <1>2, PublishingFacts
  <2>2. QED
    BY <1>2, <2>1
<1>3. PICK f, g : /\ f = [Top EXCEPT !.todo = Tail(@)]
                  /\ g = [kind |-> "handler", name |-> Top.name, handler |-> Head(Top.todo)]
  OBVIOUS
<1>4. CASE CallHandler /\ i \in DOMAIN stack /\ i = Len(stack) /\ stack'[i] = f
  <2>1. /\ f.kind = "publish" /\ f.name = Top.name /\ f.todo = Tail(Top.todo)
        /\ ToSet(Tail(Top.todo)) \subseteq ToSet(Top.todo)
    BY <1>3, <1>4, HandlerCalled
  <2>2. stack # << >> /\ Top.kind = "publish"
    BY <1>4 DEF CallHandler, Running
  <2>3. Top = stack[i]
    BY <1>4, <2>2, TopFacts
  <2>4. QED
    BY <1>4, <2>1, <2>2, <2>3
<1>5. g.kind # "publish"
  BY <1>3
<1>6. \/ i \in DOMAIN stack /\ stack'[i] = stack[i]
      \/ \E name \in EventNames : i = Len(stack') /\ stack'[i] = Publishing(name) /\ Noted(name)
      \/ CallHandler /\ i \in DOMAIN stack /\ i = Len(stack) /\ stack'[i] = f
  BY <1>3, <1>5, FramesCome
<1>7. QED
  BY <1>1, <1>2, <1>4, <1>6

\* Who writes the history of the handlers.
LEMMA OnceSteps ==
  ASSUME FramesInv, Next
  PROVE  /\ nested \subseteq nested'
         /\ again' = again \/ CallHandler
         /\ served' = served \/ HandlerReturns
<1>1. CASE Operation
  BY <1>1 DEF Operation, Schedule, StopAll, Cancel, Clear, Pause, Resume, Tick, Unsubscribe,
           Subscribe, PauseAgent, ResumeAgent, StopAgent, SetStatus, Snapshot, Restore, Publish, history,
           Noted
<1>2. CASE Bus
  BY <1>2 DEF Bus, CallHandler, Published, PublishRaises, HandlerReturns, HandlerRaises, Catch, history
<1>3. CASE Work
  BY <1>3 DEF Work, TickEnds, TakeJob, StartJob, RunCycle, FailJob, FinishJob, TickReraises, TickRaises,
           CycleSucceeds, CycleFails, history, Noted
<1>4. QED
  BY <1>1, <1>2, <1>3 DEF Next

\* A handler of once that completes is not subscribed any more.
LEMMA Returned ==
  ASSUME FramesInv, HandlerReturns
  PROVE  /\ Popped /\ stack # << >> /\ Top.kind = "handler" /\ UNCHANGED <<handlers, nested, again>>
         /\ Top.name \in Names /\ Top.handler \in Handlers /\ Knows(Top.name, Top.handler)
         /\ \/ served' = served
            \/ served' = served \cup {Top.handler.id} /\ Top.handler \notin ToSet(subscribers'[Top.name])
<1>1. /\ Popped /\ stack # << >> /\ Top.kind = "handler" /\ UNCHANGED <<handlers, nested, again>>
  BY DEF HandlerReturns, Running, Return, Throw, Popped, bounds
<1>2. Top.name \in Names /\ Top.handler \in Handlers
  BY <1>1, HandlerOnTop
<1>3. Len(stack) \in DOMAIN stack /\ Top = stack[Len(stack)]
  BY <1>1, TopFacts
<1>4. Knows(Top.name, Top.handler)
  BY <1>1, <1>3 DEF Knows, Carries
<1>5. PICK n, h : n = Top.name /\ h = Top.handler
  OBVIOUS
<1>6. CASE h.once
  <2>1. served' = served \cup {Top.handler.id}
    BY <1>5, <1>6 DEF HandlerReturns
  <2>2. CASE Contains(subscribers[n], h)
    <3>1. subscribers' = Without(n, h) /\ h \in ToSet(subscribers[n])
      BY <1>5, <1>6, <2>2 DEF HandlerReturns, Contains, ToSet
    <3>2. subscribers[n] \in Seq(Handlers) /\ Distinct(subscribers[n])
      BY <1>2, <1>5 DEF FramesInv, TypeOK, CountsOK
    <3>3. ToSet(RemoveFirst(subscribers[n], h)) = ToSet(subscribers[n]) \ {h}
      BY <3>1, <3>2, RemoveFirstFacts
    <3>4. subscribers'[n] = RemoveFirst(subscribers[n], h)
      BY <1>2, <1>5, <3>1 DEF Without, FramesInv, TypeOK
    <3>5. QED
      BY <1>1, <1>2, <1>4, <1>5, <2>1, <3>3, <3>4
  <2>3. CASE ~Contains(subscribers[n], h)
    <3>0. subscribers[n] \in Seq(Handlers)
      BY <1>2, <1>5 DEF FramesInv, TypeOK
    <3>1. UNCHANGED subscribers /\ h \notin ToSet(subscribers[n])
      BY <1>5, <1>6, <2>3, <3>0 DEF HandlerReturns, Contains, ToSet
    <3>2. QED
      BY <1>1, <1>2, <1>4, <1>5, <2>1, <3>1
  <2>4. QED
    BY <2>2, <2>3
<1>7. CASE ~h.once
  <2>1. served' = served
    BY <1>5, <1>7 DEF HandlerReturns
  <2>2. QED
    BY <1>1, <1>2, <1>4, <2>1
<1>8. QED
  BY <1>6, <1>7

\* Subscribers after a step: none but a new one.
LEMMA SubscribersLess ==
  ASSUME FramesInv, Next
  PROVE  \/ /\ UNCHANGED handlers
            /\ \A n \in Names : ToSet(subscribers'[n]) \subseteq ToSet(subscribers[n])
         \/ \E name \in Names, once \in BOOLEAN : Subscribe(name, once)
<1>1. ASSUME NEW name \in Names, NEW h \in ToSet(subscribers[name]), UNCHANGED handlers,
             subscribers' = Without(name, h)
      PROVE  \A n \in Names : ToSet(subscribers'[n]) \subseteq ToSet(subscribers[n])
  <2>1. subscribers[name] \in Seq(Handlers) /\ Distinct(subscribers[name])
    BY DEF FramesInv, TypeOK, CountsOK
  <2>2. ToSet(RemoveFirst(subscribers[name], h)) = ToSet(subscribers[name]) \ {h}
    BY <2>1, RemoveFirstFacts
  <2>3. subscribers \in [Names -> Seq(Handlers)]
    BY DEF FramesInv, TypeOK
  <2>4. QED
    BY <1>1, <2>2, <2>3 DEF Without
<1>2. QED
  BY <1>1, SubscriptionMoves

\* A new subscription has a new number.
LEMMA Subscribed ==
  ASSUME FramesInv, NEW name \in Names, NEW once \in BOOLEAN, Subscribe(name, once)
  PROVE  \E new \in Handlers :
           /\ new.id = handlers + 1 /\ handlers' = handlers + 1
           /\ UNCHANGED <<stack, history>>
           /\ \A n \in Names : ToSet(subscribers'[n]) =
                IF n = name THEN ToSet(subscribers[n]) \cup {new} ELSE ToSet(subscribers[n])
<1>1. PICK new : new = [id |-> handlers + 1, once |-> once]
  OBVIOUS
<1>2. handlers' = handlers + 1 /\ handlers < MaxHandlers /\ UNCHANGED <<stack, history>>
  BY DEF Subscribe
<1>3. MaxHandlers \in Nat /\ handlers \in Nat
  BY SchedulerAssumption DEF FramesInv, CountsOK
<1>4. new \in Handlers /\ new.id = handlers + 1
  BY <1>1, <1>2, <1>3 DEF Handlers
<1>5. subscribers' = [subscribers EXCEPT ![name] = Append(@, new)]
  BY <1>1 DEF Subscribe
<1>6. subscribers \in [Names -> Seq(Handlers)]
  BY DEF FramesInv, TypeOK
<1>7. ASSUME NEW s \in Seq(Handlers)
      PROVE  ToSet(Append(s, new)) = ToSet(s) \cup {new}
  <2>1. PICK t : t = Append(s, new)
    OBVIOUS
  <2>2. /\ DOMAIN t = 1 .. Len(s) + 1 /\ DOMAIN s = 1 .. Len(s) /\ Len(s) \in Nat
        /\ t[Len(s) + 1] = new /\ \A i \in 1 .. Len(s) : t[i] = s[i]
    BY <1>4, <2>1
  <2>3. Len(s) + 1 \in DOMAIN t /\ DOMAIN t = DOMAIN s \cup {Len(s) + 1}
    BY <2>2
  <2>4. ToSet(t) = ToSet(s) \cup {new}
    BY <2>2, <2>3 DEF ToSet
  <2>5. QED
    BY <2>1, <2>4
<1>8. QED
  BY <1>2, <1>4, <1>5, <1>6, <1>7

LEMMA KnownByOneStep ==
  ASSUME FramesInv, OnceInv, Next
  PROVE  KnownByOne' /\ ServedAreGone'
<1>0. handlers \in Nat /\ \A h \in Handlers : h.id \in Nat
  BY SchedulerAssumption DEF FramesInv, CountsOK, Handlers
<1>1. ASSUME UNCHANGED handlers,
             \A n \in Names : ToSet(subscribers'[n]) \subseteq ToSet(subscribers[n])
      PROVE  KnownByOne' /\ ServedAreGone'
  <2>1. ASSUME NEW n \in Names, NEW h \in Handlers, Knows(n, h)'
        PROVE  Knows(n, h)
    <3>1. CASE h \in ToSet(subscribers'[n])
      BY <1>1, <3>1 DEF Knows
    <3>2. CASE \E i \in DOMAIN stack' : Carries(stack'[i], n, h)
      BY <3>2, KeptFromBefore
    <3>3. QED
      BY <2>1, <3>1, <3>2 DEF Knows
  <2>2. KnownByOne'
    BY <1>1, <2>1 DEF OnceInv, KnownByOne
  <2>3. ServedAreGone'
    <3>1. CASE served' = served
      BY <1>1, <3>1 DEF OnceInv, ServedAreGone
    <3>2. CASE HandlerReturns /\ served' # served
      <4>1. PICK n, h : n = Top.name /\ h = Top.handler
        OBVIOUS
      <4>2. /\ n \in Names /\ h \in Handlers /\ Knows(n, h)
            /\ served' = served \cup {h.id} /\ h \notin ToSet(subscribers'[n])
        BY <3>2, <4>1, Returned
      <4>3. h.id \in 0 .. handlers
        BY <1>0, <4>2 DEF OnceInv, KnownByOne
      <4>4. ASSUME NEW m \in Names, NEW g \in ToSet(subscribers'[m])
            PROVE  g.id \notin served'
        <5>1. g \in ToSet(subscribers[m])
          BY <1>1, <4>4
        <5>2. g \in Handlers /\ Knows(m, g)
          BY <5>1 DEF Knows, ToSet, FramesInv, TypeOK
        <5>3. g.id = h.id => m = n /\ g = h
          BY <4>2, <5>2 DEF OnceInv, KnownByOne
        <5>4. QED
          BY <4>2, <4>4, <5>1, <5>3 DEF OnceInv, ServedAreGone
      <4>5. served' \subseteq 0 .. handlers'
        BY <1>1, <4>2, <4>3 DEF OnceInv, ServedAreGone
      <4>6. QED
        BY <4>4, <4>5 DEF ServedAreGone
    <3>3. QED
      BY <3>1, <3>2, OnceSteps
  <2>4. QED
    BY <2>2, <2>3
<1>2. ASSUME NEW name \in Names, NEW once \in BOOLEAN, Subscribe(name, once)
      PROVE  KnownByOne' /\ ServedAreGone'
  <2>1. PICK new \in Handlers :
          /\ new.id = handlers + 1 /\ handlers' = handlers + 1
          /\ UNCHANGED <<stack, history>>
          /\ \A n \in Names : ToSet(subscribers'[n]) =
               IF n = name THEN ToSet(subscribers[n]) \cup {new} ELSE ToSet(subscribers[n])
    BY <1>2, Subscribed
  <2>2. ASSUME NEW n \in Names, NEW h \in Handlers, Knows(n, h)'
        PROVE  Knows(n, h) \/ (n = name /\ h = new)
    BY <2>1, <2>2 DEF Knows
  <2>3. ASSUME NEW n \in Names, NEW h \in Handlers, Knows(n, h)
        PROVE  h.id <= handlers /\ h.id \in Nat /\ h.id # new.id
    BY <1>0, <2>1, <2>3 DEF OnceInv, KnownByOne
  <2>4. KnownByOne'
    <3>1. ASSUME NEW n \in Names, NEW h \in Handlers, Knows(n, h)'
          PROVE  h.id <= handlers'
      BY <1>0, <2>1, <2>2, <2>3, <3>1
    <3>2. ASSUME NEW n \in Names, NEW h \in Handlers, Knows(n, h)',
                 NEW m \in Names, NEW g \in Handlers, Knows(m, g)', g.id = h.id
          PROVE  m = n /\ g = h
      <4>1. CASE Knows(n, h) /\ Knows(m, g)
        BY <3>2, <4>1 DEF OnceInv, KnownByOne
      <4>2. CASE ~Knows(n, h) \/ ~Knows(m, g)
        BY <2>2, <2>3, <3>2, <4>2
      <4>3. QED
        BY <4>1, <4>2
    <3>3. QED
      BY <3>1, <3>2 DEF KnownByOne
  <2>5. ServedAreGone'
    <3>1. served' = served /\ new.id \notin served
      BY <1>0, <2>1 DEF history, OnceInv, ServedAreGone
    <3>2. served' \subseteq 0 .. handlers'
      BY <1>0, <2>1, <3>1 DEF OnceInv, ServedAreGone
    <3>3. QED
      BY <2>1, <3>1, <3>2 DEF OnceInv, ServedAreGone
  <2>6. QED
    BY <2>4, <2>5
<1>3. QED
  BY <1>1, <1>2, SubscribersLess

LEMMA NestedStep ==
  ASSUME FramesInv, OnceInv, Next
  PROVE  ServedInNested' /\ TwiceIsNested'
<1>0. stack \in Seq(Frames) /\ Len(stack) \in Nat /\ DOMAIN stack = 1 .. Len(stack)
  BY DEF FramesInv, TypeOK
<1>1. nested \subseteq nested'
  BY OnceSteps
<1>2. ASSUME NEW i \in DOMAIN stack', stack'[i].kind = "publish",
             NEW h \in ToSet(stack'[i].todo), h.id \in served'
      PROVE  stack'[i].name \in nested'
  <2>1. CASE HandlerReturns /\ h.id \notin served
    <3>1. /\ Popped /\ stack # << >> /\ Top.kind = "handler"
          /\ Top.name \in Names /\ Top.handler \in Handlers /\ Knows(Top.name, Top.handler)
          /\ h.id = Top.handler.id
      BY <1>2, <2>1, Returned
    <3>2. /\ stack' \in Seq(Frames) /\ Len(stack') = Len(stack) - 1
          /\ Below(Len(stack)) /\ Top = stack[Len(stack)]
      BY <3>1, PopFacts
    <3>3. i \in 1 .. Len(stack) - 1 /\ stack'[i] = stack[i] /\ i \in DOMAIN stack
      BY <1>0, <1>2, <3>2 DEF Below
    <3>4. stack[i] \in Frames /\ Sound(stack[i])
      BY <1>0, <3>3 DEF FramesInv, StackSound
    <3>5. h \in Handlers /\ stack[i].name \in Names
      BY <1>2, <3>3, <3>4, PublishedTodo
    <3>6. Knows(stack[i].name, h)
      BY <1>2, <3>3 DEF Knows, Carries
    <3>7. stack[i].name = Top.name /\ h = Top.handler
      BY <3>1, <3>5, <3>6 DEF OnceInv, KnownByOne
    <3>8. PICK k : k = Len(stack) - 1
      OBVIOUS
    <3>9. k \in DOMAIN stack /\ Called(stack[k], Top)
      BY <1>0, <3>1, <3>8, HandlerOnTop
    <3>10. stack[k].kind = "publish" /\ stack[k].name = Top.name /\ h \notin ToSet(stack[k].todo)
      BY <3>1, <3>7, <3>9 DEF Called
    <3>11. i # k
      BY <1>2, <3>3, <3>10
    <3>12. stack[i].name \in nested
      BY <1>2, <3>3, <3>7, <3>9, <3>10, <3>11 DEF OnceInv, TwiceIsNested
    <3>13. QED
      BY <1>1, <3>3, <3>12
  <2>2. CASE h.id \in served
    <3>1. CASE /\ i \in DOMAIN stack /\ stack[i].kind = "publish"
               /\ stack'[i].name = stack[i].name
               /\ ToSet(stack'[i].todo) \subseteq ToSet(stack[i].todo)
      BY <1>1, <1>2, <2>2, <3>1 DEF OnceInv, ServedInNested
    <3>2. CASE stack'[i] = Publishing(stack'[i].name) /\ stack'[i].name \in EventNames
      <4>1. PICK n : n = stack'[i].name
        OBVIOUS
      <4>2. h \in ToSet(Publishing(n).todo) /\ n \in EventNames
        BY <1>2, <3>2, <4>1
      <4>3. n \in Names
        BY <4>2, PublishingFacts, PublishedTodo
      <4>4. h \in ToSet(subscribers[n])
        BY <4>2, <4>3 DEF Publishing
      <4>5. QED
        BY <2>2, <4>3, <4>4 DEF OnceInv, ServedAreGone
    <3>3. QED
      BY <1>2, <3>1, <3>2, PublicationsCome
  <2>3. QED
    BY <1>2, <2>1, <2>2, OnceSteps
<1>3. ASSUME NEW i \in DOMAIN stack', NEW j \in DOMAIN stack', i # j,
             stack'[i].kind = "publish", stack'[j].kind = "publish",
             stack'[i].name = stack'[j].name
      PROVE  stack'[i].name \in nested'
  <2>1. PICK n : n = stack'[i].name
    OBVIOUS
  <2>2. \/ i \in DOMAIN stack /\ stack[i].kind = "publish" /\ stack[i].name = n
        \/ i = Len(stack') /\ Noted(n)
    BY <1>3, <2>1, PublicationsCome
  <2>3. \/ j \in DOMAIN stack /\ stack[j].kind = "publish" /\ stack[j].name = n
        \/ j = Len(stack') /\ Noted(n)
    BY <1>3, <2>1, PublicationsCome
  <2>4. CASE /\ i \in DOMAIN stack /\ stack[i].kind = "publish" /\ stack[i].name = n
             /\ j \in DOMAIN stack /\ stack[j].kind = "publish" /\ stack[j].name = n
    BY <1>1, <1>3, <2>1, <2>4 DEF OnceInv, TwiceIsNested
  <2>5. CASE /\ Noted(n)
             /\ \E k \in DOMAIN stack : stack[k].kind = "publish" /\ stack[k].name = n
    BY <2>1, <2>5 DEF Noted
  <2>6. QED
    BY <1>3, <2>2, <2>3, <2>4, <2>5
<1>4. ServedInNested'
  BY <1>2 DEF ServedInNested
<1>5. TwiceIsNested'
  BY <1>3 DEF TwiceIsNested
<1>6. QED
  BY <1>4, <1>5

LEMMA OnceInvStep ==
  ASSUME FramesInv, OnceInv, [Next]_vars
  PROVE  OnceInv'
<1>1. CASE UNCHANGED vars
  BY <1>1 DEF vars, bounds, history, OnceInv, KnownByOne, Knows, ServedAreGone, ServedInNested,
           TwiceIsNested, OnceUnlessNested
<1>2. CASE Next
  <2>1. KnownByOne' /\ ServedAreGone' /\ ServedInNested' /\ TwiceIsNested'
    BY <1>2, KnownByOneStep, NestedStep
  <2>2. OnceUnlessNested'
    <3>1. CASE again' = again
      BY <1>2, <3>1, OnceSteps DEF OnceInv, OnceUnlessNested
    <3>2. CASE CallHandler
      <4>1. stack # << >> /\ Top.kind = "publish" /\ UNCHANGED nested
        BY <3>2 DEF CallHandler, Running
      <4>2. Len(stack) \in DOMAIN stack /\ Top = stack[Len(stack)]
        BY <4>1, TopFacts
      <4>3. Head(Top.todo) \in ToSet(Top.todo)
        BY <3>2, HandlerCalled
      <4>4. Head(Top.todo).id \in served => Top.name \in nested
        BY <4>1, <4>2, <4>3 DEF OnceInv, ServedInNested
      <4>5. QED
        BY <3>2, <4>1, <4>4 DEF CallHandler, OnceInv, OnceUnlessNested
    <3>3. QED
      BY <1>2, <3>1, <3>2, OnceSteps
  <2>3. QED
    BY <2>1, <2>2 DEF OnceInv
<1>3. QED
  BY <1>1, <1>2

LEMMA ServedInit == Init => JobsInv /\ OnceInv
<1> SUFFICES ASSUME Init PROVE JobsInv /\ OnceInv
  OBVIOUS
<1>1. JobsInv
  BY DEF Init, JobsInv, NoJobLost, FailedAreEnded
<1>2. /\ stack = << >> /\ served = {} /\ again = {} /\ nested = {} /\ handlers = 0
      /\ \A n \in Names : ToSet(subscribers[n]) = {}
  BY DEF Init, ToSet
<1>3. KnownByOne
  BY <1>2 DEF KnownByOne, Knows
<1>4. QED
  BY <1>1, <1>2, <1>3 DEF OnceInv, ServedAreGone, ServedInNested, TwiceIsNested, OnceUnlessNested

\* However calls nest and whatever raises: no scheduled job gets lost, but for the
\* one whose start a subscriber made fail, and a handler of once that completed is
\* called again only by an event published inside itself (AutonomousScheduler.tick,
\* EventBus.publish and once).
THEOREM JobsAndHandlersServedOnce == Spec => []ServedOnce
<1>1. Init => FramesInv /\ JobsInv /\ OnceInv
  BY FramesInvInit, ServedInit
<1>2. FramesInv /\ JobsInv /\ OnceInv /\ [Next]_vars => FramesInv' /\ JobsInv' /\ OnceInv'
  BY FramesInvStep, JobsInvStep, OnceInvStep
<1>3. JobsInv /\ OnceInv => ServedOnce
  BY DEF JobsInv, OnceInv, ServedOnce
<1>4. QED
  BY <1>1, <1>2, <1>3, PTL DEF Spec

-----------------------------------------------------------------------------
(***************************************************************************)
(* A session: AnalysisSession                                              *)
(***************************************************************************)
Commands ==
  [kind : {"none", "chat", "auto"}, cycles : Nat, left : Nat, first : Nat, number : Nat]

Turn == {"USER", "ASSISTANT"}

SessionTypeOK ==
  /\ phase \in Phases /\ command \in Commands /\ autonomous \in {"IDLE", "ERROR"}
  /\ chart \in Nat /\ records \in Nat /\ began \in Nat /\ analyses \in Nat /\ run \in Nat
  /\ drawn \in BOOLEAN
  /\ conversation \in Seq(Turn)
  /\ \A r \in reports : r.number \in Nat /\ r.cycles \in Nat /\ r.results \in Nat

Underway == {"tool", "text", "look", "reply"}

Ongoing == {"run"} \cup Underway

\* A command that runs is a question or an auto with cycles left, and its first run
\* is the next one or has begun.
CommandOK ==
  /\ command.first <= run + 1
  /\ phase \in Ongoing => command.kind \in {"chat", "auto"}
  /\ phase \in Underway => command.first <= run
  /\ phase \in Ongoing /\ command.kind = "auto" =>
       command.left >= 1 /\ command.left <= command.cycles /\ autonomous = "IDLE"

\* What is in the file of the command that runs.
ChartOK ==
  /\ phase \in Ongoing => chart = 0 \/ (command.first <= chart /\ chart <= run)
  /\ phase = "tool" => ~drawn /\ chart < run
  /\ phase \in {"text", "look"} => IF drawn THEN chart = run ELSE chart < run

\* The reports are of the commands before.
ReportsOK ==
  /\ \A r \in reports : r.number <= command.number
  /\ phase \in Ongoing /\ command.kind = "auto" =>
       \A r \in reports : r.number < command.number

SessionInv ==
  /\ SessionTypeOK /\ CommandOK /\ ChartOK /\ ReportsOK
  /\ ToolsArePrivate /\ TurnsAlternate /\ ChartsAreOfTheCommand /\ AutoReportsAllOrNone
  /\ VerdictCountsAnalyses

LEMMA PhaseNames ==
  /\ Phases = {"prompt", "run", "tool", "text", "look", "reply", "over"}
  /\ Underway = {"tool", "text", "look", "reply"}
  /\ Ongoing = {"run", "tool", "text", "look", "reply"}
BY DEF Phases, Underway, Ongoing

LEMMA SumsOfNaturals ==
  ASSUME NEW a \in Nat
  PROVE  a + 1 \in Nat
OBVIOUS

LEMMA CommandFields ==
  ASSUME SessionTypeOK
  PROVE  /\ command.kind \in {"none", "chat", "auto"} /\ command.cycles \in Nat
         /\ command.left \in Nat /\ command.first \in Nat /\ command.number \in Nat
BY DEF SessionTypeOK, Commands

\* A policy on its way to the risk check, with nothing wrong with it.
LEMMA PolicyPasses ==
  ASSUME NEW p, Approved(p), NEW h \in 0 .. 2, p.halves = h
  PROVE  RiskApproved(Portfolio(Coordinate(PlanExecution(Intend(p))))) <=> h <= 1
<1>1. Intend(p) = [ready |-> TRUE, halves |-> h]
  BY DEF Intend, Approved
<1>2. PlanExecution([ready |-> TRUE, halves |-> h]) = [planned |-> TRUE, halves |-> h]
  BY DEF PlanExecution
<1>3. Coordinate([planned |-> TRUE, halves |-> h]) = [coordinated |-> TRUE, halves |-> h]
  BY DEF Coordinate
<1>4. Portfolio([coordinated |-> TRUE, halves |-> h]) = [approved |-> TRUE, allocation |-> h]
  BY DEF Portfolio
<1>5. RiskApproved([approved |-> TRUE, allocation |-> h]) <=> h <= 1
  BY DEF RiskApproved
<1>6. QED
  BY <1>1, <1>2, <1>3, <1>4, <1>5

\* The verdict is a matter of counting to 70.
LEMMA VerdictCounts ==
  ASSUME NEW n \in Nat
  PROVE  (Verdict(n) = "POSITIVE") <=> n < 70
<1>1. \E h \in 0 .. 2 : /\ Approved(Policy(Decide(n))) /\ Policy(Decide(n)).halves = h
                        /\ h <= 1 <=> n < 70
  <2>1. CASE n >= 70
    <3>1. Decide(n) = "BUY"
      BY <2>1 DEF Decide
    <3>2. Approved(Policy("BUY")) /\ Policy("BUY").halves = 2
      BY DEF Policy, Approved
    <3>3. QED
      BY <2>1, <3>1, <3>2
  <2>2. CASE n < 70 /\ n >= 45
    <3>1. Decide(n) = "HOLD"
      BY <2>2 DEF Decide
    <3>2. Approved(Policy("HOLD")) /\ Policy("HOLD").halves = 1
      BY DEF Policy, Approved
    <3>3. QED
      BY <2>2, <3>1, <3>2
  <2>3. CASE n < 45
    <3>1. Decide(n) = "SELL"
      BY <2>3 DEF Decide
    <3>2. Approved(Policy("SELL")) /\ Policy("SELL").halves = 0
      BY DEF Policy, Approved
    <3>3. QED
      BY <2>3, <3>1, <3>2
  <2>4. QED
    BY <2>1, <2>2, <2>3
<1>2. (RiskApproved(Portfolio(Coordinate(PlanExecution(Intend(Policy(Decide(n))))))))
        <=> n < 70
  BY <1>1, PolicyPasses
<1>3. QED
  BY <1>2 DEF Verdict, Learn

\* A new command.
LEMMA CommandGiven ==
  ASSUME SessionTypeOK, NEW kind \in {"chat", "auto"}, NEW cycles \in Nat,
         Command(kind, cycles)
  PROVE  /\ phase = "prompt" /\ chart' = 0 /\ command' \in Commands
         /\ command'.kind = kind /\ command'.cycles = cycles /\ command'.left = cycles
         /\ command'.first = run + 1 /\ command'.number = command.number + 1
<1>0. command.number \in Nat /\ run \in Nat
  BY CommandFields DEF SessionTypeOK
<1>1. PICK f \in Nat, m \in Nat : f = run + 1 /\ m = command.number + 1
  BY <1>0, SumsOfNaturals
<1>2. PICK c : c = [kind |-> kind, cycles |-> cycles, left |-> cycles, first |-> f,
                    number |-> m]
  OBVIOUS
<1>3. /\ c \in Commands /\ c.kind = kind /\ c.cycles = cycles /\ c.left = cycles
      /\ c.first = f /\ c.number = m
  BY <1>2 DEF Commands
<1>4. command' = c
  BY <1>1, <1>2 DEF Command
<1>5. QED
  BY <1>1, <1>3, <1>4 DEF Command

\* A report more.
LEMMA ReportAdded ==
  ASSUME SessionTypeOK, NEW n \in Nat, Report(n), command' \in Commands
  PROVE  \E r : /\ reports' = reports \cup {r}
                /\ r.number = command'.number /\ r.cycles = command'.cycles /\ r.results = n
                /\ r.number \in Nat /\ r.cycles \in Nat
<1>1. PICK m, c : m = command'.number /\ c = command'.cycles
  OBVIOUS
<1>2. PICK r : r = [number |-> m, cycles |-> c, results |-> n]
  OBVIOUS
<1>3. r.number = m /\ r.cycles = c /\ r.results = n
  BY <1>2
<1>4. m \in Nat /\ c \in Nat
  BY <1>1 DEF Commands
<1>5. reports' = reports \cup {r}
  BY <1>1, <1>2 DEF Report
<1>6. QED
  BY <1>1, <1>3, <1>4, <1>5

LEMMA Parity ==
  ASSUME NEW n \in Nat
  PROVE  /\ n % 2 = 0 \/ n % 2 = 1
         /\ n % 2 = 0 => (n + 1) % 2 = 1
         /\ n % 2 = 1 => (n + 1) % 2 = 0
OBVIOUS

\* A report that nothing came before, of a command of an agent that was not in
\* error, or of none of its cycles.
LEMMA ReportKeeps ==
  ASSUME SessionInv, NEW n \in Nat, Report(n), command' \in Commands,
         n = 0 \/ n = command'.cycles,
         \A r \in reports : r.number < command'.number,
         autonomous' = "IDLE" => autonomous = "IDLE" /\ n = command'.cycles,
         autonomous = "IDLE" \/ n = 0
  PROVE  /\ AutoReportsAllOrNone'
         /\ \A r \in reports' : r.number \in Nat /\ r.cycles \in Nat /\ r.results \in Nat
         /\ \A r \in reports' : r.number <= command'.number
<1>0. SessionTypeOK /\ AutoReportsAllOrNone
  BY DEF SessionInv
<1>1. PICK new : /\ reports' = reports \cup {new}
                 /\ new.number = command'.number /\ new.cycles = command'.cycles
                 /\ new.results = n /\ new.number \in Nat /\ new.cycles \in Nat
  BY <1>0, ReportAdded
<1>2. \A r \in reports : r.number \in Nat /\ r.cycles \in Nat /\ r.results \in Nat
  BY <1>0 DEF SessionTypeOK
<1>3. \A r \in reports : r.number < new.number /\ r.number <= new.number
  BY <1>1, <1>2
<1>4. \A r \in reports' : r.number \in Nat /\ r.cycles \in Nat /\ r.results \in Nat
  BY <1>1, <1>2
<1>5. \A r \in reports' : r.number <= command'.number
  BY <1>1, <1>3
<1>6. \A r \in reports' : r.results \in {0, r.cycles}
  <2>1. \A r \in reports : r.results \in {0, r.cycles}
    BY <1>0 DEF AutoReportsAllOrNone
  <2>2. new.results \in {0, new.cycles}
    BY <1>1
  <2>3. QED
    BY <1>1, <2>1, <2>2
<1>7. \A r, q \in reports' :
        r.cycles > 0 /\ r.results = 0 /\ q.number > r.number => q.results = 0
  <2>1. SUFFICES ASSUME NEW r \in reports', NEW q \in reports', r.cycles > 0, r.results = 0,
                        q.number > r.number, q.results # 0
                 PROVE  FALSE
    OBVIOUS
  <2>2. CASE r \in reports /\ q \in reports
    BY <1>0, <2>1, <2>2 DEF AutoReportsAllOrNone
  <2>3. CASE r = new
    BY <1>1, <1>2, <1>3, <2>1, <2>3
  <2>4. CASE r \in reports /\ q = new
    <3>1. r.results # r.cycles
      BY <1>2, <2>1, <2>4
    <3>2. autonomous # "IDLE"
      BY <1>0, <2>4, <3>1 DEF AutoReportsAllOrNone
    <3>3. QED
      BY <1>1, <2>1, <2>4, <3>2
  <2>5. QED
    BY <1>1, <2>2, <2>3, <2>4
<1>8. autonomous' = "IDLE" => \A r \in reports' : r.results = r.cycles
  <2>1. SUFFICES ASSUME autonomous' = "IDLE", NEW r \in reports'
                 PROVE  r.results = r.cycles
    OBVIOUS
  <2>2. CASE r \in reports
    BY <1>0, <2>1, <2>2 DEF AutoReportsAllOrNone
  <2>3. CASE r = new
    BY <1>1, <2>1, <2>3
  <2>4. QED
    BY <1>1, <2>2, <2>3
<1>9. QED
  BY <1>4, <1>5, <1>6, <1>7, <1>8 DEF AutoReportsAllOrNone

\* The conversation rests until it is the provider's turn again.
LEMMA TurnsRest ==
  ASSUME SessionInv, conversation' = conversation, phase' \in Phases,
         phase' \in Ongoing => \/ phase \in Ongoing /\ command'.kind = command.kind
                               \/ phase = "prompt" /\ command'.kind = "auto",
         phase' = "prompt" =>
           phase = "prompt" \/ (phase \in Ongoing /\ command.kind = "auto")
  PROVE  TurnsAlternate'
<1>1. TurnsAlternate /\ Len(conversation) \in Nat
  BY DEF SessionInv, SessionTypeOK
<1>2. Phases \ {"prompt", "over"} = Ongoing
  BY PhaseNames
<1>3. PICK odd : odd = Len(conversation) % 2
  OBVIOUS
<1>4. odd = 0 \/ odd = 1
  BY <1>1, <1>3, Parity
<1>5. /\ phase \in Ongoing => (command.kind = "chat" <=> odd = 1)
      /\ phase = "prompt" => odd = 0
  BY <1>1, <1>2, <1>3 DEF TurnsAlternate
<1>6. phase' \in Ongoing => (command'.kind = "chat" <=> odd = 1)
  BY <1>4, <1>5
<1>7. phase' = "prompt" => odd = 0
  BY <1>4, <1>5
<1>8. \A i \in DOMAIN conversation :
        conversation[i] = IF i % 2 = 1 THEN "USER" ELSE "ASSISTANT"
  BY <1>1 DEF TurnsAlternate
<1>9. QED
  BY <1>2, <1>3, <1>6, <1>7, <1>8 DEF TurnsAlternate

\* A turn more.
LEMMA TurnTaken ==
  ASSUME SessionInv, NEW who \in Turn, conversation' = Append(conversation, who),
         who = IF Len(conversation) % 2 = 0 THEN "USER" ELSE "ASSISTANT"
  PROVE  /\ conversation' \in Seq(Turn)
         /\ Len(conversation') % 2 = IF Len(conversation) % 2 = 0 THEN 1 ELSE 0
         /\ \A i \in DOMAIN conversation' :
              conversation'[i] = IF i % 2 = 1 THEN "USER" ELSE "ASSISTANT"
<1>1. conversation \in Seq(Turn) /\ TurnsAlternate
  BY DEF SessionInv, SessionTypeOK
<1>2. PICK n \in Nat : n = Len(conversation)
  BY <1>1
<1>3. /\ conversation' \in Seq(Turn) /\ Len(conversation') = n + 1
      /\ DOMAIN conversation' = 1 .. n + 1 /\ DOMAIN conversation = 1 .. n
      /\ conversation'[n + 1] = who
      /\ \A i \in 1 .. n : conversation'[i] = conversation[i]
  BY <1>1, <1>2
<1>4. /\ n % 2 = 0 \/ n % 2 = 1
      /\ n % 2 = 0 => (n + 1) % 2 = 1
      /\ n % 2 = 1 => (n + 1) % 2 = 0
  BY Parity
<1>5. \A i \in 1 .. n : conversation'[i] = IF i % 2 = 1 THEN "USER" ELSE "ASSISTANT"
  BY <1>1, <1>3 DEF TurnsAlternate
<1>6. conversation'[n + 1] = IF (n + 1) % 2 = 1 THEN "USER" ELSE "ASSISTANT"
  <2>1. who = IF n % 2 = 0 THEN "USER" ELSE "ASSISTANT"
    BY <1>2
  <2>2. QED
    BY <1>3, <1>4, <2>1
<1>7. \A i \in 1 .. n + 1 : i \in 1 .. n \/ i = n + 1
  OBVIOUS
<1>8. \A i \in 1 .. n + 1 : conversation'[i] = IF i % 2 = 1 THEN "USER" ELSE "ASSISTANT"
  BY <1>5, <1>6, <1>7
<1>9. Len(conversation') % 2 = IF Len(conversation) % 2 = 0 THEN 1 ELSE 0
  BY <1>2, <1>3, <1>4
<1>10. QED
  BY <1>3, <1>8, <1>9

\* What is known of a step that neither reports nor speaks nor looks.
LEMMA QuietParts ==
  ASSUME SessionInv
  PROVE  /\ UNCHANGED <<reports, autonomous>> =>
              /\ AutoReportsAllOrNone'
              /\ \A r \in reports' : r.number \in Nat /\ r.cycles \in Nat /\ r.results \in Nat
         /\ UNCHANGED looks => ChartsAreOfTheCommand'
         /\ UNCHANGED <<records, began, analyses, signal>> => VerdictCountsAnalyses'
<1>1. UNCHANGED <<reports, autonomous>> =>
              /\ AutoReportsAllOrNone'
              /\ \A r \in reports' : r.number \in Nat /\ r.cycles \in Nat /\ r.results \in Nat
  BY DEF SessionInv, SessionTypeOK, AutoReportsAllOrNone
<1>2. UNCHANGED looks => ChartsAreOfTheCommand'
  BY DEF SessionInv, ChartsAreOfTheCommand
<1>3. UNCHANGED <<records, began, analyses, signal>> => VerdictCountsAnalyses'
  BY DEF SessionInv, VerdictCountsAnalyses
<1>4. QED
  BY <1>1, <1>2, <1>3

LEMMA AskKeeps == ASSUME SessionInv, Ask PROVE SessionInv'
<1>0. /\ SessionTypeOK /\ CommandOK /\ ReportsOK /\ ToolsArePrivate /\ TurnsAlternate
  BY DEF SessionInv
<1>1. /\ phase = "prompt" /\ chart' = 0 /\ command' \in Commands
      /\ command'.kind = "chat" /\ command'.cycles = 1
      /\ command'.first = run + 1 /\ command'.number = command.number + 1
  BY <1>0, CommandGiven DEF Ask
<1>2. /\ phase' = "run" /\ conversation' = Append(conversation, "USER")
      /\ UNCHANGED <<autonomous, tools, records, signal, run, drawn, looks, began, analyses,
                     reports>>
  BY DEF Ask, sessionHistory
<1>3. command.number \in Nat /\ run \in Nat
  BY <1>0, CommandFields DEF SessionTypeOK
<1>4. Len(conversation) % 2 = 0
  BY <1>0, <1>1 DEF TurnsAlternate
<1>5. /\ conversation' \in Seq(Turn) /\ Len(conversation') % 2 = 1
      /\ \A i \in DOMAIN conversation' :
           conversation'[i] = IF i % 2 = 1 THEN "USER" ELSE "ASSISTANT"
  BY <1>2, <1>4, TurnTaken DEF Turn
<1>6. TurnsAlternate'
  BY <1>1, <1>2, <1>5 DEF TurnsAlternate
<1>7. SessionTypeOK'
  BY <1>0, <1>1, <1>2, <1>5, QuietParts, PhaseNames DEF SessionTypeOK
<1>8. CommandOK'
  BY <1>1, <1>2, <1>3, PhaseNames DEF CommandOK
<1>9. ChartOK'
  BY <1>1, <1>2, <1>3 DEF ChartOK
<1>10. ReportsOK'
  <2>1. \A r \in reports : r.number \in Nat /\ r.number <= command.number
    BY <1>0 DEF ReportsOK, SessionTypeOK
  <2>2. \A r \in reports : r.number <= command'.number
    BY <1>1, <1>3, <2>1
  <2>3. QED
    BY <1>1, <1>2, <2>2 DEF ReportsOK
<1>11. ToolsArePrivate'
  BY <1>0, <1>1, <1>2 DEF ToolsArePrivate
<1>12. AutoReportsAllOrNone' /\ ChartsAreOfTheCommand' /\ VerdictCountsAnalyses'
  BY <1>2, QuietParts
<1>13. QED
  BY <1>6, <1>7, <1>8, <1>9, <1>10, <1>11, <1>12 DEF SessionInv

LEMMA RefuseKeeps == ASSUME SessionInv, Refuse PROVE SessionInv'
<1>0. /\ SessionTypeOK /\ CommandOK /\ ReportsOK /\ ToolsArePrivate
  BY DEF SessionInv
<1>1. /\ phase = "prompt" /\ phase' = "over"
      /\ UNCHANGED <<command, autonomous, tools, chart, records, signal, conversation, run,
                     drawn, looks, began, analyses, reports>>
  BY DEF Refuse, sessionHistory
<1>2. phase' \notin Ongoing /\ phase' \notin Underway /\ phase' \in Phases
  BY <1>1, PhaseNames
<1>3. SessionTypeOK' /\ ReportsOK'
  BY <1>0, <1>1, <1>2 DEF SessionTypeOK, ReportsOK
<1>4. CommandOK' /\ ChartOK' /\ ToolsArePrivate'
  BY <1>0, <1>1, <1>2 DEF CommandOK, ChartOK, ToolsArePrivate
<1>5. TurnsAlternate'
  BY <1>1, <1>2, TurnsRest
<1>6. AutoReportsAllOrNone' /\ ChartsAreOfTheCommand' /\ VerdictCountsAnalyses'
  BY <1>1, QuietParts
<1>7. QED
  BY <1>3, <1>4, <1>5, <1>6 DEF SessionInv

LEMMA AutoKeeps ==
  ASSUME SessionInv, NEW n \in 0 .. MaxCycles, AutoCommand(n)
  PROVE  SessionInv'
<1>0. /\ SessionTypeOK /\ CommandOK /\ ReportsOK /\ ToolsArePrivate /\ TurnsAlternate
      /\ AutoReportsAllOrNone
  BY DEF SessionInv
<1>n. n \in Nat
  OBVIOUS
<1>1. /\ phase = "prompt" /\ chart' = 0 /\ command' \in Commands
      /\ command'.kind = "auto" /\ command'.cycles = n /\ command'.left = n
      /\ command'.first = run + 1 /\ command'.number = command.number + 1
  BY <1>0, <1>n, CommandGiven DEF AutoCommand
<1>2. UNCHANGED <<autonomous, tools, records, signal, conversation, run, drawn, looks, began,
                  analyses>>
  BY DEF AutoCommand
<1>3. command.number \in Nat /\ run \in Nat /\ command'.number \in Nat
  BY <1>0, <1>1, CommandFields, SumsOfNaturals DEF SessionTypeOK
<1>4. \A r \in reports : r.number < command'.number
  <2>1. \A r \in reports : r.number \in Nat /\ r.number <= command.number
    BY <1>0 DEF ReportsOK, SessionTypeOK
  <2>2. QED
    BY <1>1, <1>3, <2>1
<1>5. TurnsAlternate'
  <2>1. phase' = "run" \/ phase' = "prompt"
    BY DEF AutoCommand
  <2>2. QED
    BY <1>1, <1>2, <2>1, TurnsRest, PhaseNames
<1>6. ToolsArePrivate' /\ ChartsAreOfTheCommand' /\ VerdictCountsAnalyses'
  <2>1. phase' = "run" \/ phase' = "prompt"
    BY DEF AutoCommand
  <2>2. ToolsArePrivate'
    BY <1>0, <1>1, <1>2, <2>1 DEF ToolsArePrivate
  <2>3. QED
    BY <1>2, <2>2, QuietParts
<1>7. CASE n > 0 /\ autonomous = "IDLE" /\ phase' = "run" /\ UNCHANGED reports
  <2>1. SessionTypeOK' /\ AutoReportsAllOrNone'
    BY <1>0, <1>1, <1>2, <1>7, QuietParts, PhaseNames DEF SessionTypeOK
  <2>2. CommandOK'
    BY <1>1, <1>2, <1>3, <1>7, PhaseNames DEF CommandOK
  <2>3. ChartOK'
    BY <1>1, <1>7 DEF ChartOK
  <2>4. ReportsOK'
    <3>1. \A r \in reports : r.number <= command'.number
      <4>1. \A r \in reports : r.number \in Nat
        BY <1>0 DEF SessionTypeOK
      <4>2. QED
        BY <1>3, <1>4, <4>1
    <3>2. QED
      BY <1>4, <1>7, <3>1 DEF ReportsOK
  <2>5. QED
    BY <1>5, <1>6, <2>1, <2>2, <2>3, <2>4 DEF SessionInv
<1>8. CASE (n = 0 \/ autonomous = "ERROR") /\ phase' = "prompt" /\ Report(0)
  <2>1. phase' \notin Ongoing /\ phase' \notin Underway /\ phase' \in Phases
    BY <1>8, PhaseNames
  <2>2. autonomous' = "IDLE" => autonomous = "IDLE" /\ 0 = command'.cycles
    BY <1>1, <1>2, <1>8
  <2>3. /\ AutoReportsAllOrNone'
        /\ \A r \in reports' : r.number \in Nat /\ r.cycles \in Nat /\ r.results \in Nat
        /\ \A r \in reports' : r.number <= command'.number
    BY <1>1, <1>4, <1>8, <2>2, ReportKeeps
  <2>4. SessionTypeOK'
    BY <1>0, <1>1, <1>2, <2>1, <2>3 DEF SessionTypeOK
  <2>5. CommandOK'
    BY <1>1, <1>2, <1>3, <2>1 DEF CommandOK
  <2>6. ChartOK' /\ ReportsOK'
    BY <1>8, <2>1, <2>3 DEF ChartOK, ReportsOK
  <2>7. QED
    BY <1>5, <1>6, <2>3, <2>4, <2>5, <2>6 DEF SessionInv
<1>9. QED
  BY <1>7, <1>8 DEF AutoCommand

LEMMA RegisterKeeps == ASSUME SessionInv, RegisterTool PROVE SessionInv'
<1>0. /\ SessionTypeOK /\ CommandOK /\ ChartOK /\ ReportsOK /\ ToolsArePrivate
  BY DEF SessionInv
<1>1. /\ phase = "run" /\ phase' = "tool"
      /\ run' = run + 1 /\ tools' = tools \cup {run + 1} /\ drawn' = FALSE
      /\ UNCHANGED <<command, autonomous, chart, records, signal, conversation, looks, began,
                     analyses, reports>>
  BY DEF RegisterTool
<1>2. phase \in Ongoing /\ phase' \in Ongoing /\ phase' \in Underway /\ phase' \in Phases
  BY <1>1, PhaseNames
<1>3. run \in Nat /\ chart \in Nat /\ run' \in Nat
  BY <1>0, <1>1, SumsOfNaturals DEF SessionTypeOK
<1>4. PICK first \in Nat : first = command.first
  BY <1>0, CommandFields
<1>5. SessionTypeOK'
  BY <1>0, <1>1, <1>2, <1>3, QuietParts DEF SessionTypeOK
<1>6. CommandOK'
  <2>1. first <= run + 1
    BY <1>0, <1>4 DEF CommandOK
  <2>2. first <= run' /\ first <= run' + 1
    BY <1>1, <1>3, <2>1
  <2>3. QED
    BY <1>0, <1>1, <1>2, <1>4, <2>2 DEF CommandOK
<1>7. ChartOK'
  <2>1. chart = 0 \/ (first <= chart /\ chart <= run)
    BY <1>0, <1>2, <1>4 DEF ChartOK
  <2>2. (chart = 0 \/ (first <= chart /\ chart <= run')) /\ chart < run'
    BY <1>1, <1>3, <2>1
  <2>3. QED
    BY <1>1, <1>4, <2>2 DEF ChartOK
<1>8. ReportsOK' /\ ToolsArePrivate'
  BY <1>0, <1>1, <1>2 DEF ReportsOK, ToolsArePrivate
<1>9. TurnsAlternate'
  BY <1>1, <1>2, TurnsRest
<1>10. AutoReportsAllOrNone' /\ ChartsAreOfTheCommand' /\ VerdictCountsAnalyses'
  BY <1>1, QuietParts
<1>11. QED
  BY <1>5, <1>6, <1>7, <1>8, <1>9, <1>10 DEF SessionInv

LEMMA AnalyseKeeps == ASSUME SessionInv, Analyse PROVE SessionInv'
<1>0. /\ SessionTypeOK /\ CommandOK /\ ChartOK /\ ReportsOK /\ ToolsArePrivate
      /\ VerdictCountsAnalyses
  BY DEF SessionInv
<1>1. /\ phase = "tool" /\ phase' = "text"
      /\ records' = records + 1 /\ signal' = Verdict(records + 1)
      /\ analyses' = analyses + 1
      /\ UNCHANGED <<command, autonomous, tools, conversation, run, looks, began, reports>>
  BY DEF Analyse, RecordAndDecide
<1>2. PICK success \in BOOLEAN : Draw(success)
  BY DEF Analyse
<1>3. drawn' = success /\ chart' = IF success THEN run ELSE chart
  BY <1>2 DEF Draw
<1>4. /\ phase \in Ongoing /\ phase \in Underway
      /\ phase' \in Ongoing /\ phase' \in Underway /\ phase' \in Phases
  BY <1>1, PhaseNames
<1>5. run \in Nat /\ chart \in Nat /\ records \in Nat /\ analyses \in Nat /\ began \in Nat
  BY <1>0 DEF SessionTypeOK
<1>6. PICK first \in Nat : first = command.first
  BY <1>0, CommandFields
<1>7. SessionTypeOK'
  <2>1. records' \in Nat /\ analyses' \in Nat /\ chart' \in Nat
    BY <1>1, <1>3, <1>5, SumsOfNaturals
  <2>2. QED
    BY <1>0, <1>1, <1>3, <1>4, <2>1, QuietParts DEF SessionTypeOK
<1>8. ChartOK'
  <2>1. first <= run /\ (chart = 0 \/ (first <= chart /\ chart <= run)) /\ chart < run
    BY <1>0, <1>1, <1>4, <1>6 DEF ChartOK, CommandOK
  <2>2. chart' = 0 \/ (first <= chart' /\ chart' <= run)
    BY <1>3, <1>5, <2>1
  <2>3. IF drawn' THEN chart' = run ELSE chart' < run
    BY <1>3, <2>1
  <2>4. QED
    BY <1>1, <1>6, <2>2, <2>3 DEF ChartOK
<1>9. CommandOK' /\ ReportsOK' /\ ToolsArePrivate'
  BY <1>0, <1>1, <1>4 DEF CommandOK, ReportsOK, ToolsArePrivate
<1>10. TurnsAlternate'
  BY <1>1, <1>4, TurnsRest
<1>11. VerdictCountsAnalyses'
  <2>1. records' = began' + analyses'
    BY <1>0, <1>1, <1>5 DEF VerdictCountsAnalyses
  <2>2. signal' = "POSITIVE" <=> records' < 70
    BY <1>1, <1>5, VerdictCounts, SumsOfNaturals
  <2>3. QED
    BY <2>1, <2>2 DEF VerdictCountsAnalyses
<1>12. AutoReportsAllOrNone' /\ ChartsAreOfTheCommand'
  BY <1>1, QuietParts
<1>13. QED
  BY <1>7, <1>8, <1>9, <1>10, <1>11, <1>12 DEF SessionInv

LEMMA ToolReturnsKeeps == ASSUME SessionInv, ToolReturns PROVE SessionInv'
<1>0. /\ SessionTypeOK /\ CommandOK /\ ChartOK /\ ReportsOK /\ ToolsArePrivate
  BY DEF SessionInv
<1>1. /\ phase = "text" /\ phase' = "look" /\ tools' = tools \ {run}
      /\ UNCHANGED <<command, autonomous, chart, records, signal, conversation, run, drawn,
                     looks, began, analyses, reports>>
  BY DEF ToolReturns, sessionHistory
<1>2. /\ phase \in Ongoing /\ phase \in Underway
      /\ phase' \in Ongoing /\ phase' \in Underway /\ phase' \in Phases
  BY <1>1, PhaseNames
<1>3. SessionTypeOK'
  BY <1>0, <1>1, <1>2, QuietParts DEF SessionTypeOK
<1>4. ChartOK'
  BY <1>0, <1>1, <1>2 DEF ChartOK
<1>5. CommandOK' /\ ReportsOK'
  BY <1>0, <1>1, <1>2 DEF CommandOK, ReportsOK
<1>6. ToolsArePrivate'
  BY <1>0, <1>1 DEF ToolsArePrivate
<1>7. TurnsAlternate'
  BY <1>1, <1>2, TurnsRest
<1>8. AutoReportsAllOrNone' /\ ChartsAreOfTheCommand' /\ VerdictCountsAnalyses'
  BY <1>1, QuietParts
<1>9. QED
  BY <1>3, <1>4, <1>5, <1>6, <1>7, <1>8 DEF SessionInv

\* An exception leaves the session over, or at the prompt with an agent in error.
LEMMA EscapeKeeps ==
  ASSUME SessionInv, phase \in Ongoing, Escape, chart' \in Nat, drawn' \in BOOLEAN,
         tools' = {},
         UNCHANGED <<records, signal, conversation, run, looks, began, analyses>>
  PROVE  SessionInv'
<1>0. /\ SessionTypeOK /\ CommandOK /\ ReportsOK
  BY DEF SessionInv
<1>1. command' = command /\ command \in Commands
  BY <1>0 DEF Escape, SessionTypeOK
<1>2. /\ phase' = "over" \/ phase' = "prompt"
      /\ phase' = "prompt" => command.kind = "auto"
  BY DEF Escape
<1>3. phase' \notin Ongoing /\ phase' \notin Underway /\ phase' \in Phases
  BY <1>2, PhaseNames
<1>4. /\ AutoReportsAllOrNone'
      /\ \A r \in reports' : r.number \in Nat /\ r.cycles \in Nat /\ r.results \in Nat
      /\ \A r \in reports' : r.number <= command'.number
      /\ autonomous' \in {"IDLE", "ERROR"}
  <2>1. CASE UNCHANGED <<autonomous, reports>>
    BY <1>0, <1>1, <2>1, QuietParts DEF ReportsOK, SessionTypeOK
  <2>2. CASE /\ command.kind = "auto" /\ autonomous' = "ERROR"
             /\ Report(IF command.left = 1 THEN command.cycles ELSE 0)
    <3>1. PICK n \in Nat : n = IF command.left = 1 THEN command.cycles ELSE 0
      BY <1>0, CommandFields
    <3>2. n = 0 \/ n = command'.cycles
      BY <1>1, <3>1
    <3>3. autonomous = "IDLE" /\ \A r \in reports : r.number < command'.number
      BY <1>0, <1>1, <2>2 DEF CommandOK, ReportsOK
    <3>4. Report(n)
      BY <2>2, <3>1
    <3>5. QED
      BY <1>1, <2>2, <3>2, <3>3, <3>4, ReportKeeps
  <2>3. QED
    BY <2>1, <2>2 DEF Escape
<1>5. SessionTypeOK'
  BY <1>0, <1>1, <1>3, <1>4 DEF SessionTypeOK
<1>6. CommandOK' /\ ChartOK' /\ ReportsOK'
  BY <1>0, <1>1, <1>3, <1>4, PhaseNames DEF CommandOK, ChartOK, ReportsOK
<1>7. ToolsArePrivate'
  BY <1>2 DEF ToolsArePrivate
<1>8. TurnsAlternate'
  BY <1>2, <1>3, TurnsRest
<1>9. ChartsAreOfTheCommand' /\ VerdictCountsAnalyses'
  BY QuietParts
<1>10. QED
  BY <1>4, <1>5, <1>6, <1>7, <1>8, <1>9 DEF SessionInv

LEMMA ToolRaisesKeeps == ASSUME SessionInv, ToolRaises PROVE SessionInv'
<1>0. SessionTypeOK /\ ToolsArePrivate
  BY DEF SessionInv
<1>1. /\ phase \in {"tool", "text"} /\ Escape /\ tools' = tools \ {run}
      /\ UNCHANGED <<records, signal, conversation, run, looks, began, analyses>>
  BY DEF ToolRaises
<1>2. chart' \in Nat /\ drawn' \in BOOLEAN
  <2>1. CASE \E success \in BOOLEAN : Draw(success)
    BY <1>0, <2>1 DEF Draw, SessionTypeOK
  <2>2. CASE UNCHANGED <<drawn, chart>>
    BY <1>0, <2>2 DEF SessionTypeOK
  <2>3. QED
    BY <2>1, <2>2 DEF ToolRaises
<1>3. tools' = {}
  BY <1>0, <1>1 DEF ToolsArePrivate
<1>4. QED
  BY <1>1, <1>2, <1>3, EscapeKeeps, PhaseNames

LEMMA LookKeeps == ASSUME SessionInv, Look PROVE SessionInv'
<1>0. /\ SessionTypeOK /\ CommandOK /\ ChartOK /\ ReportsOK /\ ToolsArePrivate
      /\ ChartsAreOfTheCommand
  BY DEF SessionInv
<1>1. /\ phase = "look" /\ phase' = "reply"
      /\ looks' = looks \cup
           {[run |-> run, own |-> drawn, shown |-> chart, first |-> command.first]}
      /\ UNCHANGED <<command, autonomous, tools, chart, records, signal, conversation, run,
                     drawn, began, analyses, reports>>
  BY DEF Look
<1>2. /\ phase \in Ongoing /\ phase \in Underway
      /\ phase' \in Ongoing /\ phase' \in Underway /\ phase' \in Phases
  BY <1>1, PhaseNames
<1>3. SessionTypeOK'
  BY <1>0, <1>1, <1>2, QuietParts DEF SessionTypeOK
<1>4. ChartOK' /\ ToolsArePrivate'
  BY <1>0, <1>1, <1>2 DEF ChartOK, ToolsArePrivate
<1>5. CommandOK' /\ ReportsOK'
  BY <1>0, <1>1, <1>2 DEF CommandOK, ReportsOK
<1>6. TurnsAlternate'
  BY <1>1, <1>2, TurnsRest
<1>7. ChartsAreOfTheCommand'
  <2>1. PICK first \in Nat : first = command.first
    BY <1>0, CommandFields
  <2>2. chart \in Nat /\ run \in Nat /\ drawn \in BOOLEAN
    BY <1>0 DEF SessionTypeOK
  <2>3. /\ chart = 0 \/ (first <= chart /\ chart <= run)
        /\ IF drawn THEN chart = run ELSE chart < run
    BY <1>0, <1>1, <1>2, <2>1 DEF ChartOK
  <2>4. IF drawn THEN chart = run ELSE chart = 0 \/ chart \in first .. run - 1
    BY <2>2, <2>3
  <2>5. PICK l : l = [run |-> run, own |-> drawn, shown |-> chart, first |-> first]
    OBVIOUS
  <2>6. l.run = run /\ l.own = drawn /\ l.shown = chart /\ l.first = first
    BY <2>5
  <2>7. IF l.own THEN l.shown = l.run ELSE l.shown = 0 \/ l.shown \in l.first .. l.run - 1
    BY <2>4, <2>6
  <2>8. looks' = looks \cup {l}
    BY <1>1, <2>1, <2>5
  <2>9. QED
    BY <1>0, <2>7, <2>8 DEF ChartsAreOfTheCommand
<1>8. AutoReportsAllOrNone' /\ VerdictCountsAnalyses'
  BY <1>1, QuietParts
<1>9. QED
  BY <1>3, <1>4, <1>5, <1>6, <1>7, <1>8 DEF SessionInv

LEMMA AnswerKeeps == ASSUME SessionInv, Answer PROVE SessionInv'
<1>0. /\ SessionTypeOK /\ CommandOK /\ ReportsOK /\ ToolsArePrivate /\ TurnsAlternate
  BY DEF SessionInv
<1>1. /\ phase = "reply" /\ command.kind = "chat" /\ phase' = "prompt"
      /\ conversation' = Append(conversation, "ASSISTANT")
      /\ UNCHANGED <<command, autonomous, tools, chart, records, signal, run, drawn, looks,
                     began, analyses, reports>>
  BY DEF Answer, sessionHistory
<1>2. phase' \notin Ongoing /\ phase' \notin Underway /\ phase' \in Phases
  BY <1>1, PhaseNames
<1>3. Len(conversation) % 2 = 1
  BY <1>0, <1>1, PhaseNames DEF TurnsAlternate
<1>4. /\ conversation' \in Seq(Turn) /\ Len(conversation') % 2 = 0
      /\ \A i \in DOMAIN conversation' :
           conversation'[i] = IF i % 2 = 1 THEN "USER" ELSE "ASSISTANT"
  BY <1>1, <1>3, TurnTaken DEF Turn
<1>5. SessionTypeOK'
  BY <1>0, <1>1, <1>2, <1>4, QuietParts DEF SessionTypeOK
<1>6. CommandOK' /\ ChartOK' /\ ReportsOK'
  BY <1>0, <1>1, <1>2, PhaseNames DEF CommandOK, ChartOK, ReportsOK
<1>7. TurnsAlternate'
  BY <1>1, <1>4 DEF TurnsAlternate
<1>8. ToolsArePrivate'
  BY <1>0, <1>1 DEF ToolsArePrivate
<1>9. AutoReportsAllOrNone' /\ ChartsAreOfTheCommand' /\ VerdictCountsAnalyses'
  BY <1>1, QuietParts
<1>10. QED
  BY <1>5, <1>6, <1>7, <1>8, <1>9 DEF SessionInv

LEMMA ProviderRaisesKeeps == ASSUME SessionInv, ProviderRaises PROVE SessionInv'
<1>0. SessionTypeOK /\ ToolsArePrivate
  BY DEF SessionInv
<1>1. /\ phase = "reply" /\ Escape
      /\ UNCHANGED <<tools, chart, records, signal, conversation, run, drawn, looks, began,
                     analyses>>
  BY DEF ProviderRaises
<1>2. tools' = {} /\ chart' \in Nat /\ drawn' \in BOOLEAN
  BY <1>0, <1>1 DEF ToolsArePrivate, SessionTypeOK
<1>3. QED
  BY <1>1, <1>2, EscapeKeeps, PhaseNames

LEMMA NextCycleKeeps == ASSUME SessionInv, NextCycle PROVE SessionInv'
<1>0. /\ SessionTypeOK /\ CommandOK /\ ChartOK /\ ReportsOK /\ ToolsArePrivate
  BY DEF SessionInv
<1>1. /\ phase = "reply" /\ command.kind = "auto"
      /\ command' = [command EXCEPT !.left = @ - 1]
      /\ UNCHANGED <<autonomous, tools, chart, records, signal, conversation, run, drawn,
                     looks, began, analyses>>
      /\ \/ command.left > 1 /\ phase' = "run" /\ UNCHANGED reports
         \/ command.left = 1 /\ phase' = "prompt" /\ Report(command.cycles)
  BY DEF NextCycle
<1>2. phase \in Ongoing /\ phase \in Underway
  BY <1>1, PhaseNames
<1>3. PICK cycles \in Nat, left \in Nat, first \in Nat, number \in Nat :
        /\ cycles = command.cycles /\ left = command.left /\ first = command.first
        /\ number = command.number
  BY <1>0, CommandFields
<1>4. left >= 1 /\ left <= cycles /\ autonomous = "IDLE" /\ first <= run + 1
  BY <1>0, <1>1, <1>2, <1>3 DEF CommandOK
<1>5. PICK less \in Nat : less = left - 1
  BY <1>4
<1>6. command' = [command EXCEPT !.left = less]
  BY <1>1, <1>3, <1>5
<1>7. /\ command' \in Commands /\ command'.kind = "auto" /\ command'.cycles = cycles
      /\ command'.left = less /\ command'.first = first /\ command'.number = number
  BY <1>0, <1>1, <1>3, <1>6 DEF SessionTypeOK, Commands
<1>8. \A r \in reports : r.number \in Nat /\ r.number < number /\ r.number <= number
  BY <1>0, <1>1, <1>2, <1>3 DEF ReportsOK, SessionTypeOK
<1>9. ToolsArePrivate' /\ ChartsAreOfTheCommand' /\ VerdictCountsAnalyses'
  BY <1>0, <1>1, QuietParts DEF ToolsArePrivate
<1>10. CASE left > 1 /\ phase' = "run" /\ UNCHANGED reports
  <2>1. phase' \in Ongoing /\ phase' \notin Underway /\ phase' \in Phases
    BY <1>10, PhaseNames
  <2>2. SessionTypeOK' /\ AutoReportsAllOrNone'
    BY <1>0, <1>1, <1>7, <1>10, <2>1, QuietParts DEF SessionTypeOK
  <2>3. CommandOK'
    <3>1. less >= 1 /\ less <= cycles
      BY <1>4, <1>5, <1>10
    <3>2. QED
      BY <1>1, <1>4, <1>7, <2>1, <3>1 DEF CommandOK
  <2>4. ChartOK'
    <3>1. chart = 0 \/ (first <= chart /\ chart <= run)
      BY <1>0, <1>2, <1>3 DEF ChartOK
    <3>2. QED
      BY <1>1, <1>7, <1>10, <3>1 DEF ChartOK
  <2>5. ReportsOK'
    BY <1>7, <1>8, <1>10 DEF ReportsOK
  <2>6. TurnsAlternate'
    BY <1>1, <1>2, <1>7, <1>10, <2>1, TurnsRest
  <2>7. QED
    BY <1>9, <2>2, <2>3, <2>4, <2>5, <2>6 DEF SessionInv
<1>11. CASE left = 1 /\ phase' = "prompt" /\ Report(command.cycles)
  <2>1. phase' \notin Ongoing /\ phase' \notin Underway /\ phase' \in Phases
    BY <1>11, PhaseNames
  <2>2. /\ AutoReportsAllOrNone'
        /\ \A r \in reports' : r.number \in Nat /\ r.cycles \in Nat /\ r.results \in Nat
        /\ \A r \in reports' : r.number <= command'.number
    BY <1>3, <1>4, <1>7, <1>8, <1>11, ReportKeeps
  <2>3. SessionTypeOK'
    BY <1>0, <1>1, <1>7, <2>1, <2>2 DEF SessionTypeOK
  <2>4. CommandOK'
    BY <1>1, <1>4, <1>7, <2>1 DEF CommandOK
  <2>5. ChartOK' /\ ReportsOK'
    BY <1>11, <2>1, <2>2 DEF ChartOK, ReportsOK
  <2>6. TurnsAlternate'
    BY <1>1, <1>2, <1>11, <2>1, TurnsRest
  <2>7. QED
    BY <1>9, <2>2, <2>3, <2>4, <2>5, <2>6 DEF SessionInv
<1>12. QED
  BY <1>1, <1>3, <1>10, <1>11

LEMMA SessionInvInit == ASSUME SessionInit PROVE SessionInv
<1>1. /\ phase = "prompt" /\ command = NoCommand /\ autonomous = "IDLE" /\ tools = {}
      /\ chart = 0 /\ records \in Nat /\ conversation = << >> /\ run = 0 /\ drawn = FALSE
      /\ looks = {} /\ began = records /\ analyses = 0 /\ reports = {}
  BY SessionAssumption DEF SessionInit
<1>2. phase \in Phases /\ phase \notin Ongoing /\ phase \notin Underway
  BY <1>1, PhaseNames
<1>3. command \in Commands /\ command.first = 0
  BY <1>1 DEF NoCommand, Commands
<1>4. SessionTypeOK /\ CommandOK /\ ChartOK /\ ReportsOK
  <2>1. conversation \in Seq(Turn)
    BY <1>1
  <2>2. SessionTypeOK
    BY <1>1, <1>2, <1>3, <2>1 DEF SessionTypeOK
  <2>3. command.first <= run + 1
    BY <1>1, <1>3
  <2>4. CommandOK
    BY <1>2, <2>3 DEF CommandOK
  <2>5. ChartOK /\ ReportsOK
    BY <1>1, <1>2, PhaseNames DEF ChartOK, ReportsOK
  <2>6. QED
    BY <2>2, <2>4, <2>5
<1>5. ToolsArePrivate /\ ChartsAreOfTheCommand /\ AutoReportsAllOrNone
  BY <1>1 DEF ToolsArePrivate, ChartsAreOfTheCommand, AutoReportsAllOrNone
<1>6. TurnsAlternate /\ VerdictCountsAnalyses
  BY <1>1 DEF TurnsAlternate, VerdictCountsAnalyses
<1>7. QED
  BY <1>4, <1>5, <1>6 DEF SessionInv

LEMMA SessionInvNext == ASSUME SessionInv, [SessionNext]_sessionVars PROVE SessionInv'
<1>1. CASE UNCHANGED sessionVars
  <2>1. UNCHANGED <<phase, command, autonomous, tools, chart, records, signal, conversation,
                    run, drawn, looks, began, analyses, reports>>
    BY <1>1 DEF sessionVars, sessionHistory
  <2>2. SessionTypeOK' /\ CommandOK' /\ ChartOK' /\ ReportsOK'
    BY <2>1 DEF SessionInv, SessionTypeOK, CommandOK, ChartOK, ReportsOK
  <2>3. ToolsArePrivate' /\ TurnsAlternate'
    BY <2>1 DEF SessionInv, ToolsArePrivate, TurnsAlternate
  <2>4. QED
    BY <2>1, <2>2, <2>3, QuietParts DEF SessionInv
<1>2. CASE Ask
  BY <1>2, AskKeeps
<1>3. CASE Refuse
  BY <1>3, RefuseKeeps
<1>4. ASSUME NEW n \in 0 .. MaxCycles, AutoCommand(n)
      PROVE  SessionInv'
  BY <1>4, AutoKeeps
<1>5. CASE RegisterTool
  BY <1>5, RegisterKeeps
<1>6. CASE Analyse
  BY <1>6, AnalyseKeeps
<1>7. CASE ToolReturns
  BY <1>7, ToolReturnsKeeps
<1>8. CASE ToolRaises
  BY <1>8, ToolRaisesKeeps
<1>9. CASE Look
  BY <1>9, LookKeeps
<1>10. CASE Answer
  BY <1>10, AnswerKeeps
<1>11. CASE ProviderRaises
  BY <1>11, ProviderRaisesKeeps
<1>12. CASE NextCycle
  BY <1>12, NextCycleKeeps
<1>13. QED
  BY <1>1, <1>2, <1>3, <1>4, <1>5, <1>6, <1>7, <1>8, <1>9, <1>10, <1>11, <1>12
     DEF SessionNext

\* However often analyses succeed, fail or raise, and in whatever order questions
\* and autonomous commands are given: a session keeps its tools, charts and turns
\* apart, reports an autonomous command as a whole, and its verdict counts what it
\* has analysed (runtime_analysis_pipeline.py:540-553, stock_agent.py:199-231,
\* autonomous_agent.py:1049-1080).
THEOREM SessionStaysSound == SessionSpec => []SessionSound
<1>1. SessionInit => SessionInv
  BY SessionInvInit
<1>2. SessionInv /\ [SessionNext]_sessionVars => SessionInv'
  BY SessionInvNext
<1>3. SessionInv => SessionSound
  BY DEF SessionInv, SessionSound, SessionTypeOK
<1>4. QED
  BY <1>1, <1>2, <1>3, PTL DEF SessionSpec

-----------------------------------------------------------------------------
(***************************************************************************)
(* What becomes of a chart: TradingDecision                                *)
(***************************************************************************)
Inert(d) ==
  d.allocated = 0 /\ d.order = "REJECTED" /\ d.position = "NONE" /\ d.report = "UNKNOWN"

\* An evidence is known just if the answer had something for it.
LEMMA AgreementIsTold ==
  ASSUME NEW p
  PROVE  (Agreement(Reasonings(p)) = "FULL")
           <=> {"momentum", "volume", "pattern", "level"} \subseteq Told(p)
<1>1. Get(TrendReasoning(p), "evidence") # "UNKNOWN"
  <2>1. "evidence" \notin DOMAIN TrendReasoning(p)
    BY DEF TrendReasoning
  <2>2. QED
    BY <2>1 DEF Get
<1>2. (Get(MomentumReasoning(p), "evidence") # "UNKNOWN") <=> "momentum" \in Told(p)
  <2>1. PICK r, m : r = Get(p, "rsi_signal") /\ m = Get(p, "macd_signal")
    OBVIOUS
  <2>2. "momentum" \in Told(p) <=> r \in {"overbought", "oversold"} \/ m \in {"bull", "bear"}
    BY <2>1 DEF Told
  <2>3. PICK e : e = IF r = "overbought" \/ m = "bear" THEN "BEARISH"
                     ELSE IF r = "oversold" \/ m = "bull" THEN "BULLISH"
                     ELSE "UNKNOWN"
    OBVIOUS
  <2>4. (e # "UNKNOWN") <=> r \in {"overbought", "oversold"} \/ m \in {"bull", "bear"}
    BY <2>3
  <2>5. MomentumReasoning(p) = [evidence |-> e]
    BY <2>1, <2>3 DEF MomentumReasoning
  <2>6. QED
    BY <2>2, <2>4, <2>5 DEF Get
<1>3. (Get(VolumeReasoning(p), "evidence") # "UNKNOWN") <=> "volume" \in Told(p)
  BY DEF VolumeReasoning, Get, Told
<1>4. (Get(CandlestickReasoning(p), "evidence") # "UNKNOWN") <=> "pattern" \in Told(p)
  BY DEF CandlestickReasoning, Get, Told
<1>5. (Get(SupportResistanceReasoning(p), "evidence") # "UNKNOWN") <=> "level" \in Told(p)
  <2>1. PICK a, b : a = Get(p, "support") /\ b = Get(p, "resistance")
    OBVIOUS
  <2>2. "level" \in Told(p) <=> {a, b} = {"level"}
    BY <2>1 DEF Told
  <2>3. {a, b} = {"level"} <=> a = "level" /\ b = "level"
    OBVIOUS
  <2>4. PICK e : e = IF a = "level" /\ b = "level" THEN "LEVELS_PRESENT" ELSE "UNKNOWN"
    OBVIOUS
  <2>5. SupportResistanceReasoning(p) = [evidence |-> e]
    BY <2>1, <2>4 DEF SupportResistanceReasoning
  <2>6. QED
    BY <2>2, <2>3, <2>4, <2>5 DEF Get
<1>6. Range(Reasonings(p)) =
        {TrendReasoning(p), MomentumReasoning(p), VolumeReasoning(p),
         CandlestickReasoning(p), SupportResistanceReasoning(p)}
  BY DEF Range, Reasonings
<1>7. (\A r \in Range(Reasonings(p)) : Get(r, "evidence") # "UNKNOWN")
        <=> {"momentum", "volume", "pattern", "level"} \subseteq Told(p)
  BY <1>1, <1>2, <1>3, <1>4, <1>5, <1>6
<1>8. QED
  BY <1>7 DEF Agreement

\* The words of neighbouring skills do not match, whatever is recommended.
LEMMA DecisionIsNothing ==
  ASSUME NEW entry, NEW capital
  PROVE  Inert(DecisionOn(entry, capital))
<1>1. PICK a : a = Action(entry)
  OBVIOUS
<1>2. a \in {"BUY", "WATCH", "IGNORE", "EXIT", "UNKNOWN"}
  BY <1>1 DEF Action
<1>3. PICK x, y : /\ PositionRisk(Recommendation(entry)) = [action |-> a, risk |-> x]
                  /\ x \in {"NORMAL", "UNKNOWN"}
                  /\ TradePlan([action |-> a, risk |-> x])
                       = [action |-> a, risk |-> x, plan |-> y]
  <2>1. PICK x : /\ x = CASE a = "BUY" -> "NORMAL" [] a = "WAIT" -> "LOW"
                          [] a = "SELL" -> "NONE" [] OTHER -> "UNKNOWN"
    OBVIOUS
  <2>2. x \in {"NORMAL", "UNKNOWN"}
    BY <1>2, <2>1
  <2>3. PositionRisk(Recommendation(entry)) = [action |-> a, risk |-> x]
    BY <1>1, <2>1 DEF PositionRisk, Recommendation
  <2>4. \E y : TradePlan([action |-> a, risk |-> x])
                 = [action |-> a, risk |-> x, plan |-> y]
    BY DEF TradePlan
  <2>5. QED
    BY <2>2, <2>3, <2>4
<1>4. PositionSizing([action |-> a, risk |-> x, plan |-> y])
        = [action |-> a, risk |-> x, plan |-> y, position_size |-> "UNKNOWN"]
  BY <1>2, <1>3 DEF PositionSizing
<1>5. CapitalAllocation([action |-> a, risk |-> x, plan |-> y, position_size |-> "UNKNOWN"],
                        capital)
        = [action |-> a, risk |-> x, plan |-> y, position_size |-> "UNKNOWN",
           allocated_capital |-> 0]
  BY DEF CapitalAllocation
<1>6. OrderValidation([action |-> a, risk |-> x, plan |-> y, position_size |-> "UNKNOWN",
                       allocated_capital |-> 0])
        = [action |-> a, status |-> "REJECTED"]
  BY <1>2 DEF OrderValidation
<1>7. TradeHistory(PaperExecution([action |-> a, status |-> "REJECTED"]))
        = [action |-> a, execution_status |-> "SKIPPED"]
  BY DEF TradeHistory, PaperExecution
<1>8. PortfolioUpdate([action |-> a, execution_status |-> "SKIPPED"])
        = [position |-> "NONE"]
  BY DEF PortfolioUpdate
<1>9. ReportStatus(Alert(Performance(MonitorStatus([position |-> "NONE"])))) = "UNKNOWN"
  <2>1. MonitorStatus([position |-> "NONE"]) = "UNKNOWN"
    BY DEF MonitorStatus, Get
  <2>2. QED
    BY <2>1 DEF Performance, Alert, ReportStatus
<1>10. DecisionOn(entry, capital) =
         [action |-> Recommendation(entry).action, allocated |-> 0, order |-> "REJECTED",
          position |-> "NONE", report |-> "UNKNOWN"]
  BY <1>3, <1>4, <1>5, <1>6, <1>7, <1>8, <1>9 DEF DecisionOn
<1>11. QED
  BY <1>10 DEF Inert

Before == {"chart", "ask", "read"}

\* Nothing is decided before there is a market state, and one decision is made for
\* the symbol it is of.
Unfolding ==
  /\ sight \in Before \cup {"decide", "allocate", "done"}
  /\ sight \in Before => market_state = "none" /\ stocks = << >> /\ decision = << >>
  /\ sight \in {"decide", "allocate"} => market_state # "none" /\ decision = << >>
  /\ sight = "allocate" => DOMAIN stocks = IF symbol = "none" THEN {} ELSE {1}

DecisionInv == Unfolding /\ DecisionSound

LEMMA DecideKeeps == ASSUME DecisionInv, DecideOnSymbol PROVE DecisionInv'
<1>1. /\ sight = "allocate" /\ sight' = "done"
      /\ UNCHANGED <<prompt, symbol, parsed, market_state, stocks, told>>
  BY DEF DecideOnSymbol
<1>2. PICK capital \in Capitals :
        decision' = [i \in DOMAIN stocks |-> DecisionOn(stocks[i], capital)]
  BY DEF DecideOnSymbol
<1>3. /\ DOMAIN stocks = IF symbol = "none" THEN {} ELSE {1}
      /\ market_state # "none"
  BY <1>1 DEF DecisionInv, Unfolding
<1>4. \A i \in DOMAIN decision' : Inert(decision'[i])
  BY <1>2, DecisionIsNothing
<1>5. Len(decision') = IF market_state' = "none" \/ symbol' = "none" THEN 0 ELSE 1
  <2>1. CASE symbol = "none"
    <3>1. decision' = << >>
      BY <1>2, <1>3, <2>1
    <3>2. QED
      BY <1>1, <2>1, <3>1
  <2>2. CASE symbol # "none"
    <3>1. decision' = <<DecisionOn(stocks[1], capital)>>
      BY <1>2, <1>3, <2>2
    <3>2. Len(decision') = 1
      BY <3>1
    <3>3. QED
      BY <1>1, <1>3, <2>2, <3>2
  <2>3. QED
    BY <2>1, <2>2
<1>6. DecisionIsInert'
  BY <1>4, <1>5 DEF DecisionIsInert, Inert, Range
<1>7. StateIgnoresTrend' /\ Unfolding'
  BY <1>1 DEF DecisionInv, DecisionSound, StateIgnoresTrend, Unfolding, Before
<1>8. QED
  BY <1>6, <1>7 DEF DecisionInv, DecisionSound

LEMMA DecisionInvNext == ASSUME DecisionInv, [DecisionNext]_decisionVars PROVE DecisionInv'
<1>0. Unfolding /\ StateIgnoresTrend /\ DecisionIsInert
  BY DEF DecisionInv, DecisionSound
<1>a. ASSUME UNCHANGED <<market_state, told>>
      PROVE  StateIgnoresTrend'
  BY <1>0, <1>a DEF StateIgnoresTrend
<1>b. ASSUME decision' = << >>, sight' = "done" => market_state' = "none" \/ symbol' = "none"
      PROVE  DecisionIsInert'
  <2>1. Len(decision') = 0 /\ Range(decision') = {}
    BY <1>b DEF Range
  <2>2. QED
    BY <1>b, <2>1 DEF DecisionIsInert
<1>1. CASE UNCHANGED decisionVars
  BY <1>0, <1>1 DEF decisionVars, DecisionInv, DecisionSound, Unfolding, StateIgnoresTrend,
                    DecisionIsInert
<1>2. CASE NoVision
  <2>1. /\ sight = "chart" /\ sight' = "done"
        /\ UNCHANGED <<prompt, symbol, parsed, market_state, stocks, decision, told>>
    BY <1>2 DEF NoVision
  <2>2. market_state = "none" /\ decision = << >>
    BY <1>0, <2>1 DEF Unfolding, Before
  <2>3. Unfolding'
    BY <2>1 DEF Unfolding, Before
  <2>4. QED
    BY <1>a, <1>b, <2>1, <2>2, <2>3 DEF DecisionInv, DecisionSound
<1>3. CASE ShowChart \/ ProviderAnswers \/ ReadLine
  <2>1. /\ sight \in Before /\ sight' \in Before
        /\ UNCHANGED <<symbol, market_state, stocks, decision, told>>
    BY <1>3 DEF ShowChart, ProviderAnswers, ReadLine, Before
  <2>2. decision = << >> /\ sight' # "done"
    BY <1>0, <2>1 DEF Unfolding, Before
  <2>3. Unfolding'
    BY <1>0, <2>1 DEF Unfolding, Before
  <2>4. QED
    BY <1>a, <1>b, <2>1, <2>2, <2>3 DEF DecisionInv, DecisionSound
<1>4. CASE Reason
  <2>1. /\ sight = "read" /\ sight' = "decide" /\ told' = Told(parsed)
        /\ market_state' = MarketState(Agreement(Reasonings(parsed)))
        /\ UNCHANGED <<symbol, stocks, decision>>
    BY <1>4 DEF Reason
  <2>2. decision = << >>
    BY <1>0, <2>1 DEF Unfolding, Before
  <2>3. Agreement(Reasonings(parsed)) \in {"FULL", "PARTIAL"}
    BY DEF Agreement
  <2>4. market_state' =
          IF {"momentum", "volume", "pattern", "level"} \subseteq Told(parsed)
          THEN "CONFIRMED" ELSE "DEVELOPING"
    BY <2>1, <2>3, AgreementIsTold DEF MarketState
  <2>5. Unfolding'
    BY <2>1, <2>2, <2>4 DEF Unfolding, Before
  <2>6. StateIgnoresTrend'
    BY <2>1, <2>4 DEF StateIgnoresTrend
  <2>7. QED
    BY <1>b, <2>1, <2>2, <2>5, <2>6 DEF DecisionInv, DecisionSound
<1>5. CASE PipelineRaises
  <2>1. /\ sight \in Before /\ sight' = "decide" /\ market_state' = "UNAVAILABLE"
        /\ UNCHANGED <<stocks, decision, told>>
    BY <1>5 DEF PipelineRaises, Before
  <2>2. decision = << >>
    BY <1>0, <2>1 DEF Unfolding
  <2>3. Unfolding' /\ StateIgnoresTrend'
    BY <2>1, <2>2 DEF Unfolding, Before, StateIgnoresTrend
  <2>4. QED
    BY <1>b, <2>1, <2>2, <2>3 DEF DecisionInv, DecisionSound
<1>6. CASE AnalyseSymbol
  <2>1. /\ sight = "decide" /\ sight' = "allocate"
        /\ UNCHANGED <<symbol, market_state, decision, told>>
    BY <1>6 DEF AnalyseSymbol
  <2>2. market_state # "none" /\ decision = << >>
    BY <1>0, <2>1 DEF Unfolding
  <2>3. DOMAIN stocks' = IF symbol = "none" THEN {} ELSE {1}
    BY <1>6 DEF AnalyseSymbol
  <2>4. Unfolding'
    BY <2>1, <2>2, <2>3 DEF Unfolding, Before
  <2>5. QED
    BY <1>a, <1>b, <2>1, <2>2, <2>4 DEF DecisionInv, DecisionSound
<1>7. CASE DecideOnSymbol
  BY <1>7, DecideKeeps
<1>8. QED
  BY <1>1, <1>2, <1>3, <1>4, <1>5, <1>6, <1>7 DEF DecisionNext

\* Whatever a chart shows and however the provider answers: the market state rests
\* on what the answer had for momentum, volume, pattern and levels, and no decision
\* allocates, orders or holds anything (evidence_fusion_skill.py:236-254,
\* position_risk_skill.py:222-226, order_validation_skill.py:250).
THEOREM DecisionStaysSound == DecisionSpec => []DecisionSound
<1>1. DecisionInit => DecisionInv
  BY DEF DecisionInit, DecisionInv, Unfolding, Before, DecisionSound, StateIgnoresTrend,
         DecisionIsInert, Range
<1>2. DecisionInv /\ [DecisionNext]_decisionVars => DecisionInv'
  BY DecisionInvNext
<1>3. DecisionInv => DecisionSound
  BY DEF DecisionInv
<1>4. QED
  BY <1>1, <1>2, <1>3, PTL DEF DecisionSpec

-----------------------------------------------------------------------------
(***************************************************************************)
(* A plan and the pipeline: PlannedAnalysis                                *)
(***************************************************************************)

\* The keys by which one service feeds others, and which service that is.
FromStock == {"HISTORY", "PRICE"} \cup Fundamentals
FromIndicators == {"RSI"} \cup Bands

Fed == FromStock \cup FromIndicators \cup Averages \cup {"WIN_RATE"} \cup Scores

Feeder(k) ==
  CASE k \in FromStock -> "stock"
    [] k \in FromIndicators -> "technical_indicator"
    [] k \in Averages -> "moving_average"
    [] k = "WIN_RATE" -> "backtest"
    [] k = "TECHNICAL_SCORE" -> "technical_score"
    [] k = "FUNDAMENTAL_SCORE" -> "fundamental"
    [] OTHER -> "pattern"

\* The services that have to be done before one is, to feed it.
FedBy(s) ==
  CASE s \in {"technical_indicator", "moving_average", "fundamental", "backtest", "chart"} ->
         {"stock"}
    [] s = "technical_score" -> {"stock", "technical_indicator", "moving_average"}
    [] s = "pattern" -> {"backtest"}
    [] s = "scoring" -> {"technical_score", "fundamental", "pattern"}
    [] OTHER -> {}

\* The keys that only a goal can bring.
Brought ==
  {"PERIOD", "INTERVAL", "PER_SECTOR", "ROE_SECTOR", "CAPITAL", "FAST_PERIOD",
   "SLOW_PERIOD", "AVG_RETURN", "INDICATORS", "MAX_NEWS", "CHANNEL", "MESSAGE",
   "TITLE", "CREDENTIAL"}

\* The services of the pipeline: all but one.
Answering == ServiceNames \ {"notification"}

LEMMA TwelveServices ==
  ServiceNames =
    {"stock", "technical_indicator", "moving_average", "technical_score", "fundamental",
     "backtest", "pattern", "chart", "news", "risk_management", "scoring", "notification"}
  BY DEF ServiceNames, Skill

\* What each service reads, by the kind of key.
LEMMA ReadsOf ==
  ASSUME NEW s \in ServiceNames, NEW k \in Inputs(s)
  PROVE  /\ k \in Fed \cup Brought \cup RiskInputs \cup {"TICKER", "STRATEGY", "IMAGE_PATH"}
         /\ k \in Fed => Feeder(k) \in FedBy(s)
         /\ k = "STRATEGY" => s = "backtest"
         /\ k = "IMAGE_PATH" => s \in {"chart", "notification"}
         /\ k \in RiskInputs => s = "risk_management"
         /\ k = "TICKER" => s \in {"stock", "news", "chart"}
<1> USE TwelveServices DEF Inputs, Skill, Fed, FromStock, FromIndicators, Fundamentals,
        Averages, Bands, Scores, Brought, RiskInputs, Feeder, FedBy
<1>1. CASE s = "stock"
  BY <1>1 DEF StockService
<1>2. CASE s = "technical_indicator"
  BY <1>2 DEF TechnicalIndicatorService
<1>3. CASE s = "moving_average"
  BY <1>3 DEF MovingAverageService
<1>4. CASE s = "technical_score"
  BY <1>4 DEF TechnicalScoreService
<1>5. CASE s = "fundamental"
  BY <1>5 DEF FundamentalService
<1>6. CASE s = "backtest"
  BY <1>6 DEF BacktestService
<1>7. CASE s = "pattern"
  BY <1>7 DEF PatternService
<1>8. CASE s = "chart"
  BY <1>8 DEF ChartService
<1>9. CASE s = "news"
  BY <1>9 DEF NewsService
<1>10. CASE s = "risk_management"
  BY <1>10 DEF RiskManagementService
<1>11. CASE s = "scoring"
  BY <1>11 DEF ScoringService
<1>12. CASE s = "notification"
  BY <1>12 DEF NotificationService
<1>13. QED
  BY <1>1, <1>2, <1>3, <1>4, <1>5, <1>6, <1>7, <1>8, <1>9, <1>10, <1>11, <1>12

\* What each service gives, by the kind of key.
LEMMA GivesOf ==
  ASSUME NEW s \in ServiceNames, NEW k \in Skill[s].gives
  PROVE  /\ k \in Fed /\ Feeder(k) # s => s = "scoring" /\ k \in Scores
         /\ k \in Brought => s = "notification" /\ k = "CHANNEL"
         /\ k \notin RiskInputs
         /\ k = "STRATEGY" => s = "backtest"
         /\ k = "IMAGE_PATH" => s = "chart"
         /\ k = "TICKER" => s \in {"stock", "news"}
<1> USE TwelveServices DEF Skill, Fed, FromStock, FromIndicators, Fundamentals,
        Averages, Bands, Scores, Brought, RiskInputs, RiskOutputs, Feeder
<1>1. CASE s = "stock"
  BY <1>1 DEF StockService
<1>2. CASE s = "technical_indicator"
  BY <1>2 DEF TechnicalIndicatorService
<1>3. CASE s = "moving_average"
  BY <1>3 DEF MovingAverageService
<1>4. CASE s = "technical_score"
  BY <1>4 DEF TechnicalScoreService
<1>5. CASE s = "fundamental"
  BY <1>5 DEF FundamentalService
<1>6. CASE s = "backtest"
  BY <1>6 DEF BacktestService
<1>7. CASE s = "pattern"
  BY <1>7 DEF PatternService
<1>8. CASE s = "chart"
  BY <1>8 DEF ChartService
<1>9. CASE s = "news"
  BY <1>9 DEF NewsService
<1>10. CASE s = "risk_management"
  BY <1>10 DEF RiskManagementService
<1>11. CASE s = "scoring"
  BY <1>11 DEF ScoringService
<1>12. CASE s = "notification"
  BY <1>12 DEF NotificationService
<1>13. QED
  BY <1>1, <1>2, <1>3, <1>4, <1>5, <1>6, <1>7, <1>8, <1>9, <1>10, <1>11, <1>12

\* A service that feeds others makes the keys anew.
LEMMA FeederMakes ==
  ASSUME NEW k \in Fed
  PROVE  /\ Feeder(k) \in ServiceNames \ {"risk_management", "notification", "scoring"}
         /\ k \in Skill[Feeder(k)].gives
         /\ k \notin Inputs(Feeder(k))
<1> USE TwelveServices DEF Inputs, Skill, Fed, FromStock, FromIndicators, Fundamentals,
        Averages, Bands, Scores, Feeder
<1>1. CASE k \in FromStock
  BY <1>1 DEF StockService
<1>2. CASE k \in FromIndicators
  BY <1>2 DEF TechnicalIndicatorService
<1>3. CASE k \in Averages
  BY <1>3 DEF MovingAverageService
<1>4. CASE k = "WIN_RATE"
  BY <1>4 DEF BacktestService
<1>5. CASE k \in Scores
  BY <1>5 DEF TechnicalScoreService, FundamentalService, PatternService
<1>6. QED
  BY <1>1, <1>2, <1>3, <1>4, <1>5

\* A key of the goal's context.
Given(k) == IF k \in goal THEN "goal" ELSE "absent"

Alive(s) == world.down # s

\* Whether a service has what it needs, when all that feed it are done.
Supplied(s) ==
  /\ s \in {"technical_indicator", "moving_average", "backtest", "chart"} => Alive("stock")
  /\ s \in {"technical_score", "scoring"} =>
       Alive("stock") /\ "PRICE" \notin world.missing
  /\ s \in {"fundamental", "scoring"} =>
       Alive("stock") /\ ~(Fundamentals \subseteq world.missing)
  /\ s \in {"pattern", "scoring"} =>
       "AVG_RETURN" \in goal \/ (Alive("stock") /\ Alive("backtest"))
  /\ s = "scoring" => Alive("technical_score") /\ Alive("fundamental") /\ Alive("pattern")
  /\ s = "risk_management" => RiskInputs \subseteq goal

Good(s) == Supplied(s) /\ Alive(s)

\* What a feeder that is good makes of a key.
Made(k) ==
  IF k \in world.missing THEN "none"
  ELSE IF k = "PATTERN_SCORE" /\ ~(Good("backtest") /\ "AVG_RETURN" \in goal)
  THEN "default"
  ELSE Feeder(k)

WithDefault(k) == IF k \in goal THEN "goal" ELSE "default"

\* What a service that is good reads under a key.
Expected(k) ==
  IF k \in Fed THEN IF Good(Feeder(k)) /\ Made(k) # "none" THEN Made(k) ELSE "absent"
  ELSE IF k \in {"TICKER", "STRATEGY"} THEN WithDefault(k)
  ELSE Given(k)

\* The context of a run in which some services are done.
ContextOK(c, done) ==
  /\ \A k \in Fed :
       c[k] = IF Feeder(k) \in done /\ Good(Feeder(k)) THEN Made(k) ELSE "absent"
  /\ \A k \in Brought : c[k] = Given(k)
  /\ "risk_management" \notin done => \A k \in RiskInputs : c[k] = Given(k)
  /\ "backtest" \notin done => c["STRATEGY"] = Given("STRATEGY")
  /\ "chart" \notin done => c["IMAGE_PATH"] = Given("IMAGE_PATH")
  /\ c["TICKER"] \in {Given("TICKER"), WithDefault("TICKER")}
  /\ "stock" \in done /\ Good("stock") => c["TICKER"] = WithDefault("TICKER")

\* A service was answered as it has to be.
Matches(r) ==
  LET s == r.service
  IN  /\ r.success = Good(s)
      /\ Good(s) => r.used = [k \in Inputs(s) |-> Expected(k)]

WorldOK == world \in Worlds

LEMMA FeederOf ==
  ASSUME NEW k
  PROVE  /\ k \in FromStock => k \in Fed /\ Feeder(k) = "stock"
         /\ k \in FromIndicators => k \in Fed /\ Feeder(k) = "technical_indicator"
         /\ k \in Averages => k \in Fed /\ Feeder(k) = "moving_average"
         /\ k = "WIN_RATE" => k \in Fed /\ Feeder(k) = "backtest"
         /\ k = "TECHNICAL_SCORE" => k \in Fed /\ Feeder(k) = "technical_score"
         /\ k = "FUNDAMENTAL_SCORE" => k \in Fed /\ Feeder(k) = "fundamental"
         /\ k = "PATTERN_SCORE" => k \in Fed /\ Feeder(k) = "pattern"
  BY DEF Fed, FromStock, FromIndicators, Fundamentals, Averages, Bands, Scores, Feeder

LEMMA NeverMissing ==
  ASSUME WorldOK, NEW k \in Fed, k \notin Fundamentals, k # "PRICE"
  PROVE  k \notin world.missing
<1>1. world.missing \subseteq Fundamentals \cup {"PRICE", "IMAGE_PATH"}
  BY DEF WorldOK, Worlds
<1>2. "IMAGE_PATH" \notin Fed
  BY DEF Fed, FromStock, FromIndicators, Fundamentals, Averages, Bands, Scores
<1>3. QED
  BY <1>1, <1>2

\* A service finds what it needs exactly if it is supplied.
LEMMA SufficientIsSupplied ==
  ASSUME WorldOK, NEW c, NEW done, ContextOK(c, done),
         NEW s \in ServiceNames \ {"notification"}, FedBy(s) \subseteq done, s \notin done
  PROVE  Sufficient(s, c) <=> Supplied(s)
<1>0. /\ \A k \in {"HISTORY", "PRICE"} \cup Fundamentals \cup Scores \cup {"WIN_RATE"} : k \in Fed
      /\ Feeder("HISTORY") = "stock" /\ Feeder("PRICE") = "stock"
      /\ Feeder("WIN_RATE") = "backtest" /\ \A k \in Fundamentals : Feeder(k) = "stock"
      /\ Feeder("TECHNICAL_SCORE") = "technical_score"
      /\ Feeder("FUNDAMENTAL_SCORE") = "fundamental"
      /\ Feeder("PATTERN_SCORE") = "pattern"
  BY FeederOf DEF FromStock, Scores
<1>m. \A k \in {"HISTORY", "WIN_RATE"} \cup Scores : k \notin world.missing
  BY <1>0, NeverMissing DEF Fundamentals, Scores
<1>s. /\ Good("stock") <=> Alive("stock")
      /\ Good("backtest") <=> Alive("stock") /\ Alive("backtest")
  BY DEF Good, Supplied
<1>1. CASE s \in {"stock", "news"}
  <2>1. Skill[s].needs = {}
    BY <1>1 DEF Skill, StockService, NewsService
  <2>2. QED
    BY <1>1, <2>1 DEF Sufficient, Supplied
<1>2. CASE s \in {"technical_indicator", "moving_average", "backtest", "chart"}
  <2>1. Skill[s].needs = {"HISTORY"}
    BY <1>2 DEF Skill, TechnicalIndicatorService, MovingAverageService, BacktestService,
            ChartService
  <2>2. c["HISTORY"] = IF Alive("stock") THEN "stock" ELSE "absent"
    BY <1>0, <1>m, <1>s, <1>2 DEF ContextOK, FedBy, Made
  <2>3. Sufficient(s, c) <=> Has(c, "HISTORY")
    BY <1>2, <2>1 DEF Sufficient
  <2>4. QED
    BY <1>2, <2>2, <2>3 DEF Supplied, Has
<1>3. CASE s = "technical_score"
  <2>1. Skill[s].needs = {"PRICE"}
    BY <1>3 DEF Skill, TechnicalScoreService
  <2>2. c["PRICE"] = IF Alive("stock")
                     THEN IF "PRICE" \in world.missing THEN "none" ELSE "stock"
                     ELSE "absent"
    BY <1>0, <1>s, <1>3 DEF ContextOK, FedBy, Made
  <2>3. Sufficient(s, c) <=> Has(c, "PRICE")
    BY <1>3, <2>1 DEF Sufficient
  <2>4. QED
    BY <1>3, <2>2, <2>3 DEF Supplied, Has
<1>4. CASE s = "fundamental"
  <2>2. \A k \in Fundamentals :
          c[k] = IF Alive("stock") THEN IF k \in world.missing THEN "none" ELSE "stock"
                 ELSE "absent"
    BY <1>0, <1>s, <1>4 DEF ContextOK, FedBy, Made, Fundamentals
  <2>3. Sufficient(s, c) <=> \E k \in Fundamentals : Has(c, k)
    BY <1>4 DEF Sufficient
  <2>4. QED
    BY <1>4, <2>2, <2>3 DEF Supplied, Has
<1>5. CASE s = "pattern"
  <2>1. c["WIN_RATE"] = IF Alive("stock") /\ Alive("backtest") THEN "backtest" ELSE "absent"
    BY <1>0, <1>m, <1>s, <1>5 DEF ContextOK, FedBy, Made
  <2>2. c["AVG_RETURN"] = Given("AVG_RETURN")
    BY DEF ContextOK, Brought
  <2>3. Sufficient(s, c) <=> Has(c, "WIN_RATE") \/ Has(c, "AVG_RETURN")
    BY <1>5 DEF Sufficient
  <2>4. /\ Has(c, "WIN_RATE") <=> Alive("stock") /\ Alive("backtest")
        /\ Has(c, "AVG_RETURN") <=> "AVG_RETURN" \in goal
    BY <2>1, <2>2 DEF Has, Given
  <2>5. Supplied(s) <=> "AVG_RETURN" \in goal \/ (Alive("stock") /\ Alive("backtest"))
    BY <1>5 DEF Supplied
  <2>6. QED
    BY <2>3, <2>4, <2>5
<1>6. CASE s = "scoring"
  <2>1. Skill[s].needs = Scores
    BY <1>6 DEF Skill, ScoringService
  <2>2. \A k \in Scores : Has(c, k) <=> Good(Feeder(k))
    <3> SUFFICES ASSUME NEW k \in Scores PROVE Has(c, k) <=> Good(Feeder(k))
      OBVIOUS
    <3>1. Feeder(k) \in done /\ k \in Fed /\ k \notin world.missing
      BY <1>0, <1>m, <1>6 DEF FedBy, Scores
    <3>2. c[k] = IF Good(Feeder(k)) THEN Made(k) ELSE "absent"
      BY <3>1 DEF ContextOK
    <3>3. Made(k) \in {"default", "technical_score", "fundamental", "pattern"}
      BY <1>0, <3>1 DEF Made, Scores
    <3>4. QED
      BY <3>2, <3>3 DEF Has
  <2>3. Sufficient(s, c) <=> \A k \in Scores : Has(c, k)
    BY <1>6, <2>1 DEF Sufficient
  <2>4. Sufficient(s, c) <=> Good("technical_score") /\ Good("fundamental") /\ Good("pattern")
    BY <1>0, <2>2, <2>3 DEF Scores
  <2>5. QED
    BY <1>6, <2>4 DEF Supplied, Good
<1>7. CASE s = "risk_management"
  <2>1. Skill[s].needs = RiskInputs
    BY <1>7 DEF Skill, RiskManagementService
  <2>2. \A k \in RiskInputs : Has(c, k) <=> k \in goal
    BY <1>7 DEF ContextOK, Has, Given
  <2>3. Sufficient(s, c) <=> \A k \in RiskInputs : Has(c, k)
    BY <1>7, <2>1 DEF Sufficient
  <2>4. QED
    BY <1>7, <2>2, <2>3 DEF Supplied
<1>8. QED
  BY <1>1, <1>2, <1>3, <1>4, <1>5, <1>6, <1>7, TwelveServices

\* A service that has to, is answered as it has to be.
LEMMA ResultMatches ==
  ASSUME WorldOK, NEW c, NEW done, ContextOK(c, done),
         NEW s \in ServiceNames \ {"notification"}, FedBy(s) \subseteq done, s \notin done
  PROVE  Matches(Result(s, c))
<1>1. Succeeds(s, c) <=> Good(s)
  BY SufficientIsSupplied DEF Succeeds, Good, Alive
<1>2. ASSUME Good(s), NEW k \in Inputs(s) PROVE Read(s, k, c) = Expected(k)
  <2>1. CASE k \in Fed
    <3>1. Feeder(k) \in done
      BY <2>1, ReadsOf
    <3>2. c[k] = IF Good(Feeder(k)) THEN Made(k) ELSE "absent"
      BY <2>1, <3>1 DEF ContextOK
    <3>3. Made(k) # "absent"
      BY <2>1 DEF Made, Feeder
    <3>4. k \notin {"TICKER", "STRATEGY"}
      BY <2>1 DEF Fed, FromStock, FromIndicators, Fundamentals, Averages, Bands, Scores
    <3>5. QED
      BY <2>1, <3>2, <3>3, <3>4 DEF Read, Has, Expected
  <2>2. CASE k \in Brought
    <3>1. c[k] = Given(k) /\ k \notin Fed /\ k \notin {"TICKER", "STRATEGY"}
      BY <2>2 DEF ContextOK, Brought, Fed, FromStock, FromIndicators, Fundamentals,
              Averages, Bands, Scores
    <3>2. QED
      BY <3>1 DEF Read, Has, Expected, Given
  <2>3. CASE k \in RiskInputs
    <3>1. c[k] = Given(k) /\ k \notin Fed /\ k \notin {"TICKER", "STRATEGY"}
      BY <2>3, ReadsOf DEF ContextOK, RiskInputs, Fed, FromStock, FromIndicators, Fundamentals,
              Averages, Bands, Scores
    <3>2. QED
      BY <3>1 DEF Read, Has, Expected, Given
  <2>4. CASE k = "STRATEGY"
    <3>1. s = "backtest" /\ c[k] = Given(k) /\ k \notin Fed
      BY <2>4, ReadsOf DEF ContextOK, Fed, FromStock, FromIndicators, Fundamentals,
              Averages, Bands, Scores
    <3>2. QED
      BY <2>4, <3>1 DEF Read, Has, Expected, Given, WithDefault
  <2>5. CASE k = "IMAGE_PATH"
    <3>1. s = "chart" /\ c[k] = Given(k) /\ k \notin Fed
      BY <2>5, ReadsOf DEF ContextOK, Fed, FromStock, FromIndicators, Fundamentals,
              Averages, Bands, Scores
    <3>2. QED
      BY <2>5, <3>1 DEF Read, Has, Expected, Given
  <2>6. CASE k = "TICKER"
    <3>1. s \in {"stock", "news", "chart"} /\ k \notin Fed
      BY <2>6, ReadsOf DEF Fed, FromStock, FromIndicators, Fundamentals, Averages, Bands, Scores
    <3>2. s = "chart" => c[k] = WithDefault(k)
      BY <1>2, <2>6 DEF ContextOK, FedBy, Good, Supplied
    <3>3. c[k] \in {Given(k), WithDefault(k)}
      BY <2>6 DEF ContextOK
    <3>4. QED
      BY <2>6, <3>1, <3>2, <3>3 DEF Read, Has, Expected, Given, WithDefault
  <2>7. QED
    BY <2>1, <2>2, <2>3, <2>4, <2>5, <2>6, ReadsOf
<1>3. Result(s, c).service = s /\ Result(s, c).success = Succeeds(s, c)
  BY DEF Result
<1>4. Good(s) => Result(s, c).used = [k \in Inputs(s) |-> Expected(k)]
  BY <1>2 DEF Result
<1>5. Succeeds(s, c) = Good(s)
  BY <1>1 DEF Succeeds, Sufficient, Good, Supplied
<1>6. QED
  BY <1>3, <1>4, <1>5 DEF Matches

\* All of these are keys of the services.
LEMMA FedKeys ==
         /\ Fed \subseteq Keys /\ Brought \subseteq Keys /\ RiskInputs \subseteq Keys
         /\ "STRATEGY" \in Keys /\ "IMAGE_PATH" \in Keys /\ "TICKER" \in Keys
<1>1. ASSUME NEW s \in ServiceNames PROVE Inputs(s) \subseteq Keys /\ Skill[s].gives \subseteq Keys
  BY AnalysisAssumption DEF MetadataKeys
<1>2. Fed \subseteq Keys
  BY <1>1, FeederMakes
<1>3. RiskInputs \subseteq Keys
  BY <1>1, TwelveServices DEF Inputs, Skill, RiskManagementService
<1>4. {"PERIOD", "INTERVAL", "TICKER"} \subseteq Keys
  BY <1>1, TwelveServices DEF Inputs, Skill, StockService
<1>5. {"PER_SECTOR", "ROE_SECTOR"} \subseteq Keys
  BY <1>1, TwelveServices DEF Inputs, Skill, FundamentalService
<1>6. {"STRATEGY", "CAPITAL", "FAST_PERIOD", "SLOW_PERIOD"} \subseteq Keys
  BY <1>1, TwelveServices DEF Inputs, Skill, BacktestService
<1>7. "AVG_RETURN" \in Keys
  BY <1>1, TwelveServices DEF Inputs, Skill, PatternService
<1>8. {"INDICATORS", "IMAGE_PATH"} \subseteq Keys
  BY <1>1, TwelveServices DEF Inputs, Skill, ChartService
<1>9. "MAX_NEWS" \in Keys
  BY <1>1, TwelveServices DEF Inputs, Skill, NewsService
<1>10. {"CHANNEL", "MESSAGE", "TITLE", "CREDENTIAL"} \subseteq Keys
  BY <1>1, TwelveServices DEF Inputs, Skill, NotificationService
<1>11. QED
  BY <1>2, <1>3, <1>4, <1>5, <1>6, <1>7, <1>8, <1>9, <1>10 DEF Brought

\* What a service gives keeps the context in order.
LEMMA ContextKept ==
  ASSUME WorldOK, NEW c, NEW done, ContextOK(c, done), NEW s \in ServiceNames, s \notin done,
         FedBy(s) \subseteq done
  PROVE  ContextOK(Merge(c, Result(s, c).data), done \cup {s})
<1> DEFINE d == Merge(c, Result(s, c).data)
<1>0. /\ Fed \subseteq Keys /\ Brought \subseteq Keys /\ RiskInputs \subseteq Keys
      /\ "STRATEGY" \in Keys /\ "IMAGE_PATH" \in Keys /\ "TICKER" \in Keys
  BY FedKeys
<1>1. \A k \in Keys :
        d[k] = IF Succeeds(s, c) /\ k \in Skill[s].gives THEN Output(s, k, c) ELSE c[k]
  BY DEF Merge, Result
<1>2. ASSUME NEW k \in Fed
      PROVE  d[k] = IF Feeder(k) \in done \cup {s} /\ Good(Feeder(k)) THEN Made(k) ELSE "absent"
  <2>0. k \in Keys /\ c[k] = IF Feeder(k) \in done /\ Good(Feeder(k)) THEN Made(k) ELSE "absent"
    BY <1>0 DEF ContextOK
  <2>1. CASE Feeder(k) = s
    <3>1. k \in Skill[s].gives /\ k \notin Inputs(s) /\ s # "notification"
      BY <2>1, FeederMakes
    <3>2. Succeeds(s, c) <=> Good(s)
      BY <3>1, SufficientIsSupplied DEF Succeeds, Good, Alive
    <3>3. ASSUME Good(s) PROVE Output(s, k, c) = Made(k)
      <4>1. k \in world.missing => s = "stock" /\ k # "PATTERN_SCORE"
        BY <2>1, NeverMissing, FeederOf DEF FromStock, Fundamentals
      <4>2. s = "pattern" <=> k = "PATTERN_SCORE"
        BY <2>1, FeederOf DEF Fed, Scores
      <4>3. s = "pattern" =>
              (Has(c, "WIN_RATE") /\ Has(c, "AVG_RETURN")
                 <=> Good("backtest") /\ "AVG_RETURN" \in goal)
        <5> SUFFICES ASSUME s = "pattern"
                     PROVE  Has(c, "WIN_RATE") /\ Has(c, "AVG_RETURN")
                              <=> Good("backtest") /\ "AVG_RETURN" \in goal
          OBVIOUS
        <5>1. "backtest" \in done
          BY DEF FedBy
        <5>2. "WIN_RATE" \in Fed /\ Feeder("WIN_RATE") = "backtest"
          BY FeederOf
        <5>3. "WIN_RATE" \notin world.missing
          BY <5>2, NeverMissing DEF Fundamentals
        <5>4. c["WIN_RATE"] = IF Good("backtest") THEN "backtest" ELSE "absent"
          BY <5>1, <5>2, <5>3 DEF ContextOK, Made
        <5>5. c["AVG_RETURN"] = Given("AVG_RETURN")
          BY DEF ContextOK, Brought
        <5>6. Has(c, "WIN_RATE") <=> Good("backtest")
          BY <5>4 DEF Has
        <5>7. Has(c, "AVG_RETURN") <=> "AVG_RETURN" \in goal
          BY <5>5 DEF Has, Given
        <5>8. QED
          BY <5>6, <5>7
      <4>4. CASE k \in world.missing
        BY <4>1, <4>4 DEF Output, Made
      <4>5. CASE k \notin world.missing
        BY <2>1, <3>1, <4>2, <4>3, <4>5 DEF Output, Made
      <4>6. QED
        BY <4>4, <4>5
    <3>4. QED
      BY <1>1, <2>0, <2>1, <3>1, <3>2, <3>3
  <2>2. CASE Feeder(k) # s
    <3>1. ASSUME Succeeds(s, c), k \in Skill[s].gives PROVE Output(s, k, c) = c[k]
      <4>1. s = "scoring" /\ k \in Scores
        BY <2>2, <3>1, GivesOf
      <4>2. Skill[s].needs = Scores /\ k \in Inputs(s)
        BY <4>1 DEF Skill, ScoringService, Inputs
      <4>3. Has(c, k)
        BY <3>1, <4>1, <4>2 DEF Succeeds, Sufficient
      <4>4. QED
        BY <4>1, <4>2, <4>3 DEF Output, Read, Has
    <3>2. QED
      BY <1>1, <2>0, <2>2, <3>1
  <2>3. QED
    BY <2>1, <2>2
<1>3. ASSUME NEW k \in Brought PROVE d[k] = Given(k)
  <2>1. k \in Keys /\ c[k] = Given(k)
    BY <1>0 DEF ContextOK
  <2>2. ASSUME Succeeds(s, c), k \in Skill[s].gives PROVE Output(s, k, c) = c[k]
    <3>1. s = "notification" /\ k = "CHANNEL"
      BY <2>2, GivesOf
    <3>2. k \in Inputs(s) /\ Has(c, k)
      BY <2>2, <3>1 DEF Succeeds, Sufficient, Inputs, Skill, NotificationService
    <3>3. QED
      BY <3>1, <3>2 DEF Output, Read, Has
  <2>3. QED
    BY <1>1, <2>1, <2>2
<1>4. ASSUME "risk_management" \notin done, NEW k \in RiskInputs PROVE d[k] = Given(k)
  BY <1>0, <1>1, <1>4, GivesOf DEF ContextOK
<1>5. "backtest" \notin done \cup {s} => d["STRATEGY"] = Given("STRATEGY")
  BY <1>0, <1>1, GivesOf DEF ContextOK
<1>6. "chart" \notin done \cup {s} => d["IMAGE_PATH"] = Given("IMAGE_PATH")
  BY <1>0, <1>1, GivesOf DEF ContextOK
<1>7. /\ d["TICKER"] \in {Given("TICKER"), WithDefault("TICKER")}
      /\ "stock" \in done \cup {s} /\ Good("stock") => d["TICKER"] = WithDefault("TICKER")
  <2>1. /\ c["TICKER"] \in {Given("TICKER"), WithDefault("TICKER")}
        /\ "stock" \in done /\ Good("stock") => c["TICKER"] = WithDefault("TICKER")
    BY DEF ContextOK
  <2>2. ASSUME Succeeds(s, c), "TICKER" \in Skill[s].gives
        PROVE  Output(s, "TICKER", c) = WithDefault("TICKER")
    <3>0. s \in {"stock", "news"}
      BY <2>2, GivesOf
    <3>1. "TICKER" \in Inputs(s)
      BY <3>0 DEF Inputs, Skill, StockService, NewsService
    <3>2. "TICKER" \notin world.missing
      BY DEF WorldOK, Worlds, Fundamentals
    <3>3. Output(s, "TICKER", c) = Read(s, "TICKER", c)
      BY <3>0, <3>1, <3>2 DEF Output, Read, Has
    <3>4. QED
      BY <2>1, <3>0, <3>3 DEF Read, Has, Given, WithDefault
  <2>3. ASSUME s = "stock" PROVE "TICKER" \in Skill[s].gives /\ (Succeeds(s, c) <=> Good(s))
    BY <2>3, SufficientIsSupplied, TwelveServices
       DEF Skill, StockService, Succeeds, Good, Alive
  <2>4. QED
    BY <1>0, <1>1, <2>1, <2>2, <2>3
<1>8. QED
  BY <1>2, <1>3, <1>4, <1>5, <1>6, <1>7 DEF ContextOK

\* The last service of the pipeline that may get defaults leaves the rest as it is.
LEMMA RiskKept ==
  ASSUME NEW c, NEW d, NEW done, ContextOK(c, done),
         \A k \in Keys \ (RiskInputs \cup RiskOutputs) : d[k] = c[k]
  PROVE  ContextOK(d, done \cup {"risk_management"})
<1>1. /\ Fed \cup Brought \cup {"STRATEGY", "IMAGE_PATH", "TICKER"}
           \subseteq Keys \ (RiskInputs \cup RiskOutputs)
      /\ \A k \in Fed : Feeder(k) # "risk_management"
  <2>1. Fed \cup Brought \cup {"STRATEGY", "IMAGE_PATH", "TICKER"} \subseteq Keys
    BY FedKeys
  <2>2. Fed \cap (RiskInputs \cup RiskOutputs) = {}
    BY DEF Fed, FromStock, FromIndicators, Fundamentals, Averages, Bands, Scores, RiskInputs,
           RiskOutputs
  <2>3. Brought \cap (RiskInputs \cup RiskOutputs) = {}
    BY DEF Brought, RiskInputs, RiskOutputs
  <2>4. {"STRATEGY", "IMAGE_PATH", "TICKER"} \cap (RiskInputs \cup RiskOutputs) = {}
    BY DEF RiskInputs, RiskOutputs
  <2>5. QED
    BY <2>1, <2>2, <2>3, <2>4, FeederMakes
<1>2. QED
  BY <1>1 DEF ContextOK

\* The goal's context is in order before anything is done.
LEMMA GoalContextOK ==
  ASSUME Plain
  PROVE  ContextOK(GoalContext, {})
<1>1. \A k \in Keys : GoalContext[k] = Given(k)
  BY DEF GoalContext, Given
<1>2. ASSUME NEW k \in Fed PROVE GoalContext[k] = "absent"
  <2>1. k \in Computed
    BY FeederMakes DEF Computed
  <2>2. QED
    BY <1>1, <2>1, FedKeys DEF Plain, Given
<1>3. QED
  BY <1>1, <1>2, FedKeys DEF ContextOK

-----------------------------------------------------------------------------
\* What a plan of the twelve services is.

\* The two services that only feed optional inputs are in the round of the one that
\* reads them, or planned already, and come before it.
IndicatorsFirst ==
  \A t \in {"technical_indicator", "moving_average"} :
    /\ "technical_score" \in round => t \in round \cup Planned
    /\ \A i \in DOMAIN steps :
         steps[i] = "technical_score" => \E j \in 1 .. i - 1 : steps[j] = t

LEMMA InitIndicators == PlannerInit => IndicatorsFirst
  BY DEF PlannerInit, IndicatorsFirst

LEMMA PriceMeansHistory ==
  ASSUME Plain, NEW K \in SUBSET ServiceNames, "PRICE" \in Supply(K)
  PROVE  "HISTORY" \in Supply(K)
<1>1. "PRICE" \in Fed /\ Feeder("PRICE") = "stock"
  BY FeederOf DEF FromStock
<1>2. "PRICE" \notin goal
  BY <1>1, FeederMakes DEF Plain, Computed
<1>3. PICK s \in K : "PRICE" \in Skill[s].gives
  BY <1>2, AnalysisAssumption DEF Supply, ProducedOutputs
<1>4. s = "stock"
  BY <1>1, <1>3, GivesOf DEF Scores
<1>5. "HISTORY" \in Skill["stock"].gives
  BY DEF Skill, StockService
<1>6. QED
  BY <1>3, <1>4, <1>5, AnalysisAssumption DEF Supply, ProducedOutputs

LEMMA BeginRoundIndicators ==
  ASSUME Plain, PlannerInv, IndicatorsFirst, BeginRound
  PROVE  IndicatorsFirst'
<1>1. /\ round' = Satisfied /\ steps' = steps /\ Planned' = Planned
      /\ available = Supply(Planned) /\ remaining = ServiceNames \ Planned
      /\ Planned \subseteq ServiceNames
  BY AnalysisAssumption DEF BeginRound, PlannerInv, Bookkeeping, Planned, PlannerTypeOK
<1>2. ASSUME NEW t \in {"technical_indicator", "moving_average"},
             "technical_score" \in Satisfied
      PROVE  t \in Satisfied \cup Planned
  <2>1. "PRICE" \in available
    BY <1>2, AnalysisAssumption, TwelveServices
       DEF Satisfied, RequiredInputs, Skill, TechnicalScoreService
  <2>2. "HISTORY" \in available
    BY <1>1, <2>1, PriceMeansHistory
  <2>3. t \in ServiceNames /\ Required[t] = {"HISTORY"}
    BY AnalysisAssumption, TwelveServices
       DEF RequiredInputs, Skill, TechnicalIndicatorService, MovingAverageService
  <2>4. QED
    BY <1>1, <2>2, <2>3 DEF Satisfied
<1>3. QED
  BY <1>1, <1>2 DEF IndicatorsFirst

LEMMA TakeServiceIndicators ==
  ASSUME PlannerInv, IndicatorsFirst, TakeService
  PROVE  IndicatorsFirst'
<1>1. PICK s \in round :
        /\ \A t \in round : Rank[s] <= Rank[t]
        /\ steps' = Append(steps, s) /\ round' = round \ {s}
  BY DEF TakeService
<1>2. steps \in Seq(Services) /\ s \in Services
  BY <1>1 DEF PlannerInv, PlannerTypeOK
<1>3. /\ Planned' = Planned \cup {s}
      /\ Len(steps) \in Nat /\ steps'[Len(steps) + 1] = s
      /\ \A i \in 1 .. Len(steps) : steps'[i] = steps[i]
      /\ DOMAIN steps = 1 .. Len(steps) /\ DOMAIN steps' = 1 .. Len(steps) + 1
  BY <1>1, <1>2, PlannedAppend
<1>4. SUFFICES ASSUME NEW t \in {"technical_indicator", "moving_average"}
               PROVE  /\ "technical_score" \in round' => t \in round' \cup Planned'
                      /\ \A i \in DOMAIN steps' :
                           steps'[i] = "technical_score" => \E j \in 1 .. i - 1 : steps'[j] = t
  BY DEF IndicatorsFirst
<1>5. "technical_score" \in round' => t \in round' \cup Planned'
  BY <1>1, <1>3 DEF IndicatorsFirst
<1>6. s = "technical_score" => t \in Planned
  <2>1. ~(Rank["technical_score"] <= Rank[t])
    BY AnalysisAssumption, PlannerAssumption, TwelveServices
  <2>2. QED
    BY <1>1, <2>1 DEF IndicatorsFirst
<1>7. ASSUME NEW i \in DOMAIN steps', steps'[i] = "technical_score"
      PROVE  \E j \in 1 .. i - 1 : steps'[j] = t
  <2>1. CASE i = Len(steps) + 1
    <3>1. PICK j \in 1 .. Len(steps) : steps[j] = t
      BY <1>3, <1>6, <1>7, <2>1 DEF Planned
    <3>2. j \in 1 .. i - 1 /\ steps'[j] = t
      BY <1>3, <2>1, <3>1
    <3>3. QED
      BY <3>2
  <2>2. CASE i \in 1 .. Len(steps)
    <3>1. PICK j \in 1 .. i - 1 : steps[j] = t
      BY <1>3, <1>7, <2>2 DEF IndicatorsFirst
    <3>2. j \in 1 .. Len(steps)
      BY <1>3, <2>2
    <3>3. QED
      BY <1>3, <3>1, <3>2
  <2>3. QED
    BY <1>3, <2>1, <2>2
<1>8. QED
  BY <1>5, <1>7

LEMMA ReadsScores ==
  ASSUME NEW s \in ServiceNames, NEW k \in Inputs(s), k \in Scores
  PROVE  s = "scoring"
  BY TwelveServices
     DEF Inputs, Skill, Scores, Fundamentals, Averages, Bands, RiskInputs, StockService,
         TechnicalIndicatorService, MovingAverageService, TechnicalScoreService,
         FundamentalService, BacktestService, PatternService, ChartService, NewsService,
         RiskManagementService, ScoringService, NotificationService

\* A service needs something of each that feeds it, but for the two.
LEMMA FedByNeeds ==
  ASSUME NEW s \in ServiceNames, NEW t \in FedBy(s), ~(s = "technical_score" /\ t # "stock")
  PROVE  \E k \in Fed : k \in Skill[s].needs /\ Feeder(k) = t
<1> DEFINE Needs(k) == k \in Fed /\ k \in Skill[s].needs /\ Feeder(k) = t
<1>1. CASE s \in {"technical_indicator", "moving_average", "backtest", "chart"}
  <2>1. Needs("HISTORY")
    BY <1>1, FeederOf DEF FedBy, FromStock, Skill, TechnicalIndicatorService,
       MovingAverageService, BacktestService, ChartService
  <2>2. QED
    BY <2>1
<1>2. CASE s = "technical_score"
  <2>1. Needs("PRICE")
    BY <1>2, FeederOf DEF FromStock, Skill, TechnicalScoreService
  <2>2. QED
    BY <2>1
<1>3. CASE s = "fundamental"
  <2>1. Needs("PER")
    BY <1>3, FeederOf DEF FedBy, FromStock, Fundamentals, Skill, FundamentalService
  <2>2. QED
    BY <2>1
<1>4. CASE s = "pattern"
  <2>1. Needs("WIN_RATE")
    BY <1>4, FeederOf DEF FedBy, Skill, PatternService
  <2>2. QED
    BY <2>1
<1>5. CASE s = "scoring"
  <2>1. t \in {"technical_score", "fundamental", "pattern"} /\ Skill[s].needs = Scores
    BY <1>5 DEF FedBy, Skill, ScoringService
  <2>2. CASE t = "technical_score"
    BY <2>1, <2>2, FeederOf DEF Scores
  <2>3. CASE t = "fundamental"
    BY <2>1, <2>3, FeederOf DEF Scores
  <2>4. CASE t = "pattern"
    BY <2>1, <2>4, FeederOf DEF Scores
  <2>5. QED
    BY <2>1, <2>2, <2>3, <2>4
<1>6. CASE s \in {"stock", "news", "risk_management", "notification"}
  BY <1>6 DEF FedBy
<1>7. QED
  BY <1>1, <1>2, <1>3, <1>4, <1>5, <1>6, TwelveServices

\* Every step comes after those that feed it, and all but the services that only the
\* pipeline can serve are planned.
StepsFed ==
  \A i \in DOMAIN steps : \A t \in FedBy(steps[i]) : \E j \in 1 .. i - 1 : steps[j] = t

LEMMA StepFed ==
  ASSUME Plain, PlannerInv, NEW i \in DOMAIN steps, NEW t \in FedBy(steps[i]),
         ~(steps[i] = "technical_score" /\ t # "stock")
  PROVE  \E j \in 1 .. i - 1 : steps[j] = t
<1>1. /\ i \in Nat /\ steps[i] \in ServiceNames /\ \A j \in 1 .. i - 1 : steps[j] \in ServiceNames
      /\ \A j \in 1 .. i - 1 : steps[j] # steps[i]
      /\ Skill[steps[i]].needs \subseteq goal \cup UNION {Skill[steps[j]].gives : j \in 1 .. i - 1}
  <2>1. steps \in Seq(ServiceNames) /\ DOMAIN steps = 1 .. Len(steps) /\ Len(steps) \in Nat
    BY AnalysisAssumption DEF PlannerInv, PlannerTypeOK
  <2>2. /\ \A j \in 1 .. i - 1 : j \in DOMAIN steps /\ steps[j] \in ServiceNames
        /\ i \in Nat /\ steps[i] \in ServiceNames
    BY <2>1
  <2>3. /\ \A j \in 1 .. i - 1 : steps[j] # steps[i]
        /\ RequiredInputs[steps[i]] \subseteq
             goal \cup UNION {ProducedOutputs[steps[j]] : j \in 1 .. i - 1}
    BY AnalysisAssumption DEF PlannerInv, PlanIsOrdered
  <2>4. RequiredInputs[steps[i]] = Skill[steps[i]].needs
    BY <2>2 DEF RequiredInputs
  <2>5. \A j \in 1 .. i - 1 : ProducedOutputs[steps[j]] = Skill[steps[j]].gives
    BY <2>2 DEF ProducedOutputs
  <2>6. QED
    BY <2>2, <2>3, <2>4, <2>5
<1>2. ASSUME NEW k \in Fed, k \in Skill[steps[i]].needs, Feeder(k) = t
      PROVE  \E j \in 1 .. i - 1 : steps[j] = t
  <2>1. k \notin goal
    BY FeederMakes DEF Plain, Computed
  <2>2. PICK j \in 1 .. i - 1 : k \in Skill[steps[j]].gives
    BY <1>1, <1>2, <2>1
  <2>3. steps[j] # t => steps[j] = "scoring" /\ k \in Scores
    BY <1>1, <1>2, <2>2, GivesOf
  <2>4. k \in Scores => steps[i] = "scoring"
    <3>1. k \in Inputs(steps[i])
      BY <1>2 DEF Inputs
    <3>2. QED
      BY <1>1, <3>1, ReadsScores
  <2>5. QED
    BY <1>1, <2>3, <2>4
<1>3. \E k \in Fed : k \in Skill[steps[i]].needs /\ Feeder(k) = t
  BY <1>1, FedByNeeds
<1>4. QED
  BY <1>2, <1>3

LEMMA PlanFeeds ==
  ASSUME Plain, PlannerInv, IndicatorsFirst
  PROVE  StepsFed
  BY StepFed DEF StepsFed, IndicatorsFirst, FedBy

\* A plan that is returned has all services but those that only the pipeline serves.
LEMMA PlanServes ==
  ASSUME Plain, PlannerInv, ~planning
  PROVE  Planned \ {"notification"} = Answering \ OnlyPipeline
<1>1. /\ Planned \subseteq ServiceNames
      /\ \A s \in ServiceNames : Skill[s].needs \subseteq Supply(Planned) => s \in Planned
  <2>1. available = Supply(Planned) /\ remaining = ServiceNames \ Planned /\ Satisfied = {}
    BY AnalysisAssumption DEF PlannerInv, Bookkeeping
  <2>2. \A s \in ServiceNames : Required[s] = Skill[s].needs
    BY AnalysisAssumption DEF RequiredInputs
  <2>3. Planned \subseteq ServiceNames
    BY AnalysisAssumption DEF PlannerInv, PlannerTypeOK, Planned
  <2>4. QED
    BY <2>1, <2>2, <2>3 DEF Satisfied
<1>2. goal \subseteq Supply(Planned) /\ \A s \in Planned : Skill[s].gives \subseteq Supply(Planned)
  BY <1>1, AnalysisAssumption DEF Supply, ProducedOutputs
<1>3. \A k : k \in Supply(Planned) => k \in goal \/ \E s \in Planned : k \in Skill[s].gives
  BY <1>1, AnalysisAssumption DEF Supply, ProducedOutputs
<1>4. \A s \in Planned : Skill[s].needs \subseteq Supply(Planned)
  <2> SUFFICES ASSUME NEW s \in Planned PROVE Skill[s].needs \subseteq Supply(Planned)
    OBVIOUS
  <2>1. PICK i \in DOMAIN steps : steps[i] = s
    BY DEF Planned
  <2>2. DOMAIN steps = 1 .. Len(steps) /\ Len(steps) \in Nat
    BY DEF PlannerInv, PlannerTypeOK
  <2>3. Required[s] \subseteq goal \cup UNION {Produced[steps[j]] : j \in 1 .. i - 1}
    BY <2>1 DEF PlannerInv, PlanIsOrdered
  <2>4. \A j \in 1 .. i - 1 : steps[j] \in Planned
    BY <2>2 DEF Planned
  <2>5. Required[s] \subseteq Supply(Planned)
    BY <2>3, <2>4 DEF Supply
  <2>6. QED
    BY <1>1, <2>5, AnalysisAssumption DEF RequiredInputs
<1>5. "stock" \in Planned /\ "news" \in Planned
  BY <1>1, TwelveServices DEF Skill, StockService, NewsService
<1>6. FromStock \subseteq Supply(Planned)
  BY <1>2, <1>5, FeederMakes, FeederOf
<1>7. {"technical_indicator", "moving_average", "technical_score", "fundamental", "backtest",
       "chart"} \subseteq Planned
  BY <1>1, <1>6, TwelveServices
     DEF FromStock, Skill, TechnicalIndicatorService, MovingAverageService,
         TechnicalScoreService, FundamentalService, BacktestService, ChartService
<1>8. \A k \in {"AVG_RETURN"} \cup RiskInputs : k \in Supply(Planned) <=> k \in goal
  BY <1>1, <1>2, <1>3, GivesOf DEF Brought
<1>9. "pattern" \in Planned <=> "AVG_RETURN" \in goal
  <2>1. Skill["pattern"].needs = {"WIN_RATE", "AVG_RETURN"}
    BY DEF Skill, PatternService
  <2>2. "WIN_RATE" \in Supply(Planned)
    BY <1>2, <1>7, FeederMakes, FeederOf
  <2>3. QED
    BY <1>1, <1>4, <1>8, <2>1, <2>2, TwelveServices
<1>10. "scoring" \in Planned <=> "AVG_RETURN" \in goal
  <2>1. Skill["scoring"].needs = Scores
    BY DEF Skill, ScoringService
  <2>2. {"TECHNICAL_SCORE", "FUNDAMENTAL_SCORE"} \subseteq Supply(Planned)
    BY <1>2, <1>7, FeederMakes, FeederOf
  <2>3. "pattern" \in Planned => "PATTERN_SCORE" \in Supply(Planned)
    BY <1>2, FeederMakes, FeederOf
  <2>4. ASSUME "scoring" \in Planned PROVE "pattern" \in Planned
    <3>1. PICK i \in DOMAIN steps : steps[i] = "scoring"
      BY <2>4 DEF Planned
    <3>2. PICK j \in 1 .. i - 1 : steps[j] = "pattern"
      BY <3>1, StepFed DEF FedBy
    <3>3. QED
      BY <3>1, <3>2 DEF Planned, PlannerInv, PlannerTypeOK
  <2>5. QED
    BY <1>1, <1>9, <2>1, <2>2, <2>3, <2>4, TwelveServices DEF Scores
<1>11. "risk_management" \in Planned <=> RiskInputs \subseteq goal
  <2>1. Skill["risk_management"].needs = RiskInputs
    BY DEF Skill, RiskManagementService
  <2>2. QED
    BY <1>1, <1>4, <1>8, <2>1, TwelveServices
<1>12. QED
  BY <1>1, <1>5, <1>7, <1>9, <1>10, <1>11, TwelveServices DEF Answering, OnlyPipeline

-----------------------------------------------------------------------------
\* What is recorded of a run, and what its context has gained.

Values == ServiceNames \cup {"absent", "none", "goal", "default"}

Contexts == [Keys -> Values]

Answers ==
  [service : ServiceNames, success : BOOLEAN,
   used : UNION {[K -> Values] : K \in SUBSET Keys},
   data : UNION {[K -> Values] : K \in SUBSET Keys}]

LEMMA ResultType ==
  ASSUME NEW s \in ServiceNames, NEW c \in Contexts
  PROVE  Result(s, c) \in Answers
<1>1. Skill[s].gives \in SUBSET Keys /\ Inputs(s) \in SUBSET Keys
  BY AnalysisAssumption DEF MetadataKeys
<1>2. \A k \in Inputs(s) : Read(s, k, c) \in Values
  BY <1>1 DEF Read, Values, Contexts
<1>3. ASSUME NEW k \in Skill[s].gives PROVE Output(s, k, c) \in Values
  BY <1>1 DEF Output, Read, Values, Contexts
<1>4. [k \in Inputs(s) |-> Read(s, k, c)] \in UNION {[K -> Values] : K \in SUBSET Keys}
  BY <1>1, <1>2
<1>5. [k \in Skill[s].gives |-> Output(s, k, c)] \in UNION {[K -> Values] : K \in SUBSET Keys}
  BY <1>1, <1>3
<1>6. << >> \in UNION {[K -> Values] : K \in SUBSET Keys}
  <2>1. << >> \in [{} -> Values]
    OBVIOUS
  <2>2. QED
    BY <2>1
<1>7. Succeeds(s, c) \in BOOLEAN
  BY DEF Succeeds
<1>8. QED
  BY <1>4, <1>5, <1>6, <1>7 DEF Result, Answers

LEMMA AnswerTypes ==
  ASSUME NEW r \in Answers
  PROVE  /\ DOMAIN r.data \subseteq Keys
         /\ \A k \in DOMAIN r.data : r.data[k] \in Values
<1>1. PICK K \in SUBSET Keys : r.data \in [K -> Values]
  BY DEF Answers
<1>2. QED
  BY <1>1

LEMMA MergeTypes ==
  ASSUME NEW c \in Contexts, NEW r \in Answers
  PROVE  Merge(c, r.data) \in Contexts
  BY AnswerTypes DEF Merge, Contexts

LEMMA GoalContextType ==
  GoalContext \in Contexts
  BY DEF GoalContext, Contexts, Values

Writers(rs, k) == {i \in DOMAIN rs : k \in DOMAIN rs[i].data}

\* Every key that was written was written by a last one.
LastExists(rs) ==
  \A k : Writers(rs, k) # {} => \E i \in Writers(rs, k) : \A j \in Writers(rs, k) : j <= i

\* A result that is added overlays what was recorded.
LEMMA RecordedAppend ==
  ASSUME NEW rs \in Seq(Answers), NEW r \in Answers, LastExists(rs)
  PROVE  /\ LastExists(Append(rs, r))
         /\ Merge(GoalContext, Recorded(Append(rs, r)))
              = Merge(Merge(GoalContext, Recorded(rs)), r.data)
<1> DEFINE new == Append(rs, r)
           n   == Len(rs) + 1
           last(k) == CHOOSE i \in Writers(rs, k) : \A j \in Writers(rs, k) : j <= i
           newLast(k) == CHOOSE i \in Writers(new, k) : \A j \in Writers(new, k) : j <= i
<1>1. /\ DOMAIN rs = 1 .. Len(rs) /\ Len(rs) \in Nat /\ DOMAIN new = 1 .. n
      /\ \A i \in 1 .. Len(rs) : new[i] = rs[i]
      /\ new[n] = r
  OBVIOUS
<1>2. /\ DOMAIN Recorded(rs) = UNION {DOMAIN rs[i].data : i \in DOMAIN rs}
      /\ \A k \in DOMAIN Recorded(rs) : Recorded(rs)[k] = rs[last(k)].data[k]
  BY DEF Recorded, Writers
<1>3. /\ DOMAIN Recorded(new) = UNION {DOMAIN new[i].data : i \in DOMAIN new}
      /\ \A k \in DOMAIN Recorded(new) : Recorded(new)[k] = new[newLast(k)].data[k]
  BY DEF Recorded, Writers
<1>4. DOMAIN Recorded(new) = DOMAIN Recorded(rs) \cup DOMAIN r.data
  BY <1>1, <1>2, <1>3
<1>5. ASSUME NEW k, k \in DOMAIN r.data
      PROVE  n \in Writers(new, k) /\ \A j \in Writers(new, k) : j \in Nat /\ j <= n
  BY <1>1, <1>5 DEF Writers
<1>6. ASSUME NEW k, k \notin DOMAIN r.data
      PROVE  Writers(new, k) = Writers(rs, k)
  BY <1>1, <1>6 DEF Writers
<1>7. LastExists(new)
  <2> SUFFICES ASSUME NEW k, Writers(new, k) # {}
               PROVE  \E i \in Writers(new, k) : \A j \in Writers(new, k) : j <= i
    BY DEF LastExists
  <2>1. CASE k \in DOMAIN r.data
    BY <1>5, <2>1
  <2>2. CASE k \notin DOMAIN r.data
    BY <1>6, <2>2 DEF LastExists
  <2>3. QED
    BY <2>1, <2>2
<1>8. ASSUME NEW k \in DOMAIN r.data PROVE Recorded(new)[k] = r.data[k]
  <2>1. newLast(k) = n
    BY <1>1, <1>5
  <2>2. QED
    BY <1>1, <1>3, <1>4, <2>1
<1>9. ASSUME NEW k \in DOMAIN Recorded(rs), k \notin DOMAIN r.data
      PROVE  Recorded(new)[k] = Recorded(rs)[k]
  <2>1. newLast(k) = last(k)
    BY <1>6, <1>9
  <2>2. Writers(rs, k) # {}
    BY <1>2 DEF Writers
  <2>3. last(k) \in Writers(rs, k)
    BY <2>2 DEF LastExists
  <2>4. last(k) \in 1 .. Len(rs)
    BY <1>1, <2>3 DEF Writers
  <2>5. QED
    BY <1>1, <1>2, <1>3, <1>4, <2>1, <2>4
<1>10. QED
  BY <1>4, <1>7, <1>8, <1>9 DEF Merge

-----------------------------------------------------------------------------
\* The two runs.

DoneSteps(n) == {steps[i] : i \in 1 .. n}

Asked(n) == {PipelineOrder[i] : i \in 1 .. n}

\* The service that would end a run if the run came to it.
Deadly(s) == world.raises /\ world.down = s /\ Supplied(s)

\* What is said of a service in the plan: a notification has only heard of the goal.
ToldRightly(r) ==
  IF r.service = "notification"
  THEN \A k \in DOMAIN r.used : r.used[k] \in {"absent", "goal"}
  ELSE Matches(r)

\* The pipeline sizes a position by defaults.
Defaulted(s) == s = "risk_management" /\ ~(RiskInputs \subseteq goal)

PlanRun ==
  /\ Len(executed) <= Len(steps)
  /\ \A i \in 1 .. Len(executed) : executed[i].service = steps[i] /\ ToldRightly(executed[i])
  /\ stage \in {"execute", "record"} =>
       raised = {} /\ \A i \in 1 .. Len(executed) : ~Deadly(steps[i])
  /\ stage = "execute" => ContextOK(context, DoneSteps(Len(executed)))
  /\ stage = "record" => Len(executed) = Len(steps)
  /\ stage \in {"pipeline", "end"} =>
       ("plan" \in raised <=> \E s \in Planned : Deadly(s))

PipelineRun ==
  /\ Len(answered) <= Len(PipelineOrder)
  /\ \A j \in 1 .. Len(answered) :
       /\ answered[j].service = PipelineOrder[j]
       /\ ~Defaulted(PipelineOrder[j]) => Matches(answered[j])
       /\ PipelineOrder[j] \notin OnlyPipeline => ~Deadly(PipelineOrder[j])
  /\ stage # "end" => "pipeline" \notin raised
  /\ stage \notin {"pipeline", "end"} => answered = << >>
  /\ stage = "pipeline" => ContextOK(context, Asked(Len(answered)))
  /\ stage = "end" =>
       IF "pipeline" \in raised
       THEN world.down \in OnlyPipeline \/ (Deadly(world.down) /\ world.down \in Answering)
       ELSE Len(answered) = Len(PipelineOrder)

Recording ==
  /\ LastExists(executed)
  /\ stage = "execute" => context = Merge(GoalContext, Recorded(executed))
  /\ stage = "record" => known = Merge(GoalContext, Recorded(executed))
  /\ stage \in {"pipeline", "end"} /\ "plan" \notin raised =>
       known = Merge(GoalContext, Recorded(executed)) /\ observed = Recorded(executed)

AnalysisTypes ==
  /\ goal \subseteq Keys
  /\ stage \in {"plan", "execute", "record", "pipeline", "end"}
  /\ stage = "plan" <=> planning
  /\ stage # "plan" => WorldOK
  /\ context \in Contexts
  /\ executed \in Seq(Answers) /\ answered \in Seq(Answers)
  /\ stage = "plan" => executed = << >> /\ answered = << >> /\ raised = {}
                         /\ context = GoalContext
  /\ stage = "record" => context = GoalContext

AnalysisInv ==
  /\ PlannerInv /\ AnalysisTypes /\ Recording
  /\ Plain => IndicatorsFirst
  /\ Plain /\ stage # "plan" => PlanRun /\ PipelineRun

LEMMA PipelineFacts ==
  /\ Len(PipelineOrder) = 11
  /\ \A n \in 0 .. 10 : LET s == PipelineOrder[n + 1]
                         IN  /\ s \in Answering /\ s \notin Asked(n)
                             /\ FedBy(s) \subseteq Asked(n)
  /\ Asked(11) = Answering
<1>0. Len(PipelineOrder) = 11
  BY DEF PipelineOrder
<1>1. /\ PipelineOrder[1] = "stock" /\ PipelineOrder[2] = "technical_indicator"
      /\ PipelineOrder[3] = "moving_average" /\ PipelineOrder[4] = "technical_score"
      /\ PipelineOrder[5] = "fundamental" /\ PipelineOrder[6] = "backtest"
      /\ PipelineOrder[7] = "pattern" /\ PipelineOrder[8] = "chart"
      /\ PipelineOrder[9] = "news" /\ PipelineOrder[10] = "risk_management"
      /\ PipelineOrder[11] = "scoring"
  BY DEF PipelineOrder
<1>2. Answering = {"stock", "technical_indicator", "moving_average", "technical_score",
                   "fundamental", "backtest", "pattern", "chart", "news", "risk_management",
                   "scoring"}
  BY TwelveServices DEF Answering
<1>3. \A n \in 0 .. 10 : PipelineOrder[n + 1] \in Answering
  BY <1>1, <1>2
<1>4. \A n \in 0 .. 10 : PipelineOrder[n + 1] \notin Asked(n)
  BY <1>1 DEF Asked
<1>5. ASSUME NEW n \in 0 .. 10 PROVE FedBy(PipelineOrder[n + 1]) \subseteq Asked(n)
  <2>1. n >= 1 => "stock" \in Asked(n)
    BY <1>1 DEF Asked
  <2>2. n >= 3 => {"technical_indicator", "moving_average"} \subseteq Asked(n)
    BY <1>1 DEF Asked
  <2>3. n >= 6 => "backtest" \in Asked(n)
    BY <1>1 DEF Asked
  <2>4. n >= 7 => {"technical_score", "fundamental", "pattern"} \subseteq Asked(n)
    BY <1>1 DEF Asked
  <2>5. QED
    BY <1>1, <2>1, <2>2, <2>3, <2>4 DEF FedBy
<1>6. Asked(11) = Answering
  <2>1. \A i \in 1 .. 11 : PipelineOrder[i] \in Answering
    BY <1>1, <1>2
  <2>2. \A s \in Answering : \E i \in 1 .. 11 : PipelineOrder[i] = s
    BY <1>1, <1>2
  <2>3. QED
    BY <2>1, <2>2 DEF Asked
<1>7. QED
  BY <1>0, <1>3, <1>4, <1>5, <1>6

LEMMA InitAnalysis == AnalysisInit => AnalysisInv
<1> SUFFICES ASSUME AnalysisInit PROVE AnalysisInv
  OBVIOUS
<1>1. PlannerInv /\ IndicatorsFirst /\ planning
  BY InitPlanner, InitIndicators DEF AnalysisInit, PlannerInit
<1>2. AnalysisTypes
  BY GoalContextType, PlannerAssumption DEF AnalysisInit, AnalysisTypes, PlannerInit
<1>3. Recording
  BY DEF AnalysisInit, Recording, LastExists, Writers
<1>4. QED
  BY <1>1, <1>2, <1>3 DEF AnalysisInv, AnalysisInit

LEMMA PlanKeeps == ASSUME AnalysisInv, Plan PROVE AnalysisInv'
<1>1. /\ stage = "plan" /\ (BeginRound \/ TakeService)
      /\ UNCHANGED <<world, stage, context, executed, observed, known, answered, raised>>
  BY DEF Plan
<1>2. UNCHANGED <<goal, planning>>
  BY <1>1 DEF BeginRound, TakeService
<1>3. PlannerInv'
  BY <1>1, BeginRoundPlanner, TakeServicePlanner DEF AnalysisInv
<1>4. Plain' => IndicatorsFirst'
  BY <1>1, <1>2, BeginRoundIndicators, TakeServiceIndicators DEF AnalysisInv, Plain
<1>5. AnalysisTypes'
  <2>1. GoalContext' = GoalContext
    BY <1>2 DEF GoalContext
  <2>2. QED
    BY <1>1, <1>2, <2>1 DEF AnalysisInv, AnalysisTypes
<1>6. Recording'
  BY <1>1 DEF AnalysisInv, Recording, LastExists, Writers
<1>7. QED
  BY <1>1, <1>3, <1>4, <1>5, <1>6 DEF AnalysisInv

\* What was said of a world and a goal stands as long as they do.
LEMMA WorldStands ==
  ASSUME world' = world, goal' = goal
  PROVE  /\ \A s : Good(s)' <=> Good(s)
         /\ \A s : Deadly(s)' <=> Deadly(s)
         /\ \A s : Defaulted(s)' <=> Defaulted(s)
         /\ \A r : Matches(r)' <=> Matches(r)
         /\ \A r : ToldRightly(r)' <=> ToldRightly(r)
         /\ \A c, done : ContextOK(c, done)' <=> ContextOK(c, done)
         /\ OnlyPipeline' = OnlyPipeline
         /\ GoalContext' = GoalContext
         /\ Plain' <=> Plain
         /\ WorldOK' <=> WorldOK
<1>1. /\ \A s : Alive(s)' <=> Alive(s)
      /\ \A k : Given(k)' = Given(k)
      /\ \A k : WithDefault(k)' = WithDefault(k)
  BY DEF Alive, Given, WithDefault
<1>2. \A s : Supplied(s)' <=> Supplied(s)
  BY <1>1 DEF Supplied
<1>3. \A s : Good(s)' <=> Good(s)
  BY <1>1, <1>2 DEF Good
<1>4. \A k : Made(k)' = Made(k)
  BY <1>3 DEF Made
<1>5. \A k : Expected(k)' = Expected(k)
  BY <1>1, <1>3, <1>4 DEF Expected
<1>6. \A r : Matches(r)' <=> Matches(r)
  BY <1>3, <1>5 DEF Matches
<1>7. \A c, done : ContextOK(c, done)' <=> ContextOK(c, done)
  BY <1>1, <1>3, <1>4 DEF ContextOK
<1>8. \A s : Deadly(s)' <=> Deadly(s)
  BY <1>2 DEF Deadly
<1>9. \A r : ToldRightly(r)' <=> ToldRightly(r)
  BY <1>6 DEF ToldRightly
<1>10. QED
  BY <1>3, <1>6, <1>7, <1>8, <1>9 DEF Defaulted, OnlyPipeline, GoalContext, Plain, WorldOK

LEMMA PlanReturnedKeeps == ASSUME AnalysisInv, PlanReturned PROVE AnalysisInv'
<1>1. /\ stage = "plan" /\ ReturnPlan /\ stage' = "execute" /\ world' \in Worlds
      /\ UNCHANGED <<context, executed, observed, known, answered, raised>>
      /\ UNCHANGED <<goal, available, remaining, round, steps>> /\ ~planning'
  BY DEF PlanReturned, ReturnPlan
<1>2. PlannerInv'
  BY <1>1, ReturnPlanPlanner DEF AnalysisInv
<1>3. Planned' = Planned /\ GoalContext' = GoalContext /\ (Plain' <=> Plain)
  BY <1>1 DEF Planned, GoalContext, Plain
<1>4. Plain' => IndicatorsFirst'
  BY <1>1, <1>3 DEF AnalysisInv, IndicatorsFirst
<1>5. AnalysisTypes'
  BY <1>1, <1>3 DEF AnalysisInv, AnalysisTypes, WorldOK
<1>6. executed = << >> /\ answered = << >> /\ raised = {} /\ context = GoalContext
  BY <1>1 DEF AnalysisInv, AnalysisTypes
<1>7. Recording'
  <2>1. Recorded(<< >>) = [k \in {} |-> Recorded(<< >>)[k]]
    BY DEF Recorded
  <2>2. Merge(GoalContext, Recorded(<< >>)) = GoalContext
    BY <2>1 DEF Merge, GoalContext
  <2>3. LastExists(<< >>)
    BY DEF LastExists, Writers
  <2>4. LastExists(executed)'
    BY <1>1, <1>6, <2>3
  <2>5. (Merge(GoalContext, Recorded(executed)))' = Merge(GoalContext, Recorded(executed))
    BY <1>1, <1>3
  <2>6. QED
    BY <1>1, <1>6, <2>2, <2>4, <2>5 DEF Recording
<1>8. ASSUME Plain PROVE PlanRun' /\ PipelineRun'
  <2>1. ContextOK(GoalContext, {})
    BY <1>8, GoalContextOK
  <2>2. /\ \A k \in Fed : GoalContext[k] = "absent"
        /\ \A k \in Brought \cup RiskInputs \cup {"STRATEGY", "IMAGE_PATH"} :
             GoalContext[k] = Given(k)
        /\ GoalContext["TICKER"] \in {Given("TICKER"), WithDefault("TICKER")}
    BY <2>1 DEF ContextOK
  <2>3. /\ \A k : Given(k)' = Given(k) /\ WithDefault(k)' = WithDefault(k)
        /\ DoneSteps(0)' = {}
    BY <1>1 DEF Given, WithDefault, DoneSteps
  <2>4. ContextOK(GoalContext, {})'
    BY <1>3, <2>2, <2>3 DEF ContextOK
  <2>5. ContextOK(context, DoneSteps(Len(executed)))'
    BY <1>1, <1>3, <1>6, <2>3, <2>4
  <2>6. Len(steps) \in Nat
    BY DEF AnalysisInv, PlannerInv, PlannerTypeOK
  <2>7. PlanRun'
    BY <1>1, <1>6, <2>5, <2>6 DEF PlanRun
  <2>8. PipelineRun'
    BY <1>1, <1>6, PipelineFacts DEF PipelineRun
  <2>9. QED
    BY <2>7, <2>8
<1>9. QED
  BY <1>1, <1>2, <1>3, <1>4, <1>5, <1>7, <1>8 DEF AnalysisInv

\* A plan in execution reads nothing that was put there for one step.
LEMMA NothingIsTranslated ==
  ASSUME Plain, PlannerInv, ~planning, NEW s \in Planned, NEW c \in Contexts, NEW done,
         ContextOK(c, done), s \notin done
  PROVE  Translate(s, c) = c
<1>1. s = "risk_management" => RiskInputs \subseteq goal
  BY PlanServes, TwelveServices DEF Answering, OnlyPipeline
<1>2. s = "risk_management" => c["ENTRY_PRICE"] = "goal"
  BY <1>1 DEF ContextOK, RiskInputs, Given
<1>3. QED
  BY <1>2 DEF Translate

\* A notification goes out before the chart is drawn, and tells what the goal says.
LEMMA NotificationTells ==
  ASSUME Plain, PlannerInv, ~planning, NEW n \in Nat, n + 1 \in DOMAIN steps,
         steps[n + 1] = "notification", NEW c, ContextOK(c, DoneSteps(n))
  PROVE  ToldRightly(Result("notification", c))
<1>1. DOMAIN steps = 1 .. Len(steps) /\ Len(steps) \in Nat
  BY DEF PlannerInv, PlannerTypeOK
<1>2. Required["notification"] = {"CHANNEL", "MESSAGE"} /\ Required["chart"] = {"HISTORY"}
  BY AnalysisAssumption, TwelveServices DEF RequiredInputs, Skill, NotificationService, ChartService
<1>3. {"CHANNEL", "MESSAGE"} \subseteq goal
  <2> SUFFICES ASSUME NEW k \in {"CHANNEL", "MESSAGE"}, k \notin goal PROVE FALSE
    OBVIOUS
  <2>1. PICK j \in 1 .. n : k \in Produced[steps[j]]
    BY <1>2 DEF PlannerInv, PlanIsOrdered
  <2>2. steps[j] \in ServiceNames /\ steps[j] # "notification"
    BY <1>1, AnalysisAssumption DEF PlannerInv, PlannerTypeOK, PlanIsOrdered
  <2>3. k \in Skill[steps[j]].gives
    BY <2>1, <2>2, AnalysisAssumption DEF ProducedOutputs
  <2>4. QED
    BY <2>2, <2>3, GivesOf DEF Brought
<1>4. "chart" \notin DoneSteps(n)
  <2> SUFFICES ASSUME NEW j \in 1 .. n, steps[j] = "chart" PROVE FALSE
    BY DEF DoneSteps
  <2>1. "HISTORY" \notin goal
    BY FeederMakes, FeederOf DEF Plain, Computed, FromStock
  <2>2. n + 1 < j
    BY <1>1, <1>2, <1>3, <2>1 DEF PlannerInv, GoalServicesComeFirst
  <2>3. QED
    BY <2>2
<1>5. ASSUME NEW k \in Inputs("notification")
      PROVE  Read("notification", k, c) \in {"absent", "goal"}
  <2>1. k \in Brought \cup {"IMAGE_PATH"}
    BY DEF Inputs, Skill, NotificationService, Brought
  <2>2. c[k] = Given(k)
    BY <1>4, <2>1 DEF ContextOK
  <2>3. QED
    BY <2>2 DEF Read, Has, Given
<1>6. QED
  BY <1>5 DEF ToldRightly, Result

LEMMA PlannerRests ==
  ASSUME AnalysisInv, UNCHANGED plannerVars
  PROVE  /\ PlannerInv' /\ Planned' = Planned /\ goal' = goal /\ steps' = steps
         /\ planning' = planning
         /\ Plain' <=> Plain
         /\ IndicatorsFirst' <=> IndicatorsFirst
         /\ \A n : DoneSteps(n)' = DoneSteps(n)
<1>1. PlannerInv'
  BY NextPlanner DEF AnalysisInv
<1>2. QED
  BY <1>1 DEF plannerVars, Planned, Plain, IndicatorsFirst, DoneSteps

LEMMA AppendedAnswer ==
  ASSUME NEW rs \in Seq(Answers), NEW r \in Answers
  PROVE  /\ Append(rs, r) \in Seq(Answers) /\ Len(Append(rs, r)) = Len(rs) + 1
         /\ Len(rs) \in Nat /\ DOMAIN rs = 1 .. Len(rs)
         /\ Append(rs, r)[Len(rs) + 1] = r
         /\ \A i \in 1 .. Len(rs) : Append(rs, r)[i] = rs[i]
  OBVIOUS

\* No exception comes out of a service that cannot raise, or has not what it needs.
LEMMA RaisesIsDeadly ==
  ASSUME WorldOK, NEW c, NEW done, ContextOK(c, done),
         NEW s \in ServiceNames, FedBy(s) \subseteq done, s \notin done
  PROVE  Raises(s, c) <=> Deadly(s)
<1>1. CASE s = "notification"
  <2>1. ~(world.down = s /\ world.raises)
    BY <1>1 DEF WorldOK, Worlds, MayRaise
  <2>2. QED
    BY <2>1 DEF Raises, Deadly
<1>2. CASE s # "notification"
  BY <1>2, SufficientIsSupplied DEF Raises, Deadly
<1>3. QED
  BY <1>1, <1>2

\* The step that is due in the plan: it is fed, and new.
LEMMA NextStepFed ==
  ASSUME Plain, PlannerInv, IndicatorsFirst, NEW n \in Nat, n + 1 \in DOMAIN steps
  PROVE  /\ steps[n + 1] \in ServiceNames /\ steps[n + 1] \in Planned
         /\ steps[n + 1] \notin DoneSteps(n)
         /\ FedBy(steps[n + 1]) \subseteq DoneSteps(n)
         /\ DoneSteps(n + 1) = DoneSteps(n) \cup {steps[n + 1]}
<1>1. steps[n + 1] \in ServiceNames /\ steps[n + 1] \in Planned
  BY AnalysisAssumption DEF PlannerInv, PlannerTypeOK, Planned
<1>2. \A j \in 1 .. n : steps[j] # steps[n + 1]
  BY DEF PlannerInv, PlanIsOrdered
<1>3. \A t \in FedBy(steps[n + 1]) : \E j \in 1 .. n : steps[j] = t
  BY PlanFeeds DEF StepsFed
<1>4. QED
  BY <1>1, <1>2, <1>3 DEF DoneSteps

LEMMA ExecuteStepKeeps == ASSUME AnalysisInv, ExecuteStep PROVE AnalysisInv'
<1> DEFINE n    == Len(executed)
           s    == steps[n + 1]
           seen == Translate(s, context)
           r    == Result(s, seen)
<1>1. /\ stage = "execute" /\ n < Len(steps)
      /\ UNCHANGED plannerVars /\ UNCHANGED <<world, observed, answered>>
      /\ \/ /\ Raises(s, seen) /\ raised' = raised \cup {"plan"} /\ stage' = "pipeline"
            /\ context' = GoalContext /\ UNCHANGED <<executed, known>>
         \/ /\ ~Raises(s, seen) /\ executed' = Append(executed, r)
            /\ context' = Merge(context, r.data) /\ UNCHANGED <<stage, known, raised>>
  BY DEF ExecuteStep
<1>2. /\ PlannerInv' /\ Planned' = Planned /\ goal' = goal /\ steps' = steps
      /\ planning' = planning /\ (Plain' <=> Plain) /\ (IndicatorsFirst' <=> IndicatorsFirst)
      /\ \A m : DoneSteps(m)' = DoneSteps(m)
  BY <1>1, PlannerRests
<1>3. /\ PlannerInv /\ ~planning /\ WorldOK /\ context \in Contexts /\ goal \subseteq Keys
      /\ executed \in Seq(Answers) /\ answered \in Seq(Answers)
  BY <1>1 DEF AnalysisInv, AnalysisTypes
<1>4. n \in Nat /\ n + 1 \in DOMAIN steps /\ s \in ServiceNames /\ Len(steps) \in Nat
      /\ DOMAIN steps = 1 .. Len(steps)
  BY <1>1, <1>3, AnalysisAssumption DEF PlannerInv, PlannerTypeOK
<1>5. seen \in Contexts /\ r \in Answers
  <2>1. \A k \in Keys : context[k] \in Values
    BY <1>3 DEF Contexts
  <2>2. "PRICE" \in Keys
    BY FedKeys, FeederOf DEF FromStock
  <2>3. seen \in Contexts
    BY <1>3, <2>1, <2>2 DEF Translate, Contexts
  <2>4. QED
    BY <1>4, <2>3, ResultType
<1>6. GoalContext' = GoalContext /\ (WorldOK' <=> WorldOK)
  BY <1>1, <1>2, WorldStands
<1>7. Plain => /\ seen = context /\ r = Result(s, context)
               /\ s \in Planned /\ s \notin DoneSteps(n) /\ FedBy(s) \subseteq DoneSteps(n)
               /\ DoneSteps(n + 1) = DoneSteps(n) \cup {s}
               /\ ContextOK(context, DoneSteps(n))
               /\ (Raises(s, seen) <=> Deadly(s))
               /\ PlanRun /\ PipelineRun
  <2> SUFFICES ASSUME Plain
               PROVE  /\ seen = context
                      /\ s \in Planned /\ s \notin DoneSteps(n) /\ FedBy(s) \subseteq DoneSteps(n)
                      /\ DoneSteps(n + 1) = DoneSteps(n) \cup {s}
                      /\ ContextOK(context, DoneSteps(n))
                      /\ (Raises(s, seen) <=> Deadly(s))
                      /\ PlanRun /\ PipelineRun
    OBVIOUS
  <2>1. PlanRun /\ PipelineRun /\ IndicatorsFirst
    BY <1>1 DEF AnalysisInv
  <2>2. /\ s \in Planned /\ s \notin DoneSteps(n) /\ FedBy(s) \subseteq DoneSteps(n)
        /\ DoneSteps(n + 1) = DoneSteps(n) \cup {s}
    BY <1>3, <1>4, <2>1, NextStepFed
  <2>3. ContextOK(context, DoneSteps(n))
    BY <1>1, <2>1 DEF PlanRun
  <2>4. seen = context
    BY <1>3, <2>2, <2>3, NothingIsTranslated
  <2>5. Raises(s, seen) <=> Deadly(s)
    BY <1>3, <1>4, <2>2, <2>3, <2>4, RaisesIsDeadly
  <2>6. QED
    BY <2>1, <2>2, <2>3, <2>4, <2>5
<1>8. CASE Raises(s, seen)
  <2>1. /\ raised' = raised \cup {"plan"} /\ stage' = "pipeline"
        /\ context' = GoalContext /\ UNCHANGED <<executed, known, answered, world>>
    BY <1>1, <1>8
  <2>2. AnalysisTypes'
    <3>1. /\ context' \in Contexts /\ executed' \in Seq(Answers) /\ answered' \in Seq(Answers)
          /\ goal' \subseteq Keys /\ WorldOK' /\ ~planning' /\ stage' = "pipeline"
      BY <1>2, <1>3, <1>6, <2>1, GoalContextType
    <3>2. QED
      BY <3>1 DEF AnalysisTypes
  <2>3. Recording'
    BY <2>1 DEF AnalysisInv, Recording, LastExists, Writers
  <2>4. ASSUME Plain PROVE PlanRun' /\ PipelineRun'
    <3>1. /\ \A t : Deadly(t)' <=> Deadly(t)
          /\ \A q : ToldRightly(q)' <=> ToldRightly(q)
          /\ \A c, done : ContextOK(c, done)' <=> ContextOK(c, done)
      BY <1>1, <1>2, WorldStands
    <3>2. answered = << >> /\ raised = {} /\ Deadly(s) /\ s \in Planned
      BY <1>1, <1>7, <1>8, <2>4 DEF PlanRun, PipelineRun
    <3>3. ContextOK(GoalContext, Asked(0))
      BY <2>4, GoalContextOK DEF Asked
    <3>4. (ContextOK(GoalContext, Asked(0)))'
      BY <1>6, <3>1, <3>3 DEF Asked
    <3>5. PlanRun'
      BY <1>2, <1>7, <2>1, <2>4, <3>1, <3>2 DEF PlanRun
    <3>6. PipelineRun'
      <4>1. /\ answered' = << >> /\ Len(answered') = 0 /\ stage' = "pipeline"
            /\ "pipeline" \notin raised' /\ context' = GoalContext
        BY <2>1, <3>2
      <4>2. ContextOK(context, Asked(Len(answered)))'
        BY <1>6, <3>4, <4>1
      <4>3. QED
        BY <4>1, <4>2, PipelineFacts DEF PipelineRun
    <3>7. QED
      BY <3>5, <3>6
  <2>5. QED
    BY <1>2, <2>1, <2>2, <2>3, <2>4 DEF AnalysisInv
<1>9. CASE ~Raises(s, seen)
  <2>1. /\ executed' = Append(executed, r) /\ context' = Merge(context, r.data)
        /\ UNCHANGED <<stage, known, raised, answered, world>>
    BY <1>1, <1>9
  <2>2. /\ executed' \in Seq(Answers) /\ Len(executed') = n + 1 /\ executed'[n + 1] = r
        /\ \A i \in 1 .. n : executed'[i] = executed[i]
    BY <1>3, <1>5, <2>1, AppendedAnswer
  <2>3. AnalysisTypes'
    <3>1. /\ context' \in Contexts /\ executed' \in Seq(Answers) /\ answered' \in Seq(Answers)
          /\ goal' \subseteq Keys /\ WorldOK' /\ ~planning' /\ stage' = "execute"
      BY <1>1, <1>2, <1>3, <1>5, <1>6, <2>1, <2>2, MergeTypes
    <3>2. QED
      BY <3>1 DEF AnalysisTypes
  <2>4. Recording'
    <3>1. LastExists(executed) /\ context = Merge(GoalContext, Recorded(executed))
      BY <1>1 DEF AnalysisInv, Recording
    <3>2. /\ LastExists(executed')
          /\ Merge(GoalContext, Recorded(executed')) = context'
      BY <1>3, <1>5, <2>1, <3>1, RecordedAppend
    <3>3. (Merge(GoalContext, Recorded(executed)))' = Merge(GoalContext, Recorded(executed'))
      BY <1>6
    <3>4. QED
      BY <1>1, <2>1, <3>2, <3>3 DEF Recording
  <2>5. ASSUME Plain PROVE PlanRun' /\ PipelineRun'
    <3>1. /\ \A t : Deadly(t)' <=> Deadly(t)
          /\ \A q : ToldRightly(q)' <=> ToldRightly(q)
          /\ \A c, done : ContextOK(c, done)' <=> ContextOK(c, done)
      BY <1>1, <1>2, WorldStands
    <3>2. r.service = s
      BY DEF Result
    <3>3. ToldRightly(r)
      <4>1. CASE s = "notification"
        BY <1>3, <1>4, <1>7, <2>5, <4>1, NotificationTells
      <4>2. CASE s # "notification"
        <5>1. Matches(Result(s, context))
          BY <1>3, <1>4, <1>7, <2>5, <4>2, ResultMatches
        <5>2. QED
          BY <1>7, <2>5, <3>2, <4>2, <5>1 DEF ToldRightly
      <4>3. QED
        BY <4>1, <4>2
    <3>4. ~Deadly(s)
      BY <1>7, <1>9, <2>5
    <3>5. ContextOK(Merge(context, r.data), DoneSteps(n + 1))
      <4>1. /\ s \notin DoneSteps(n) /\ FedBy(s) \subseteq DoneSteps(n)
            /\ ContextOK(context, DoneSteps(n)) /\ r = Result(s, context)
            /\ DoneSteps(n + 1) = DoneSteps(n) \cup {s}
        BY <1>7, <2>5
      <4>2. ContextOK(Merge(context, Result(s, context).data), DoneSteps(n) \cup {s})
        BY <1>3, <1>4, <4>1, ContextKept
      <4>3. QED
        BY <4>1, <4>2
    <3>6. (ContextOK(context, DoneSteps(Len(executed))))'
      BY <1>2, <2>1, <2>2, <3>1, <3>5
    <3>7. /\ raised = {} /\ \A i \in 1 .. n : executed[i].service = steps[i] /\ ToldRightly(executed[i])
          /\ \A i \in 1 .. n : ~Deadly(steps[i])
      BY <1>1, <1>7, <2>5 DEF PlanRun
    <3>8. PlanRun'
      <4>1. \A i \in 1 .. n + 1 : /\ executed'[i].service = steps[i] /\ ToldRightly(executed'[i])
                                  /\ ~Deadly(steps[i])
        BY <1>4, <2>2, <3>2, <3>3, <3>4, <3>7
      <4>2. QED
        BY <1>1, <1>2, <1>4, <2>1, <2>2, <3>1, <3>6, <3>7, <4>1 DEF PlanRun
    <3>9. PipelineRun'
      BY <1>1, <1>7, <2>1, <2>5, <3>7, PipelineFacts DEF PipelineRun
    <3>10. QED
      BY <3>8, <3>9
  <2>6. QED
    BY <1>1, <1>2, <2>1, <2>3, <2>4, <2>5 DEF AnalysisInv
<1>10. QED
  BY <1>8, <1>9

LEMMA PlanExecutedKeeps == ASSUME AnalysisInv, PlanExecuted PROVE AnalysisInv'
<1>1. /\ stage = "execute" /\ Len(executed) = Len(steps) /\ stage' = "record"
      /\ known' = context /\ context' = GoalContext
      /\ UNCHANGED plannerVars /\ UNCHANGED <<world, executed, observed, answered, raised>>
  BY DEF PlanExecuted
<1>2. /\ PlannerInv' /\ Planned' = Planned /\ goal' = goal /\ steps' = steps
      /\ planning' = planning /\ (Plain' <=> Plain) /\ (IndicatorsFirst' <=> IndicatorsFirst)
  BY <1>1, PlannerRests
<1>3. /\ GoalContext' = GoalContext /\ (WorldOK' <=> WorldOK)
      /\ \A t : Deadly(t)' <=> Deadly(t)
      /\ \A q : ToldRightly(q)' <=> ToldRightly(q)
  BY <1>1, <1>2, WorldStands
<1>4. AnalysisTypes'
  <2>1. /\ ~planning /\ WorldOK /\ goal \subseteq Keys
        /\ executed \in Seq(Answers) /\ answered \in Seq(Answers)
    BY <1>1 DEF AnalysisInv, AnalysisTypes
  <2>2. QED
    BY <1>1, <1>2, <1>3, <2>1, GoalContextType DEF AnalysisTypes
<1>5. Recording'
  <2>1. LastExists(executed) /\ context = Merge(GoalContext, Recorded(executed))
    BY <1>1 DEF AnalysisInv, Recording
  <2>2. (Merge(GoalContext, Recorded(executed)))' = Merge(GoalContext, Recorded(executed))
    BY <1>1, <1>3
  <2>3. LastExists(executed)'
    BY <1>1, <2>1
  <2>4. QED
    BY <1>1, <2>1, <2>2, <2>3 DEF Recording
<1>6. ASSUME Plain PROVE PlanRun' /\ PipelineRun'
  <2>1. PlanRun /\ PipelineRun
    BY <1>1, <1>6 DEF AnalysisInv
  <2>2. PlanRun'
    BY <1>1, <1>2, <1>3, <2>1 DEF PlanRun
  <2>3. answered = << >> /\ "pipeline" \notin raised
    BY <1>1, <2>1 DEF PipelineRun
  <2>4. PipelineRun'
    BY <1>1, <2>3, PipelineFacts DEF PipelineRun
  <2>5. QED
    BY <2>2, <2>4
<1>7. QED
  BY <1>1, <1>2, <1>4, <1>5, <1>6 DEF AnalysisInv

LEMMA RecordKeeps == ASSUME AnalysisInv, Record PROVE AnalysisInv'
<1>1. /\ stage = "record" /\ stage' = "pipeline" /\ observed' = Recorded(executed)
      /\ UNCHANGED plannerVars
      /\ UNCHANGED <<world, context, executed, known, answered, raised>>
  BY DEF Record
<1>2. /\ PlannerInv' /\ Planned' = Planned /\ goal' = goal /\ steps' = steps
      /\ planning' = planning /\ (Plain' <=> Plain) /\ (IndicatorsFirst' <=> IndicatorsFirst)
  BY <1>1, PlannerRests
<1>3. /\ GoalContext' = GoalContext /\ (WorldOK' <=> WorldOK)
      /\ \A t : Deadly(t)' <=> Deadly(t)
      /\ \A q : ToldRightly(q)' <=> ToldRightly(q)
      /\ \A c, done : ContextOK(c, done)' <=> ContextOK(c, done)
  BY <1>1, <1>2, WorldStands
<1>4. AnalysisTypes'
  <2>1. /\ ~planning /\ WorldOK /\ goal \subseteq Keys /\ context \in Contexts
        /\ executed \in Seq(Answers) /\ answered \in Seq(Answers)
    BY <1>1 DEF AnalysisInv, AnalysisTypes
  <2>2. QED
    BY <1>1, <1>2, <1>3, <2>1 DEF AnalysisTypes
<1>5. Recording'
  <2>1. LastExists(executed) /\ known = Merge(GoalContext, Recorded(executed))
    BY <1>1 DEF AnalysisInv, Recording
  <2>2. (Merge(GoalContext, Recorded(executed)))' = Merge(GoalContext, Recorded(executed))
    BY <1>1, <1>3
  <2>3. LastExists(executed)' /\ Recorded(executed)' = Recorded(executed)
    BY <1>1, <2>1
  <2>4. QED
    BY <1>1, <2>1, <2>2, <2>3 DEF Recording
<1>6. ASSUME Plain PROVE PlanRun' /\ PipelineRun'
  <2>1. PlanRun /\ PipelineRun
    BY <1>1, <1>6 DEF AnalysisInv
  <2>2. raised = {} /\ \A t \in Planned : ~Deadly(t)
    <3>1. DOMAIN steps = 1 .. Len(steps)
      BY DEF AnalysisInv, PlannerInv, PlannerTypeOK
    <3>2. QED
      BY <1>1, <2>1, <3>1 DEF PlanRun, Planned
  <2>3. PlanRun'
    BY <1>1, <1>2, <1>3, <2>1, <2>2 DEF PlanRun
  <2>4. answered = << >> /\ context = GoalContext
    BY <1>1, <2>1 DEF PipelineRun, AnalysisInv, AnalysisTypes
  <2>5. ContextOK(GoalContext, Asked(0))
    BY <1>6, GoalContextOK DEF Asked
  <2>6. ContextOK(context, Asked(Len(answered)))'
    BY <1>1, <1>3, <2>4, <2>5
  <2>7. PipelineRun'
    BY <1>1, <2>2, <2>4, <2>6, PipelineFacts DEF PipelineRun
  <2>8. QED
    BY <2>3, <2>7
<1>7. QED
  BY <1>1, <1>2, <1>4, <1>5, <1>6 DEF AnalysisInv

LEMMA PipelineStepKeeps == ASSUME AnalysisInv, PipelineStep PROVE AnalysisInv'
<1> DEFINE n    == Len(answered)
           s    == PipelineOrder[n + 1]
           seen == IF s = "risk_management" THEN PrepareRisk(context) ELSE context
           r    == Result(s, seen)
<1>1. /\ stage = "pipeline" /\ n < Len(PipelineOrder)
      /\ UNCHANGED plannerVars /\ UNCHANGED <<world, executed, observed, known>>
      /\ \/ /\ Raises(s, seen) /\ raised' = raised \cup {"pipeline"} /\ stage' = "end"
            /\ UNCHANGED <<context, answered>>
         \/ /\ ~Raises(s, seen) /\ answered' = Append(answered, r)
            /\ context' = Merge(seen, r.data) /\ UNCHANGED <<stage, raised>>
  BY DEF PipelineStep
<1>2. /\ PlannerInv' /\ Planned' = Planned /\ goal' = goal /\ steps' = steps
      /\ planning' = planning /\ (Plain' <=> Plain) /\ (IndicatorsFirst' <=> IndicatorsFirst)
  BY <1>1, PlannerRests
<1>3. /\ GoalContext' = GoalContext /\ (WorldOK' <=> WorldOK)
      /\ \A t : (Deadly(t)' <=> Deadly(t)) /\ (Defaulted(t)' <=> Defaulted(t))
      /\ \A q : (ToldRightly(q)' <=> ToldRightly(q)) /\ (Matches(q)' <=> Matches(q))
      /\ \A c, done : ContextOK(c, done)' <=> ContextOK(c, done)
      /\ OnlyPipeline' = OnlyPipeline
  BY <1>1, <1>2, WorldStands
<1>4. /\ ~planning /\ WorldOK /\ context \in Contexts /\ goal \subseteq Keys
      /\ executed \in Seq(Answers) /\ answered \in Seq(Answers)
  BY <1>1 DEF AnalysisInv, AnalysisTypes
<1>5. /\ n \in 0 .. 10 /\ s \in Answering /\ s \in ServiceNames /\ s # "notification"
      /\ s \notin Asked(n) /\ FedBy(s) \subseteq Asked(n)
      /\ Asked(n + 1) = Asked(n) \cup {s} /\ n \in Nat
  <2>1. n \in 0 .. 10
    <3>1. Len(answered) \in Nat
      BY <1>4
    <3>2. Len(PipelineOrder) = 11
      BY DEF PipelineOrder
    <3>3. Len(answered) < Len(PipelineOrder)
      BY <1>1
    <3>4. \A m \in Nat : m < 11 => m \in 0 .. 10
      OBVIOUS
    <3>5. QED
      BY <3>1, <3>2, <3>3, <3>4
  <2>2. s \in Answering /\ s \notin Asked(n) /\ FedBy(s) \subseteq Asked(n)
    BY <2>1, PipelineFacts
  <2>3. Asked(n + 1) = Asked(n) \cup {s}
    BY <2>1 DEF Asked
  <2>4. QED
    BY <2>1, <2>2, <2>3 DEF Answering
<1>6. seen \in Contexts /\ r \in Answers
  <2>1. "PRICE" \in Keys
    BY FedKeys, FeederOf DEF FromStock
  <2>2. \A k \in Keys : context[k] \in Values
    BY <1>4 DEF Contexts
  <2>3. PrepareRisk(context) \in Contexts
    BY <2>1, <2>2 DEF PrepareRisk, Contexts, Values
  <2>4. seen \in Contexts
    BY <1>4, <2>3
  <2>5. QED
    BY <1>5, <2>4, ResultType
<1>7. ASSUME Plain
      PROVE  /\ PlanRun /\ PipelineRun /\ ContextOK(context, Asked(n))
             /\ ~Defaulted(s) => seen = context
  <2>1. PlanRun /\ PipelineRun
    BY <1>1, <1>7 DEF AnalysisInv
  <2>2. ContextOK(context, Asked(n))
    BY <1>1, <2>1 DEF PipelineRun
  <2>3. ASSUME ~Defaulted(s), s = "risk_management" PROVE PrepareRisk(context) = context
    <3>1. \A k \in RiskInputs : context[k] = "goal"
      BY <1>5, <2>2, <2>3 DEF ContextOK, Given, Defaulted
    <3>2. QED
      BY <1>4, <3>1 DEF PrepareRisk, Contexts
  <2>4. QED
    BY <2>1, <2>2, <2>3
<1>8. ASSUME Plain, ~Defaulted(s) PROVE Raises(s, seen) <=> Deadly(s)
  BY <1>4, <1>5, <1>7, <1>8, RaisesIsDeadly
<1>9. ASSUME Plain PROVE PlanRun'
  <2>1. PlanRun /\ PipelineRun
    BY <1>7, <1>9
  <2>2. /\ UNCHANGED <<executed, steps>> /\ stage' \in {"pipeline", "end"}
        /\ ("plan" \in raised' <=> "plan" \in raised)
    BY <1>1, <1>2
  <2>3. QED
    BY <1>1, <1>2, <1>3, <2>1, <2>2 DEF PlanRun
<1>10. Recording'
  <2>1. (Merge(GoalContext, Recorded(executed)))' = Merge(GoalContext, Recorded(executed))
    BY <1>1, <1>3
  <2>2. LastExists(executed)' /\ Recorded(executed)' = Recorded(executed)
    BY <1>1 DEF AnalysisInv, Recording
  <2>3. stage' \in {"pipeline", "end"} /\ ("plan" \in raised' <=> "plan" \in raised)
    BY <1>1
  <2>4. QED
    BY <1>1, <2>1, <2>2, <2>3 DEF AnalysisInv, Recording
<1>11. CASE Raises(s, seen)
  <2>1. /\ raised' = raised \cup {"pipeline"} /\ stage' = "end"
        /\ UNCHANGED <<context, answered>>
    BY <1>1, <1>11
  <2>2. AnalysisTypes'
    BY <1>2, <1>3, <1>4, <2>1, <1>1 DEF AnalysisTypes
  <2>3. ASSUME Plain PROVE PipelineRun'
    <3>1. world.down = s
      BY <1>11 DEF Raises
    <3>2. Defaulted(s) => s \in OnlyPipeline
      BY DEF Defaulted, OnlyPipeline
    <3>3. world.down \in OnlyPipeline \/ (Deadly(world.down) /\ world.down \in Answering)
      BY <1>5, <1>8, <1>11, <2>3, <3>1, <3>2
    <3>4. PipelineRun
      BY <1>7, <2>3
    <3>5. /\ Len(answered) <= Len(PipelineOrder)
          /\ \A j \in 1 .. Len(answered) :
               /\ answered[j].service = PipelineOrder[j]
               /\ ~Defaulted(PipelineOrder[j]) => Matches(answered[j])
               /\ PipelineOrder[j] \notin OnlyPipeline => ~Deadly(PipelineOrder[j])
      BY <3>4 DEF PipelineRun
    <3>6. stage' = "end" /\ "pipeline" \in raised'
      BY <2>1
    <3>7. (world.down \in OnlyPipeline \/ (Deadly(world.down) /\ world.down \in Answering))'
      BY <1>1, <1>3, <3>3
    <3>8. QED
      BY <1>3, <2>1, <3>5, <3>6, <3>7 DEF PipelineRun
  <2>4. QED
    BY <1>2, <1>9, <1>10, <2>1, <2>2, <2>3 DEF AnalysisInv
<1>12. CASE ~Raises(s, seen)
  <2>1. /\ answered' = Append(answered, r) /\ context' = Merge(seen, r.data)
        /\ UNCHANGED <<stage, raised>>
    BY <1>1, <1>12
  <2>2. /\ answered' \in Seq(Answers) /\ Len(answered') = n + 1 /\ answered'[n + 1] = r
        /\ \A j \in 1 .. n : answered'[j] = answered[j]
    BY <1>4, <1>6, <2>1, AppendedAnswer
  <2>3. AnalysisTypes'
    <3>1. /\ context' \in Contexts /\ executed' \in Seq(Answers) /\ answered' \in Seq(Answers)
          /\ goal' \subseteq Keys /\ WorldOK' /\ ~planning' /\ stage' = "pipeline"
      BY <1>1, <1>2, <1>3, <1>4, <1>6, <2>1, <2>2, MergeTypes
    <3>2. QED
      BY <3>1 DEF AnalysisTypes
  <2>4. ASSUME Plain PROVE PipelineRun'
    <3>1. PipelineRun /\ ContextOK(context, Asked(n))
      BY <1>7, <2>4
    <3>2. r.service = s
      BY DEF Result
    <3>3. ASSUME ~Defaulted(s) PROVE Matches(r) /\ ~Deadly(s)
      <4>1. seen = context
        BY <1>7, <2>4, <3>3
      <4>2. Matches(Result(s, context))
        BY <1>4, <1>5, <3>1, ResultMatches
      <4>3. QED
        BY <1>8, <1>12, <2>4, <3>3, <4>1, <4>2
    <3>4. Defaulted(s) => s \in OnlyPipeline
      BY DEF Defaulted, OnlyPipeline
    <3>5. ContextOK(Merge(seen, r.data), Asked(n + 1))
      <4>1. CASE ~Defaulted(s)
        <5>1. seen = context /\ r = Result(s, context)
          BY <1>7, <2>4, <4>1
        <5>2. ContextOK(Merge(context, Result(s, context).data), Asked(n) \cup {s})
          BY <1>4, <1>5, <3>1, ContextKept
        <5>3. QED
          BY <1>5, <5>1, <5>2
      <4>2. CASE Defaulted(s)
        <5>1. s = "risk_management" /\ seen = PrepareRisk(context)
          BY <4>2 DEF Defaulted
        <5>2. DOMAIN r.data \subseteq RiskOutputs
          <6>1. Skill[s].gives = RiskOutputs
            BY <5>1 DEF Skill, RiskManagementService
          <6>2. r.data = [k \in RiskOutputs |-> Output(s, k, seen)] \/ r.data = << >>
            BY <6>1 DEF Result
          <6>3. DOMAIN << >> = {}
            OBVIOUS
          <6>4. QED
            BY <6>2, <6>3
        <5>3. \A k \in Keys \ (RiskInputs \cup RiskOutputs) : Merge(seen, r.data)[k] = context[k]
          BY <5>1, <5>2 DEF Merge, PrepareRisk
        <5>4. ContextOK(Merge(seen, r.data), Asked(n) \cup {"risk_management"})
          BY <3>1, <5>3, RiskKept
        <5>5. QED
          BY <1>5, <5>1, <5>4
      <4>3. QED
        BY <4>1, <4>2
    <3>6. ContextOK(context, Asked(Len(answered)))'
      BY <1>3, <2>1, <2>2, <3>5
    <3>7. \A j \in 1 .. n + 1 :
            /\ answered'[j].service = PipelineOrder[j]
            /\ ~Defaulted(PipelineOrder[j]) => Matches(answered'[j])
            /\ PipelineOrder[j] \notin OnlyPipeline => ~Deadly(PipelineOrder[j])
      BY <1>5, <2>2, <3>1, <3>2, <3>3, <3>4 DEF PipelineRun
    <3>8. n + 1 <= Len(PipelineOrder) /\ "pipeline" \notin raised'
      BY <1>1, <1>5, <2>1, <3>1, PipelineFacts DEF PipelineRun
    <3>9. QED
      BY <1>1, <1>3, <2>1, <2>2, <3>6, <3>7, <3>8 DEF PipelineRun
  <2>5. QED
    BY <1>1, <1>2, <1>9, <1>10, <2>1, <2>3, <2>4 DEF AnalysisInv
<1>13. QED
  BY <1>11, <1>12

LEMMA PipelineEndsKeeps == ASSUME AnalysisInv, PipelineEnds PROVE AnalysisInv'
<1>1. /\ stage = "pipeline" /\ Len(answered) = Len(PipelineOrder) /\ stage' = "end"
      /\ UNCHANGED plannerVars
      /\ UNCHANGED <<world, context, executed, observed, known, answered, raised>>
  BY DEF PipelineEnds
<1>2. /\ PlannerInv' /\ Planned' = Planned /\ goal' = goal /\ steps' = steps
      /\ planning' = planning /\ (Plain' <=> Plain) /\ (IndicatorsFirst' <=> IndicatorsFirst)
  BY <1>1, PlannerRests
<1>3. /\ GoalContext' = GoalContext /\ (WorldOK' <=> WorldOK)
      /\ \A t : (Deadly(t)' <=> Deadly(t)) /\ (Defaulted(t)' <=> Defaulted(t))
      /\ \A q : (ToldRightly(q)' <=> ToldRightly(q)) /\ (Matches(q)' <=> Matches(q))
      /\ OnlyPipeline' = OnlyPipeline
  BY <1>1, <1>2, WorldStands
<1>4. AnalysisTypes'
  <2>1. /\ ~planning /\ WorldOK /\ goal \subseteq Keys /\ context \in Contexts
        /\ executed \in Seq(Answers) /\ answered \in Seq(Answers)
    BY <1>1 DEF AnalysisInv, AnalysisTypes
  <2>2. QED
    BY <1>1, <1>2, <1>3, <2>1 DEF AnalysisTypes
<1>5. Recording'
  <2>1. (Merge(GoalContext, Recorded(executed)))' = Merge(GoalContext, Recorded(executed))
    BY <1>1, <1>3
  <2>2. LastExists(executed)' /\ Recorded(executed)' = Recorded(executed)
    BY <1>1 DEF AnalysisInv, Recording
  <2>3. QED
    BY <1>1, <2>1, <2>2 DEF AnalysisInv, Recording
<1>6. ASSUME Plain PROVE PlanRun' /\ PipelineRun'
  <2>1. PlanRun /\ PipelineRun
    BY <1>1, <1>6 DEF AnalysisInv
  <2>2. PlanRun'
    BY <1>1, <1>2, <1>3, <2>1 DEF PlanRun
  <2>3. PipelineRun'
    BY <1>1, <1>3, <2>1 DEF PipelineRun
  <2>4. QED
    BY <2>2, <2>3
<1>7. QED
  BY <1>1, <1>2, <1>4, <1>5, <1>6 DEF AnalysisInv

LEMMA NextAnalysis == AnalysisInv /\ [AnalysisNext]_analysisVars => AnalysisInv'
<1> SUFFICES ASSUME AnalysisInv, [AnalysisNext]_analysisVars PROVE AnalysisInv'
  OBVIOUS
<1>1. CASE UNCHANGED analysisVars
  <2>1. UNCHANGED plannerVars
        /\ UNCHANGED <<world, stage, context, executed, observed, known, answered, raised>>
    BY <1>1 DEF analysisVars
  <2>2. /\ PlannerInv' /\ Planned' = Planned /\ goal' = goal /\ steps' = steps
        /\ planning' = planning /\ (Plain' <=> Plain) /\ (IndicatorsFirst' <=> IndicatorsFirst)
        /\ \A m : DoneSteps(m)' = DoneSteps(m)
    BY <2>1, PlannerRests
  <2>3. /\ GoalContext' = GoalContext /\ (WorldOK' <=> WorldOK)
        /\ \A t : (Deadly(t)' <=> Deadly(t)) /\ (Defaulted(t)' <=> Defaulted(t))
        /\ \A q : (ToldRightly(q)' <=> ToldRightly(q)) /\ (Matches(q)' <=> Matches(q))
        /\ \A c, done : ContextOK(c, done)' <=> ContextOK(c, done)
        /\ OnlyPipeline' = OnlyPipeline
    BY <2>1, <2>2, WorldStands
  <2>4. AnalysisTypes'
    BY <2>1, <2>2, <2>3 DEF AnalysisInv, AnalysisTypes
  <2>5. Recording'
    <3>1. (Merge(GoalContext, Recorded(executed)))' = Merge(GoalContext, Recorded(executed))
      BY <2>1, <2>3
    <3>2. LastExists(executed)' <=> LastExists(executed)
      BY <2>1
    <3>3. Recorded(executed)' = Recorded(executed)
      BY <2>1
    <3>4. QED
      BY <2>1, <3>1, <3>2, <3>3 DEF AnalysisInv, Recording
  <2>6. ASSUME Plain, stage # "plan" PROVE PlanRun' /\ PipelineRun'
    <3>1. PlanRun /\ PipelineRun
      BY <2>6 DEF AnalysisInv
    <3>2. PlanRun'
      <4>1. DoneSteps(Len(executed))' = DoneSteps(Len(executed))
        BY <2>1, <2>2
      <4>2. ContextOK(context, DoneSteps(Len(executed)))' <=> ContextOK(context, DoneSteps(Len(executed)))
        BY <2>1, <2>3, <4>1
      <4>3. QED
        BY <2>1, <2>2, <2>3, <3>1, <4>2 DEF PlanRun
    <3>3. PipelineRun'
      <4>1. ContextOK(context, Asked(Len(answered)))' <=> ContextOK(context, Asked(Len(answered)))
        BY <2>1, <2>3
      <4>2. QED
        BY <2>1, <2>3, <3>1, <4>1 DEF PipelineRun
    <3>4. QED
      BY <3>2, <3>3
  <2>7. QED
    BY <2>1, <2>2, <2>4, <2>5, <2>6 DEF AnalysisInv
<1>2. QED
  BY <1>1, PlanKeeps, PlanReturnedKeeps, ExecuteStepKeeps, PlanExecutedKeeps, RecordKeeps,
     PipelineStepKeeps, PipelineEndsKeeps DEF AnalysisNext

\* A run that no exception has ended has asked all services.
LEMMA AllAnswered ==
  ASSUME AnalysisInv, Plain, stage = "end", "pipeline" \notin raised
  PROVE  /\ {answered[j].service : j \in DOMAIN answered} = Answering
         /\ \A t \in Answering \ OnlyPipeline : ~Deadly(t)
<1>1. PipelineRun /\ answered \in Seq(Answers)
  BY DEF AnalysisInv, AnalysisTypes
<1>2. Len(answered) = 11 /\ DOMAIN answered = 1 .. 11
  BY <1>1, PipelineFacts DEF PipelineRun
<1>3. \A j \in 1 .. 11 : /\ answered[j].service = PipelineOrder[j]
                         /\ PipelineOrder[j] \notin OnlyPipeline => ~Deadly(PipelineOrder[j])
  BY <1>1, <1>2 DEF PipelineRun
<1>4. Answering = {PipelineOrder[j] : j \in 1 .. 11}
  BY PipelineFacts DEF Asked
<1>5. {answered[j].service : j \in DOMAIN answered} = {PipelineOrder[j] : j \in 1 .. 11}
  BY <1>2, <1>3
<1>6. QED
  BY <1>3, <1>4, <1>5

LEMMA AnswersAreSame == AnalysisInv => SameAnswers
<1> SUFFICES ASSUME AnalysisInv, stage = "end", raised = {}, Plain
             PROVE  /\ \A i \in DOMAIN executed : \A j \in DOMAIN answered :
                         executed[i].service = answered[j].service =>
                           Same(executed[i], answered[j])
                    /\ {answered[j].service : j \in DOMAIN answered} \ Planned = OnlyPipeline
  BY DEF SameAnswers
<1>1. /\ PlanRun /\ PipelineRun /\ PlannerInv /\ ~planning
      /\ executed \in Seq(Answers) /\ answered \in Seq(Answers)
  BY DEF AnalysisInv, AnalysisTypes
<1>2. Planned \ {"notification"} = Answering \ OnlyPipeline
  BY <1>1, PlanServes
<1>3. ASSUME NEW i \in DOMAIN executed, NEW j \in DOMAIN answered,
             executed[i].service = answered[j].service
      PROVE  Same(executed[i], answered[j])
  <2> DEFINE s == executed[i].service
  <2>1. i \in 1 .. Len(executed) /\ j \in 1 .. Len(answered) /\ Len(executed) <= Len(steps)
        /\ DOMAIN steps = 1 .. Len(steps) /\ Len(steps) \in Nat /\ Len(executed) \in Nat
        /\ Len(answered) \in Nat
    BY <1>1 DEF PlanRun, PlannerInv, PlannerTypeOK
  <2>2. s = steps[i] /\ s \in Planned /\ ToldRightly(executed[i])
    BY <1>1, <2>1 DEF PlanRun, Planned
  <2>3. /\ s = PipelineOrder[j] /\ j \in 1 .. 11
        /\ ~Defaulted(PipelineOrder[j]) => Matches(answered[j])
    BY <1>1, <1>3, <2>1, PipelineFacts DEF PipelineRun
  <2>4. s \in Answering
    <3>1. s \in Asked(11)
      BY <2>3 DEF Asked
    <3>2. QED
      BY <3>1, PipelineFacts
  <2>5. s \notin OnlyPipeline /\ s # "notification"
    BY <1>2, <2>2, <2>4 DEF Answering
  <2>6. ~Defaulted(s)
    BY <2>5 DEF Defaulted, OnlyPipeline
  <2>7. Matches(executed[i]) /\ Matches(answered[j])
    BY <2>2, <2>3, <2>5, <2>6 DEF ToldRightly
  <2>8. QED
    BY <1>3, <2>7 DEF Matches, Same
<1>4. {answered[j].service : j \in DOMAIN answered} \ Planned = OnlyPipeline
  <2>1. {answered[j].service : j \in DOMAIN answered} = Answering
    BY AllAnswered
  <2>2. OnlyPipeline \subseteq Answering /\ "notification" \notin Answering
    BY TwelveServices DEF OnlyPipeline, Answering
  <2>3. QED
    BY <1>2, <2>1, <2>2
<1>5. QED
  BY <1>3, <1>4

LEMMA ExceptionsAreSame == AnalysisInv => SameExceptions
<1> SUFFICES ASSUME AnalysisInv, stage = "end", Plain
             PROVE  "plan" \in raised <=> "pipeline" \in raised /\ world.down \notin OnlyPipeline
  BY DEF SameExceptions
<1>1. PlanRun /\ PipelineRun /\ PlannerInv /\ ~planning /\ WorldOK
  BY DEF AnalysisInv, AnalysisTypes
<1>2. Planned \ {"notification"} = Answering \ OnlyPipeline
  BY <1>1, PlanServes
<1>3. "plan" \in raised <=> \E s \in Planned : Deadly(s)
  BY <1>1 DEF PlanRun
<1>4. ASSUME NEW s, Deadly(s) PROVE world.down = s /\ s # "notification"
  BY <1>1, <1>4 DEF Deadly, WorldOK, Worlds, MayRaise
<1>5. "plan" \in raised <=> Deadly(world.down) /\ world.down \in Answering \ OnlyPipeline
  BY <1>2, <1>3, <1>4 DEF Answering
<1>6. CASE "pipeline" \in raised
  <2>1. world.down \in OnlyPipeline \/ (Deadly(world.down) /\ world.down \in Answering)
    BY <1>1, <1>6 DEF PipelineRun
  <2>2. QED
    BY <1>5, <1>6, <2>1
<1>7. CASE "pipeline" \notin raised
  BY <1>5, <1>7, AllAnswered
<1>8. QED
  BY <1>6, <1>7

\* For every goal that brings nothing along which the services compute, and every
\* world: executed step by step, a plan says of every service what the fixed pipeline
\* says of it and leaves out exactly the services of OnlyPipeline, an exception ends
\* both or comes of one of these, and a notification of a plan tells what the goal says
\* (planner.py:712-899, analysis_pipeline.py:39-100). For every goal at all: what is
\* recorded of a plan is what its context has gained (observation.py:306-314).
THEOREM AnalysesAgree == AnalysisSpec => []PlanAgreesWithPipeline
<1>1. AnalysisInv => PlanAgreesWithPipeline
  <2> SUFFICES ASSUME AnalysisInv PROVE PlanAgreesWithPipeline
    OBVIOUS
  <2>1. ObservationIsContext
    BY DEF AnalysisInv, Recording, ObservationIsContext
  <2>2. NotifiesTheGoal
    <3> SUFFICES ASSUME NEW i \in DOMAIN executed, Plain, executed[i].service = "notification"
                 PROVE  \A k \in DOMAIN executed[i].used :
                          executed[i].used[k] \in {"absent", "goal"}
      BY DEF NotifiesTheGoal
    <3>1. stage # "plan" /\ i \in 1 .. Len(executed)
      BY DEF AnalysisInv, AnalysisTypes
    <3>2. QED
      BY <3>1 DEF AnalysisInv, PlanRun, ToldRightly
  <2>3. QED
    BY <2>1, <2>2, AnswersAreSame, ExceptionsAreSame DEF PlanAgreesWithPipeline
<1>2. QED
  BY <1>1, InitAnalysis, NextAnalysis, PTL DEF AnalysisSpec

=============================================================================
