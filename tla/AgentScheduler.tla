--------------------------- MODULE AgentScheduler ----------------------------
(***************************************************************************)
(* AutonomousScheduler, AutonomousHost, AutonomousAgent and the EventBus   *)
(* they publish on (Orchestration/autonomous_scheduler.py,                 *)
(* autonomous_host.py, autonomous_agent.py, event_bus.py).                 *)
(*                                                                         *)
(* All of it runs on one thread, and all of it can be re-entered: publish  *)
(* calls the subscribers, and a cycle of an agent calls the analysis       *)
(* pipeline, from the middle of a call that has not returned yet. Both may *)
(* call any public operation and may raise. The model is the call stack:   *)
(* the frame on top goes on, or calls, or ends.                            *)
(*                                                                         *)
(* Calls that are refused without changing anything are left out: the      *)
(* caller is free to raise in any case.                                    *)
(***************************************************************************)
EXTENDS Naturals, Sequences, SequencesExt, FiniteSets

CONSTANTS
  Agents,
  AgentLists,   \* the sequences of agents that a job can be made of
  Names,        \* the events that somebody subscribes to
  Iterations,   \* cycles of each agent of a job
  MaxJobs,      \* bound on jobs
  MaxHandlers,  \* bound on subscriptions
  MaxCalls,     \* bound on calls of public operations
  MaxDepth      \* bound on the call stack

EventNames ==
  {"job_scheduled", "job_started", "job_finished", "job_failed",
   "job_cancelled", "queue_cleared", "paused", "resumed"}

ASSUME SchedulerAssumption ==
  /\ AgentLists \subseteq Seq(Agents) \ {<< >>}
  /\ Names \subseteq EventNames
  /\ Iterations \in Nat \ {0}
  /\ {MaxJobs, MaxHandlers, MaxCalls, MaxDepth} \subseteq Nat

VARIABLES
  queue,        \* AutonomousScheduler._queue
  paused,       \* AutonomousScheduler._paused
  status,       \* AutonomousAgent._status
  saved,        \* the status in the last snapshot of an agent: at most one
  subscribers,  \* EventBus._subscribers, of the events in Names
  stack,        \* the frames of the calls in progress, innermost last
  raising,      \* an exception is on its way up
  jobs, handlers, calls,
  \* history, read by no action:
  ended,        \* jobs reported as finished or failed
  removed,      \* jobs cancelled or cleared
  interrupted,  \* jobs whose job_started raised
  restored,     \* agents a snapshot was put back into
  served,       \* handlers of once that have completed
  again,        \* events that called one of these again
  nested        \* events published while they were being published

scheduler == <<queue, paused>>
agents    == <<status, saved>>
bounds    == <<jobs, handlers, calls>>
history   == <<ended, removed, interrupted, restored, served, again, nested>>
vars      == <<scheduler, agents, subscribers, stack, raising, bounds, history>>

Statuses == {"IDLE", "RUNNING", "PAUSED", "STOPPED", "ERROR"}
JobIds   == 1 .. MaxJobs
Handlers == [id : 1 .. MaxHandlers, once : BOOLEAN]

Jobs == [id : JobIds, agents : AgentLists]

\* The frames. A tick is at the top of its loop, about to start its job, in it
\* with some agents and cycles to go, or re-raising what the job raised. A
\* publish has handlers yet to call. A handler and a cycle are foreign code.
Frames ==
  [kind : {"tick"}, at : {"loop", "start", "run", "failed"},
   job : {0} \cup JobIds,
   todo : {<< >>} \cup
     UNION {{SubSeq(l, i, Len(l)) : i \in DOMAIN l} : l \in AgentLists},
   left : 0 .. Iterations]
  \cup [kind : {"publish"}, name : EventNames, todo : Seq(Handlers)]
  \cup [kind : {"handler"}, name : Names, handler : Handlers]
  \cup [kind : {"cycle"}, agent : Agents]

TypeOK ==
  /\ queue \in Seq(Jobs) /\ paused \in BOOLEAN
  /\ status \in [Agents -> Statuses] /\ saved \in [Agents -> SUBSET Statuses]
  /\ subscribers \in [Names -> Seq(Handlers)]
  /\ stack \in Seq(Frames) /\ raising \in BOOLEAN
  /\ raising => stack # << >>

Init ==
  /\ queue = << >> /\ paused = FALSE
  /\ status = [a \in Agents |-> "IDLE"] /\ saved = [a \in Agents |-> {}]
  /\ subscribers = [n \in Names |-> << >>]
  /\ stack = << >> /\ raising = FALSE
  /\ jobs = 0 /\ handlers = 0 /\ calls = 0
  /\ ended = {} /\ removed = {} /\ interrupted = {} /\ restored = {}
  /\ served = {} /\ again = {} /\ nested = {}

(***************************************************************************)
(* The call stack                                                          *)
(***************************************************************************)
Top == Last(stack)

Running(kind) == stack # << >> /\ ~raising /\ Top.kind = kind

Raised(kind) == raising /\ Top.kind = kind

\* Where foreign code runs: outside, in a handler or in a cycle.
Foreign ==
  ~raising /\ IF stack = << >> THEN TRUE ELSE Top.kind \in {"handler", "cycle"}

\* The frame on top becomes f, and calls g.
Become(f) == stack' = Append(Front(stack), f)
Calls(g) == stack' = Append(stack, g)
BecomeAndCall(f, g) == stack' = Front(stack) \o <<f, g>>
Return == stack' = Front(stack) /\ UNCHANGED raising

\* The frame on top ends with an exception, which the caller of the outermost
\* one gets.
Throw == stack' = Front(stack) /\ raising' = (Len(stack) > 1)

\* publish takes the subscribers as they are now.
Publishing(name) ==
  [kind |-> "publish", name |-> name,
   todo |-> IF name \in Names THEN subscribers[name] ELSE << >>]

\* Publications of one event inside another are noted.
Noted(name) ==
  nested' = IF \E i \in DOMAIN stack :
                 stack[i].kind = "publish" /\ stack[i].name = name
            THEN nested \cup {name} ELSE nested

(***************************************************************************)
(* EventBus                                                                *)
(***************************************************************************)
CallHandler ==
  /\ Running("publish") /\ Top.todo # << >>
  /\ Len(stack) < MaxDepth
  /\ BecomeAndCall([Top EXCEPT !.todo = Tail(@)],
       [kind |-> "handler", name |-> Top.name, handler |-> Head(Top.todo)])
  /\ again' = IF Head(Top.todo).id \in served THEN again \cup {Top.name}
              ELSE again
  /\ UNCHANGED <<scheduler, agents, subscribers, raising, bounds, ended,
                 removed, interrupted, restored, served, nested>>

Published ==
  /\ Running("publish") /\ Top.todo = << >>
  /\ Return
  /\ UNCHANGED <<scheduler, agents, subscribers, bounds, history>>

\* A subscriber that raises keeps those behind it from being called.
PublishRaises ==
  /\ Raised("publish")
  /\ Throw
  /\ UNCHANGED <<scheduler, agents, subscribers, bounds, history>>

Without(name, h) == [subscribers EXCEPT ![name] = RemoveFirst(@, h)]

\* Mutant: once does not unsubscribe.
HandlerReturnsSubscribed ==
  /\ Running("handler")
  /\ Return /\ UNCHANGED subscribers
  /\ served' = IF Top.handler.once THEN served \cup {Top.handler.id} ELSE served
  /\ UNCHANGED <<scheduler, agents, bounds, ended, removed, interrupted,
                 restored, again, nested>>

\* The wrapper that once subscribes unsubscribes itself after the handler, and
\* fails if it is not subscribed any more.
HandlerReturns ==
  /\ Running("handler")
  /\ IF ~Top.handler.once
       THEN Return /\ UNCHANGED subscribers
     ELSE IF Contains(subscribers[Top.name], Top.handler)
       THEN Return /\ subscribers' = Without(Top.name, Top.handler)
       ELSE Throw /\ UNCHANGED subscribers
  /\ served' = IF Top.handler.once THEN served \cup {Top.handler.id} ELSE served
  /\ UNCHANGED <<scheduler, agents, bounds, ended, removed, interrupted,
                 restored, again, nested>>

\* A handler or a cycle may catch what it called raised.
Catch ==
  /\ Raised("handler") \/ Raised("cycle")
  /\ raising' = FALSE
  /\ UNCHANGED <<scheduler, agents, subscribers, stack, bounds, history>>

HandlerRaises ==
  /\ Running("handler") \/ Raised("handler")
  /\ Throw
  /\ UNCHANGED <<scheduler, agents, subscribers, bounds, history>>

(***************************************************************************)
(* AutonomousAgent.step, around the pipeline                               *)
(***************************************************************************)
\* The status is IDLE again whatever happened to it in the meantime.
CycleSucceeds ==
  /\ Running("cycle")
  /\ status' = [status EXCEPT ![Top.agent] = "IDLE"]
  /\ Return
  /\ UNCHANGED <<scheduler, saved, subscribers, bounds, history>>

\* A failed cycle is reported, not raised.
CycleFails ==
  /\ Running("cycle") \/ Raised("cycle")
  /\ status' = [status EXCEPT ![Top.agent] = "ERROR"]
  /\ stack' = Front(stack) /\ raising' = FALSE
  /\ UNCHANGED <<scheduler, saved, subscribers, bounds, history>>

(***************************************************************************)
(* AutonomousScheduler.tick over AutonomousHost.start_all                  *)
(***************************************************************************)
TickFrame(at, job, todo, left) ==
  [kind |-> "tick", at |-> at, job |-> job, todo |-> todo, left |-> left]

\* A pause is looked at once, before the first job.
TickEnds ==
  /\ Running("tick") /\ Top.at = "loop" /\ queue = << >>
  /\ Return
  /\ UNCHANGED <<scheduler, agents, subscribers, bounds, history>>

TakeJob ==
  LET job == Head(queue)
  IN  /\ Running("tick") /\ Top.at = "loop" /\ queue # << >>
      /\ queue' = Tail(queue)
      /\ BecomeAndCall(TickFrame("start", job.id, job.agents, Iterations),
                       Publishing("job_started"))
      /\ Noted("job_started")
      /\ UNCHANGED <<paused, agents, subscribers, raising, bounds, ended,
                     removed, interrupted, restored, served, again>>

\* start_all: agents in their order. A run that has begun fails on an agent
\* that is not idle, and leaves it in error.
StartJob ==
  /\ Running("tick") /\ Top.at = "start"
  /\ Become([Top EXCEPT !.at = "run"])
  /\ UNCHANGED <<scheduler, agents, subscribers, raising, bounds, history>>

\* The host refuses an agent that has ended before it calls run.
Refused(a) == Top.left = Iterations /\ status[a] \in {"STOPPED", "ERROR"}

FailJob ==
  /\ BecomeAndCall([Top EXCEPT !.at = "failed"], Publishing("job_failed"))
  /\ Noted("job_failed")
  /\ ended' = ended \cup {Top.job}
  /\ UNCHANGED <<raising, removed, interrupted, restored, served, again>>

\* Mutant: step refuses only agents that have ended.
MayStepUnlessEnded(a) == status[a] \notin {"STOPPED", "ERROR"}

\* step refuses agents that are running, paused, stopped or in error.
MayStep(a) == status[a] = "IDLE"

RunCycle ==
  LET a == Head(Top.todo)
      f == IF Top.left = 1 THEN [Top EXCEPT !.todo = Tail(@), !.left = Iterations]
           ELSE [Top EXCEPT !.left = @ - 1]
  IN  /\ Running("tick") /\ Top.at = "run" /\ Top.todo # << >>
      /\ \/ /\ MayStep(a)
            /\ Len(stack) < MaxDepth
            /\ status' = [status EXCEPT ![a] = "RUNNING"]
            /\ BecomeAndCall(f, [kind |-> "cycle", agent |-> a])
            /\ UNCHANGED <<raising, history>>
         \/ /\ ~MayStep(a) /\ ~Refused(a)
            /\ status' = [status EXCEPT ![a] = "ERROR"]
            /\ FailJob
         \/ /\ Refused(a)
            /\ UNCHANGED status
            /\ FailJob
      /\ UNCHANGED <<scheduler, saved, subscribers, bounds>>

FinishJob ==
  /\ Running("tick") /\ Top.at = "run" /\ Top.todo = << >>
  /\ BecomeAndCall(TickFrame("loop", 0, << >>, 0), Publishing("job_finished"))
  /\ Noted("job_finished")
  /\ ended' = ended \cup {Top.job}
  /\ UNCHANGED <<scheduler, agents, subscribers, raising, bounds, removed,
                 interrupted, restored, served, again>>

\* After job_failed the exception of the job goes on, and the tick with it: the
\* jobs behind it stay queued.
TickReraises ==
  /\ Running("tick") /\ Top.at = "failed"
  /\ Throw
  /\ UNCHANGED <<scheduler, agents, subscribers, bounds, history>>

\* A subscriber raised: nothing is published and nothing is put back.
TickRaises ==
  /\ Raised("tick")
  /\ Throw
  /\ interrupted' = IF Top.at = "start" THEN interrupted \cup {Top.job}
                    ELSE interrupted
  /\ UNCHANGED <<scheduler, agents, subscribers, bounds, ended, removed,
                 restored, served, again, nested>>

(***************************************************************************)
(* The public operations, called from outside, from handlers and cycles    *)
(***************************************************************************)
Call ==
  /\ Foreign
  /\ calls < MaxCalls /\ calls' = calls + 1
  /\ Len(stack) < MaxDepth

\* An operation of the scheduler ends with a publication.
Publish(name) ==
  /\ Calls(Publishing(name))
  /\ Noted(name)
  /\ UNCHANGED <<raising, ended, interrupted, restored, served, again>>

Schedule(list) ==
  /\ Call
  /\ jobs < MaxJobs /\ jobs' = jobs + 1
  /\ queue' = Append(queue, [id |-> jobs + 1, agents |-> list])
  /\ Publish("job_scheduled")
  /\ UNCHANGED <<paused, agents, subscribers, handlers, removed>>

\* Mutant: the last job goes instead of the one that was named.
CancelLast(i) ==
  /\ Call
  /\ i \in DOMAIN queue
  /\ queue' = Front(queue)
  /\ removed' = removed \cup {queue[i].id}
  /\ Publish("job_cancelled")
  /\ UNCHANGED <<paused, agents, subscribers, jobs, handlers>>

Cancel(i) ==
  /\ Call
  /\ i \in DOMAIN queue
  /\ queue' = RemoveAt(queue, i)
  /\ removed' = removed \cup {queue[i].id}
  /\ Publish("job_cancelled")
  /\ UNCHANGED <<paused, agents, subscribers, jobs, handlers>>

Clear ==
  /\ Call
  /\ queue' = << >>
  /\ removed' = removed \cup {queue[i].id : i \in DOMAIN queue}
  /\ Publish("queue_cleared")
  /\ UNCHANGED <<paused, agents, subscribers, jobs, handlers>>

Pause ==
  /\ Call
  /\ paused' = TRUE
  /\ Publish("paused")
  /\ UNCHANGED <<queue, agents, subscribers, jobs, handlers, removed>>

Resume ==
  /\ Call
  /\ paused' = FALSE
  /\ Publish("resumed")
  /\ UNCHANGED <<queue, agents, subscribers, jobs, handlers, removed>>

\* Only its beginning looks at the pause.
Tick ==
  /\ Call
  /\ ~paused
  /\ Calls(TickFrame("loop", 0, << >>, 0))
  /\ UNCHANGED <<scheduler, agents, subscribers, raising, jobs, handlers,
                 history>>

Subscribe(name, once) ==
  /\ Call
  /\ handlers < MaxHandlers /\ handlers' = handlers + 1
  /\ subscribers' = [subscribers EXCEPT ![name] =
       Append(@, [id |-> handlers + 1, once |-> once])]
  /\ UNCHANGED <<scheduler, agents, stack, raising, jobs, history>>

\* The wrapper of once is nobody's to unsubscribe.
Unsubscribe(name) ==
  /\ Call
  /\ \E h \in ToSet(subscribers[name]) :
       ~h.once /\ subscribers' = Without(name, h)
  /\ UNCHANGED <<scheduler, agents, stack, raising, jobs, handlers, history>>

SetStatus(a, from, to) ==
  /\ Call
  /\ status[a] \in from
  /\ status' = [status EXCEPT ![a] = to]
  /\ UNCHANGED <<scheduler, saved, subscribers, stack, raising, jobs,
                 handlers, history>>

PauseAgent(a)  == SetStatus(a, {"RUNNING"}, "PAUSED")
ResumeAgent(a) == SetStatus(a, {"PAUSED"}, "RUNNING")
StopAgent(a)   == SetStatus(a, {"IDLE", "RUNNING", "PAUSED"}, "STOPPED")

\* Mutant: an agent in error is stopped as well.
StopAllInError(list) ==
  /\ Call
  /\ status' = [a \in Agents |-> IF a \in ToSet(list) THEN "STOPPED"
                                  ELSE status[a]]
  /\ UNCHANGED <<scheduler, saved, subscribers, stack, raising, jobs,
                 handlers, history>>

\* stop_all fails at the first agent in error and leaves those behind it.
StopAll(list) ==
  LET ahead == {i \in DOMAIN list : \A j \in 1 .. i : status[list[j]] # "ERROR"}
  IN  /\ Call
      /\ status' = [a \in Agents |-> IF \E i \in ahead : list[i] = a
                                      THEN "STOPPED" ELSE status[a]]
      /\ raising' = (stack # << >> /\ ahead # DOMAIN list)
      /\ UNCHANGED <<scheduler, saved, subscribers, stack, jobs, handlers,
                     history>>

Snapshot(a) ==
  /\ Call
  /\ saved' = [saved EXCEPT ![a] = {status[a]}]
  /\ UNCHANGED <<scheduler, status, subscribers, stack, raising, jobs,
                 handlers, history>>

Restore(a) ==
  /\ Call
  /\ saved[a] # {}
  /\ status' = [status EXCEPT ![a] = CHOOSE s \in saved[a] : TRUE]
  /\ restored' = restored \cup {a}
  /\ UNCHANGED <<scheduler, saved, subscribers, stack, raising, jobs, handlers,
                 ended, removed, interrupted, served, again, nested>>

Operation ==
  \/ \E list \in AgentLists : Schedule(list) \/ StopAll(list)
  \/ \E i \in 1 .. MaxJobs : Cancel(i)
  \/ Clear \/ Pause \/ Resume \/ Tick
  \/ \E name \in Names :
       Unsubscribe(name) \/ \E once \in BOOLEAN : Subscribe(name, once)
  \/ \E a \in Agents : PauseAgent(a) \/ ResumeAgent(a) \/ StopAgent(a)
                       \/ Snapshot(a) \/ Restore(a)

Bus == CallHandler \/ Published \/ PublishRaises \/ HandlerReturns
       \/ HandlerRaises \/ Catch

Work == TickEnds \/ TakeJob \/ StartJob \/ RunCycle \/ FinishJob
        \/ TickReraises \/ TickRaises \/ CycleSucceeds \/ CycleFails

Next == Operation \/ Bus \/ Work

Spec == Init /\ [][Next]_vars

(***************************************************************************)
(* Properties                                                              *)
(***************************************************************************)
InCycle(a) ==
  \E i \in DOMAIN stack : stack[i] = [kind |-> "cycle", agent |-> a]

\* A job that was scheduled is queued, in progress, reported as ended or taken
\* off the queue by a call, unless a subscriber of job_started raised.
NoJobLost ==
  \A j \in 1 .. jobs :
    \/ j \in ended \cup removed \cup interrupted
    \/ \E i \in DOMAIN queue : queue[i].id = j
    \/ \E i \in DOMAIN stack : stack[i].kind = "tick" /\ stack[i].job = j

\* The cycles of one agent never overlap, however deep the calls go: only a
\* snapshot put back in the middle of a cycle lets another one in.
OneCycleAtATime ==
  \A a \in Agents \ restored : \A i, j \in DOMAIN stack :
    stack[i] = [kind |-> "cycle", agent |-> a] /\ stack[j] = stack[i] => i = j

\* An agent is running or paused only inside its own cycle: a pause never
\* outlives the cycle it came in.
PauseEndsWithCycle ==
  \A a \in Agents \ restored :
    status[a] \in {"RUNNING", "PAUSED"} => InCycle(a)

\* Agents are well typed and in one cycle at a time, which ends a pause.
AgentsSound == TypeOK /\ OneCycleAtATime /\ PauseEndsWithCycle

\* A handler of once that has completed is called again only by an event that
\* was published while it was being published.
OnceUnlessNested == again \subseteq nested

\* What was queued is run and what was to run once is run once, but for the ways
\* out that the scheduler and the bus leave.
ServedOnce == NoJobLost /\ OnceUnlessNested

\* An agent that was stopped or failed stays so, except that the end of a cycle
\* it is in overwrites the stop, and a snapshot anything.
EndedStaysEnded ==
  [][\A a \in Agents :
       status[a] \in {"STOPPED", "ERROR"} /\ status'[a] # status[a] =>
         InCycle(a) \/ a \in restored']_vars
=============================================================================
