---------------------------- MODULE ActorRuntime -----------------------------
(***************************************************************************)
(* The event-sourced actors (Core/runtime.py over Core/event_store.py) and *)
(* the calls that run tools on them (Executor.execute, Agents/executor.py).*)
(*                                                                         *)
(* Each actor has a stream of events, a cursor (the last event that was    *)
(* reduced) and a cached state. execute queues an INTENT and steps the     *)
(* actor until its stream is exhausted; a step over an INTENT asks for     *)
(* approval, writes the DECISION, runs the tool and writes the EFFECT.     *)
(*                                                                         *)
(* The tool calls of one agent share one actor and run in parallel: a call *)
(* is modelled by its reads and writes of the stream, the cursor and the   *)
(* cache, none of which holds a lock over another. The remaining           *)
(* operations are those of one controller, a step each.                    *)
(*                                                                         *)
(* Positions count from one (seq + 1); cursor 0 stands for no entry. What  *)
(* a reducer computes is opaque: a state is the set of the positions that  *)
(* were reduced into it.                                                   *)
(***************************************************************************)
EXTENDS Naturals, Sequences, SequencesExt

CONSTANTS
  MaxActors,    \* bound on actors, named in the order of their creation
  MaxCalls,     \* bound on calls of execute
  MaxEffort,    \* bound on calls, which count twice, and controls together
  MaxDepth,     \* the deepest cancellation
  MaxEvents     \* bound on the events of a stream that a step appends to

ASSUME RuntimeAssumption ==
  {MaxActors, MaxCalls, MaxEffort, MaxDepth, MaxEvents} \subseteq Nat

VARIABLES
  stream,       \* InMemoryEventStore._streams: << >> if there is none
  cursor,       \* Runtime._cursors
  cache,        \* Runtime._states
  children,     \* Runtime._children
  born,         \* actors created so far
  agentActor,   \* BaseAgent._actor_id, 0 if none yet
  snapshot,     \* what suspend returned last, per actor: at most one
  call,         \* what each call of execute is doing; each has its thread
  calls, controls,
  \* history, read by no action:
  ran,          \* how often the tool of each call was run
  answer,       \* whose result each call returned, 0 if none
  disturbed,    \* calls that overlapped another on their actor, or whose actor
                \* was or had been forgotten in the middle of an append
  rewound,      \* actors that a snapshot was restored to
  torn,         \* actors that were forgotten in the middle of an append
  folded,       \* the positions that were ever reduced into each actor's cache
  clashed       \* actors whose cache was being reduced twice at a time

store   == <<stream, cursor, cache, children, born>>
bounds  == <<calls, controls>>
traces  == <<folded, clashed>>
history == <<ran, answer, disturbed, rewound, torn, traces>>
vars    == <<store, agentActor, snapshot, call, bounds, history>>

Actors   == 1 .. MaxActors
CallIds  == 1 .. MaxCalls
Outcomes == {"APPROVED", "REFUSED"}   \* refused: DENIED or PENDING

\* "NOTE" is any event that a step only reduces: an observation, a delegation
\* or a request for cancellation.
Types == {"NOTE", "INTENT", "DECISION", "EFFECT", "TERMINATED"}

\* The call that an event belongs to, the position of the INTENT it is about
\* (DECISION and EFFECT) and the outcome (DECISION).
Events ==
  [type : Types, call : {0} \cup CallIds, intent : Nat,
   outcome : Outcomes \cup {""}]

Event(type) == [type |-> type, call |-> 0, intent |-> 0, outcome |-> ""]

Labels ==
  {"idle", "ingest", "look", "fetch", "reduce", "store", "advance", "check",
   "decide", "get", "run", "effect", "reply", "cleanup"}

\* What a call holds: the cursor it read, then the position of its trigger; the
\* position it is reducing, the state it computed and where it goes on then.
Idle == [pc |-> "idle", actor |-> 0, own |-> FALSE, at |-> 0, pos |-> 0,
         state |-> {}, next |-> "look", trigger |-> Event("NOTE"),
         outcome |-> ""]

CallState ==
  [pc : Labels, actor : {0} \cup Actors, own : BOOLEAN, at : Nat, pos : Nat,
   state : SUBSET Nat, next : {"look", "check", "run", "reply"},
   trigger : Events, outcome : Outcomes \cup {""}]

StoreOK ==
  /\ stream \in [Actors -> Seq(Events)] /\ cursor \in [Actors -> Nat]
  /\ cache \in [Actors -> SUBSET Nat] /\ children \in [Actors -> Seq(Actors)]
  /\ born \in {0} \cup Actors /\ agentActor \in 0 .. born
  /\ snapshot \in [Actors -> SUBSET SUBSET Nat]

CallsOK ==
  /\ call \in [CallIds -> CallState]
  /\ \A c \in CallIds : call[c].pc # "idle" => call[c].actor \in 1 .. born

HistoryOK ==
  /\ calls \in 0 .. MaxCalls /\ controls \in Nat
  /\ ran \in [CallIds -> Nat] /\ answer \in [CallIds -> {0} \cup CallIds]
  /\ disturbed \subseteq CallIds
  /\ rewound \subseteq Actors /\ torn \subseteq Actors
  /\ folded \in [Actors -> SUBSET Nat] /\ clashed \subseteq Actors

TypeOK == StoreOK /\ CallsOK /\ HistoryOK

Init ==
  /\ stream = [a \in Actors |-> << >>] /\ cursor = [a \in Actors |-> 0]
  /\ cache = [a \in Actors |-> {}] /\ children = [a \in Actors |-> << >>]
  /\ born = 0 /\ agentActor = 0 /\ snapshot = [a \in Actors |-> {}]
  /\ call = [c \in CallIds |-> Idle]
  /\ calls = 0 /\ controls = 0
  /\ ran = [c \in CallIds |-> 0] /\ answer = [c \in CallIds |-> 0]
  /\ disturbed = {} /\ rewound = {} /\ torn = {}
  /\ folded = [a \in Actors |-> {}] /\ clashed = {}

(***************************************************************************)
(* Streams                                                                 *)
(***************************************************************************)
Has(a, type) == \E i \in DOMAIN stream[a] : stream[a][i].type = type

\* ingest, terminate, suspend, resume, delegate and cancel refuse the others.
Open(a) == stream[a] # << >> /\ ~Has(a, "TERMINATED")

Append1(a, event) == stream' = [stream EXCEPT ![a] = Append(@, event)]

\* Genesis: the first event of a new actor is reduced at once.
Create(a) ==
  /\ a = born + 1 /\ a \in Actors
  /\ born' = a
  /\ cache' = [cache EXCEPT ![a] = {1}]
  /\ cursor' = [cursor EXCEPT ![a] = 1]
  /\ folded' = [folded EXCEPT ![a] = {1}] /\ UNCHANGED clashed

(***************************************************************************)
(* Executor.execute                                                        *)
(***************************************************************************)
At(c, label) == call[c].pc = label

\* Goes on at a label; what a step has read is dropped at its end.
Goto(c, label) ==
  call' = [call EXCEPT ![c] =
    IF label \in {"look", "reply", "cleanup"}
      THEN [Idle EXCEPT !.pc = label, !.actor = call[c].actor,
                        !.own = call[c].own]
      ELSE [@ EXCEPT !.pc = label]]

\* An exception leaves the call; an actor of its own is still cleaned up.
Raise(c) ==
  IF call[c].own THEN Goto(c, "cleanup")
  ELSE call' = [call EXCEPT ![c] = Idle]

Others(c, a) == {u \in CallIds \ {c} : call[u].actor = a}

\* The calls that are about to append to the stream of a.
Appenders(a) ==
  {c \in CallIds : call[c].actor = a /\ call[c].pc \in {"ingest", "decide", "effect"}}

\* A call on actor a that ingest does not refuse. Calls that overlap are noted.
Enter(c, a, own) ==
  /\ 2 * calls + controls + 2 <= MaxEffort
  /\ c = calls + 1 /\ calls' = c
  /\ call' = [call EXCEPT ![c] =
       [Idle EXCEPT !.pc = "ingest", !.actor = a, !.own = own]]
  /\ disturbed' = IF Others(c, a) = {} /\ a \notin torn THEN disturbed
                  ELSE disturbed \cup {c} \cup Others(c, a)
  /\ UNCHANGED <<children, snapshot, controls, ran, answer, rewound, torn>>

\* The first tool call of an agent creates its actor, under the agent's lock.
CallShared(c) ==
  /\ \/ /\ agentActor # 0 /\ Open(agentActor)
        /\ Enter(c, agentActor, FALSE)
        /\ UNCHANGED <<stream, cursor, cache, born, agentActor, traces>>
     \/ /\ agentActor = 0
        /\ Create(born + 1)
        /\ Append1(born + 1, Event("NOTE"))
        /\ agentActor' = born + 1
        /\ Enter(c, born + 1, FALSE)

\* A call without an actor id makes an actor of its own.
CallOneShot(c) ==
  /\ Create(born + 1)
  /\ Append1(born + 1, Event("NOTE"))
  /\ Enter(c, born + 1, TRUE)
  /\ UNCHANGED agentActor

\* The append of ingest: whether the stream is open was looked up before.
Ingest(c) ==
  LET me == call[c]
  IN  /\ At(c, "ingest")
      /\ Append1(me.actor, [Event("INTENT") EXCEPT !.call = c])
      /\ Goto(c, "look")
      /\ UNCHANGED <<cursor, cache, children, born, agentActor, snapshot,
                     bounds, history>>

(***************************************************************************)
(* step, in the accesses it consists of                                    *)
(***************************************************************************)
Look(c) ==
  LET me == call[c]
  IN  /\ At(c, "look")
      /\ IF stream[me.actor] = << >> \/ cursor[me.actor] = 0 THEN Raise(c)
         ELSE call' = [call EXCEPT ![c].pc = "fetch",
                                   ![c].at = cursor[me.actor]]
      /\ UNCHANGED <<store, agentActor, snapshot, bounds, history>>

\* The actor may have been archived in the meantime. A step after the reduction
\* of ACTOR_TERMINATED is refused; without a next event the drain is over.
Fetch(c) ==
  LET me == call[c]
      s  == stream[me.actor]
      at == me.at + 1
  IN  /\ At(c, "fetch")
      /\ IF me.at \notin DOMAIN s \/ s[me.at].type = "TERMINATED" THEN Raise(c)
         ELSE IF at \notin DOMAIN s THEN Goto(c, "reply")
         ELSE call' = [call EXCEPT ![c].pc = "reduce", ![c].at = at,
                ![c].pos = at, ![c].trigger = s[at],
                ![c].next = CASE s[at].type = "TERMINATED" -> "reply"
                              [] s[at].type = "INTENT"     -> "check"
                              [] OTHER                     -> "look"]
      /\ UNCHANGED <<store, agentActor, snapshot, bounds, history>>

(***************************************************************************)
(* _reduce_and_advance: the cached state is read, the new state is put in  *)
(* its place, then the cursor is moved                                     *)
(***************************************************************************)
\* The calls that have read the cache of a and have yet to write it.
Reducing(a) == {c \in CallIds : call[c].actor = a /\ At(c, "store")}

\* Mutant: the event is reduced into an empty state.
ReadStateAnew(c) ==
  /\ At(c, "reduce")
  /\ call' = [call EXCEPT ![c].pc = "store", ![c].state = {call[c].pos}]
  /\ UNCHANGED <<store, agentActor, snapshot, bounds, history>>

\* An archived actor has no state (and any other has one: its genesis).
ReadState(c) ==
  LET me == call[c]
  IN  /\ At(c, "reduce")
      /\ IF cache[me.actor] = {} THEN Raise(c) /\ UNCHANGED clashed
         ELSE /\ call' = [call EXCEPT ![c].pc = "store",
                                      ![c].state = cache[me.actor] \cup {me.pos}]
              /\ clashed' = IF Reducing(me.actor) = {} THEN clashed
                            ELSE clashed \cup {me.actor}
      /\ UNCHANGED <<store, agentActor, snapshot, bounds, ran, answer,
                     disturbed, rewound, torn, folded>>

\* The state of an actor that was archived in between is back.
WriteState(c) ==
  LET me == call[c]
  IN  /\ At(c, "store")
      /\ cache' = [cache EXCEPT ![me.actor] = me.state]
      /\ folded' = [folded EXCEPT ![me.actor] = @ \cup {me.pos}]
      /\ call' = [call EXCEPT ![c].pc = "advance", ![c].state = {}]
      /\ UNCHANGED <<stream, cursor, children, born, agentActor, snapshot,
                     bounds, ran, answer, disturbed, rewound, torn, clashed>>

\* Mutant: the cursor stays.
AdvanceInPlace(c) ==
  /\ At(c, "advance")
  /\ Goto(c, call[c].next)
  /\ UNCHANGED <<store, agentActor, snapshot, bounds, history>>

\* The cursor moves to the event, wherever in the stream that is.
Advance(c) ==
  LET me == call[c]
  IN  /\ At(c, "advance")
      /\ cursor' = [cursor EXCEPT ![me.actor] = me.pos]
      /\ Goto(c, me.next)
      /\ UNCHANGED <<stream, cache, children, born, agentActor, snapshot,
                     bounds, history>>

(***************************************************************************)
(* The consequences of an INTENT                                           *)
(***************************************************************************)
\* Mutant: append does not look up what it refers to.
ReferableUnchecked(c) == TRUE

\* append looks up the events referred to before it takes the lock.
Referable(c) == call[c].at \in DOMAIN stream[call[c].actor]

\* The approval port may say anything of an INTENT.
Check(c) ==
  /\ At(c, "check")
  /\ \E outcome \in Outcomes :
       IF Referable(c)
         THEN call' = [call EXCEPT ![c].pc = "decide", ![c].outcome = outcome]
         ELSE Raise(c)
  /\ UNCHANGED <<store, agentActor, snapshot, bounds, history>>

\* The append itself, which makes a stream if there is none.
Write(c, event, next) ==
  LET me == call[c]
  IN  /\ Len(stream[me.actor]) < MaxEvents
      /\ Append1(me.actor, [event EXCEPT !.call = me.trigger.call,
                                         !.intent = me.at])
      /\ call' = [call EXCEPT ![c].pc = "get", ![c].next = next,
                              ![c].pos = Len(stream[me.actor]) + 1]
      /\ UNCHANGED <<cursor, cache, children, born, agentActor, snapshot,
                     bounds, history>>

\* Mutant: the outcome is not looked at.
WriteDecisionUnasked(c) ==
  /\ At(c, "decide")
  /\ Write(c, [Event("DECISION") EXCEPT !.outcome = call[c].outcome], "run")

\* The tool runs once the DECISION is reduced.
WriteDecision(c) ==
  LET outcome == call[c].outcome
  IN  /\ At(c, "decide")
      /\ Write(c, [Event("DECISION") EXCEPT !.outcome = outcome],
               IF outcome = "APPROVED" THEN "run" ELSE "look")

\* What was appended is fetched, to be reduced like a trigger.
Get(c) ==
  /\ At(c, "get")
  /\ IF call[c].pos \in DOMAIN stream[call[c].actor] THEN Goto(c, "reduce")
     ELSE Raise(c)
  /\ UNCHANGED <<store, agentActor, snapshot, bounds, history>>

\* The sandbox turns whatever the tool does into an answer.
RunTool(c) ==
  /\ At(c, "run")
  /\ ran' = [ran EXCEPT ![call[c].trigger.call] = @ + 1]
  /\ IF Referable(c) THEN Goto(c, "effect") ELSE Raise(c)
  /\ UNCHANGED <<store, agentActor, snapshot, bounds, answer, disturbed,
                 rewound, torn, traces>>

WriteEffect(c) == At(c, "effect") /\ Write(c, Event("EFFECT"), "look")

\* The last event of the stream is the answer, if it is one.
Reply(c) ==
  LET me   == call[c]
      s    == stream[me.actor]
      said == s # << >> /\ \/ Last(s).type = "EFFECT"
                           \/ /\ Last(s).type = "DECISION"
                              /\ Last(s).outcome # "APPROVED"
  IN  /\ At(c, "reply")
      /\ answer' = IF said THEN [answer EXCEPT ![c] = Last(s).call]
                   ELSE answer
      /\ Raise(c)
      /\ UNCHANGED <<store, agentActor, snapshot, bounds, ran, disturbed,
                     rewound, torn, traces>>

(***************************************************************************)
(* Archiving: the bookkeeping and the stream go                            *)
(***************************************************************************)
Forget(a) ==
  /\ stream' = [stream EXCEPT ![a] = << >>]
  /\ cursor' = [cursor EXCEPT ![a] = 0]
  /\ cache' = [cache EXCEPT ![a] = {}]
  /\ children' = [children EXCEPT ![a] = << >>]
  /\ torn' = IF Appenders(a) = {} THEN torn ELSE torn \cup {a}
  /\ disturbed' = disturbed \cup Appenders(a)
  /\ folded' = [folded EXCEPT ![a] = {}]
  /\ UNCHANGED <<born, clashed>>

\* The end of a call with an actor of its own: terminate, then archive.
Cleanup(c) ==
  /\ At(c, "cleanup")
  /\ Forget(call[c].actor)
  /\ call' = [call EXCEPT ![c] = Idle]
  /\ UNCHANGED <<agentActor, snapshot, bounds, ran, answer, rewound>>

Step(c) ==
  \/ Ingest(c) \/ Look(c) \/ Fetch(c)
  \/ ReadState(c) \/ WriteState(c) \/ Advance(c)
  \/ Check(c) \/ WriteDecision(c) \/ Get(c) \/ RunTool(c) \/ WriteEffect(c)
  \/ Reply(c) \/ Cleanup(c)

(***************************************************************************)
(* The controller                                                          *)
(***************************************************************************)
\* Nobody else knows the actor of a one-shot call.
Control(a) ==
  /\ 2 * calls + controls < MaxEffort /\ controls' = controls + 1
  /\ a \in 1 .. born /\ stream[a] # << >>
  /\ \A c \in CallIds : ~(call[c].own /\ call[c].actor = a)
  /\ UNCHANGED <<agentActor, call, calls, ran, answer>>

Observe(a) ==
  /\ Control(a) /\ Open(a)
  /\ Append1(a, Event("NOTE"))
  /\ UNCHANGED <<cursor, cache, children, born, snapshot, disturbed, rewound,
                 torn, traces>>

Terminate(a) ==
  /\ Control(a) /\ Open(a)
  /\ Append1(a, Event("TERMINATED"))
  /\ UNCHANGED <<cursor, cache, children, born, snapshot, disturbed, rewound,
                 torn, traces>>

\* Only an actor that has ended.
Archive(a) ==
  /\ Control(a) /\ ~Open(a)
  /\ Forget(a)
  /\ UNCHANGED <<snapshot, rewound>>

\* The child's genesis is reduced at once, the DELEGATION of the parent with a
\* later step.
Delegate(a) ==
  LET child == born + 1
  IN  /\ Control(a) /\ Open(a)
      /\ Create(child)
      /\ stream' = [stream EXCEPT ![a] = Append(@, Event("NOTE")),
                                  ![child] = <<Event("NOTE")>>]
      /\ children' = [children EXCEPT ![a] = Append(@, child)]
      /\ UNCHANGED <<snapshot, disturbed, rewound, torn>>

\* The actors that _cancel_recursive visits, in its order.
Visits[depth \in Nat] ==
  [a \in Actors |->
     <<a>> \o IF depth = 0 THEN << >>
              ELSE FlattenSeq([i \in DOMAIN children[a] |->
                                 Visits[depth - 1][children[a][i]]])]

\* An actor without a stream has no last event: the walk fails there.
Cancel(a, depth) ==
  LET visits == Visits[depth][a]
      gone   == {i \in DOMAIN visits : stream[visits[i]] = << >>}
      walked == {i \in DOMAIN visits : \A j \in gone : i < j}
      asked  == {visits[i] : i \in walked}
  IN  /\ Control(a) /\ Open(a)
      /\ stream' = [b \in Actors |->
           IF b \in asked /\ Open(b)
             THEN Append(stream[b], Event("NOTE")) ELSE stream[b]]
      /\ UNCHANGED <<cursor, cache, children, born, snapshot, disturbed, rewound,
                 torn, traces>>

Suspend(a) ==
  /\ Control(a) /\ Open(a) /\ cache[a] # {}
  /\ snapshot' = [snapshot EXCEPT ![a] = {cache[a]}]
  /\ UNCHANGED <<store, disturbed, rewound, torn, traces>>

\* Mutant: a snapshot of another reducer moves the cursor and nothing else.
ResumeWithoutReplay(a, sameReducer) ==
  /\ Control(a) /\ Open(a)
  /\ snapshot[a] # {}
  /\ cursor' = [cursor EXCEPT ![a] = Len(stream[a])]
  /\ UNCHANGED <<stream, cache, children, born, snapshot, disturbed, rewound,
                 torn, traces>>

\* A snapshot of the same reducer is put back as it is. One of another reducer
\* is dropped for a replay of the whole stream.
Resume(a, sameReducer) ==
  /\ Control(a) /\ Open(a)
  /\ snapshot[a] # {}
  /\ \/ /\ sameReducer
        /\ cache' = [cache EXCEPT ![a] = CHOOSE s \in snapshot[a] : TRUE]
        /\ rewound' = rewound \cup {a}
        /\ UNCHANGED <<cursor, traces>>
     \/ /\ ~sameReducer
        /\ cache' = [cache EXCEPT ![a] = DOMAIN stream[a]]
        /\ cursor' = [cursor EXCEPT ![a] = Len(stream[a])]
        /\ folded' = [folded EXCEPT ![a] = @ \cup DOMAIN stream[a]]
        /\ clashed' = IF Reducing(a) = {} THEN clashed ELSE clashed \cup {a}
        /\ UNCHANGED rewound
  /\ UNCHANGED <<stream, children, born, snapshot, disturbed, torn>>

Controller ==
  \E a \in Actors :
    \/ Observe(a) \/ Terminate(a) \/ Archive(a) \/ Delegate(a) \/ Suspend(a)
    \/ \E depth \in 0 .. MaxDepth : Cancel(a, depth)
    \/ \E same \in BOOLEAN : Resume(a, same)

Next ==
  \/ \E c \in CallIds : CallShared(c) \/ CallOneShot(c) \/ Step(c)
  \/ Controller

Spec == Init /\ [][Next]_vars

(***************************************************************************)
(* Properties                                                              *)
(***************************************************************************)
\* A tool runs only for an INTENT that was approved: every EFFECT follows an
\* APPROVED DECISION about the same INTENT, unless the stream was forgotten in
\* the middle of an append.
EffectsApproved ==
  \A a \in Actors \ torn : \A i \in DOMAIN stream[a] :
    stream[a][i].type = "EFFECT" =>
      \E j \in 1 .. i - 1 :
        /\ stream[a][j].type = "DECISION" /\ stream[a][j].outcome = "APPROVED"
        /\ stream[a][j].intent = stream[a][i].intent

\* A call that no other call of its actor overlaps runs its tool at most once,
\* and what it returns is the answer to its own INTENT, as long as nobody
\* forgets the actor while a call appends to its stream. (After that, calls may
\* leave an INTENT behind, which the next one answers in place of its own.)
UndisturbedCalls ==
  \A c \in CallIds \ disturbed : ran[c] <= 1 /\ answer[c] \in {0, c}

\* Whatever calls overlap, the cursor passes an event only if it was reduced or
\* was queued between an INTENT and what the step over it wrote; and what was
\* reduced is in the cached state, unless two reductions overlapped or a
\* snapshot was put back.
SkipsAreQueued ==
  \A a \in Actors \ torn : stream[a] # << >> =>
    \A i \in 1 .. cursor[a] :
      \/ i \in cache[a]
      \/ i \in folded[a] /\ a \in clashed \cup rewound
      \/ \E j \in i + 1 .. cursor[a] :
           /\ stream[a][j].type \in {"DECISION", "EFFECT"}
           /\ stream[a][j].intent < i

\* A forgotten stream comes back only through an append that was under way; the
\* cursor of any other stands on an event.
GhostsAreTorn ==
  \A a \in Actors \ torn : stream[a] # << >> => cursor[a] \in DOMAIN stream[a]

\* The log is well typed, and no cursor stands outside the stream of an actor
\* that was not forgotten in the middle of an append.
LogSound == TypeOK /\ GhostsAreTorn

\* Agents/base_agent.py: calls that share an actor need not be serialised once
\* it exists. They run a tool twice, or return another call's answer.
SharedCalls == \A c \in CallIds : ran[c] <= 1 /\ answer[c] \in {0, c}
=============================================================================
