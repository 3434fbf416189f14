------------------------- MODULE ActorRuntimeProofs -------------------------
(***************************************************************************)
(* For any number of actors, of calls that share them and of controls in   *)
(* between, which meet at every read and write of stream, cursor and       *)
(* cache: no tool runs without approval, the cursor of an actor jumps over *)
(* nothing but what was queued behind an INTENT, and a call that has its   *)
(* actor to itself runs its tool once and returns its own answer.          *)
(***************************************************************************)
EXTENDS ActorRuntime, TLAPS

-----------------------------------------------------------------------------
(***************************************************************************)
(* Types                                                                   *)
(***************************************************************************)
LEMMA Bounds ==
  /\ MaxActors \in Nat /\ MaxCalls \in Nat
  /\ Actors \subseteq Nat \ {0} /\ CallIds \subseteq Nat \ {0}
BY RuntimeAssumption DEF Actors, CallIds

LEMMA EventType == ASSUME NEW t \in Types PROVE Event(t) \in Events
BY DEF Event, Events

LEMMA IdleType == Idle \in CallState
BY EventType DEF Idle, CallState, Labels, Types

LEMMA TypeInit == Init => TypeOK
<1> SUFFICES ASSUME Init PROVE TypeOK
  OBVIOUS
<1>1. StoreOK
  BY Bounds DEF Init, StoreOK
<1>2. CallsOK
  BY IdleType DEF Init, CallsOK, Idle
<1>3. HistoryOK
  BY Bounds DEF Init, HistoryOK
<1>4. QED
  BY <1>1, <1>2, <1>3 DEF TypeOK

\* An append of an event keeps the streams what they are.
LEMMA AppendType ==
  ASSUME StoreOK, NEW a \in Actors, NEW e \in Events, Append1(a, e)
  PROVE  /\ stream' \in [Actors -> Seq(Events)]
         /\ stream'[a] = Append(stream[a], e)
         /\ \A b \in Actors \ {a} : stream'[b] = stream[b]
BY DEF StoreOK, Append1

\* What a call becomes when it goes on at a label, or raises.
LEMMA GotoType ==
  ASSUME CallsOK, NEW c \in CallIds, ~At(c, "idle"), NEW label \in Labels \ {"idle"},
         Goto(c, label)
  PROVE  CallsOK' \/ born' # born
<1> SUFFICES ASSUME born' = born PROVE CallsOK'
  OBVIOUS
<1> DEFINE s == IF label \in {"look", "reply", "cleanup"}
                  THEN [Idle EXCEPT !.pc = label, !.actor = call[c].actor,
                                    !.own = call[c].own]
                  ELSE [call[c] EXCEPT !.pc = label]
<1>1. call[c] \in CallState /\ call[c].actor \in 1 .. born
  BY DEF CallsOK, At
<1>2. s \in CallState /\ s.actor = call[c].actor
  BY <1>1, IdleType DEF CallState, Idle
<1>3. call' = [call EXCEPT ![c] = s]
  BY DEF Goto
<1>4. QED
  BY <1>1, <1>2, <1>3 DEF CallsOK

LEMMA RaiseType ==
  ASSUME CallsOK, NEW c \in CallIds, ~At(c, "idle"), Raise(c), born' = born
  PROVE  CallsOK'
<1>1. CASE call[c].own
  BY <1>1, GotoType DEF Raise, Labels
<1>2. CASE ~call[c].own
  <2>1. call' = [call EXCEPT ![c] = Idle]
    BY <1>2 DEF Raise
  <2>2. QED
    BY <2>1, IdleType DEF CallsOK, Idle
<1>3. QED
  BY <1>1, <1>2

\* Any other change of one call that keeps its actor.
LEMMA CallType ==
  ASSUME CallsOK, NEW c \in CallIds, ~At(c, "idle"), NEW s \in CallState,
         s.actor = call[c].actor, call' = [call EXCEPT ![c] = s], born' = born
  PROVE  CallsOK'
BY DEF CallsOK, At

LEMMA CreateType ==
  ASSUME StoreOK, NEW a, Create(a)
  PROVE  /\ a \in Actors /\ a = born + 1 /\ born' = a
         /\ 1 .. born \subseteq 1 .. born' /\ 0 .. born \subseteq 0 .. born'
         /\ cache' \in [Actors -> SUBSET Nat] /\ cursor' \in [Actors -> Nat]
         /\ (folded \in [Actors -> SUBSET Nat] => folded' \in [Actors -> SUBSET Nat])
         /\ clashed' = clashed
BY Bounds DEF StoreOK, Create

LEMMA EnterType ==
  ASSUME CallsOK, HistoryOK, NEW c \in CallIds, NEW s \in CallState,
         s.actor \in 1 .. born', born \in Nat, born' \in Nat, born <= born',
         call' = [call EXCEPT ![c] = s], calls' = c,
         disturbed' \subseteq disturbed \cup CallIds,
         UNCHANGED <<controls, ran, answer, rewound, torn, clashed>>,
         folded' \in [Actors -> SUBSET Nat]
  PROVE  CallsOK' /\ HistoryOK'
<1>1. CallsOK'
  BY DEF CallsOK
<1>2. HistoryOK'
  BY Bounds DEF HistoryOK, CallIds
<1>3. QED
  BY <1>1, <1>2

\* Enter in these terms.
LEMMA EnterState ==
  ASSUME NEW c \in CallIds, NEW a \in Actors, Enter(c, a, TRUE) \/ Enter(c, a, FALSE)
  PROVE  \E s \in CallState :
           /\ s.actor = a /\ s.pc = "ingest"
           /\ call' = [call EXCEPT ![c] = s] /\ calls' = c
           /\ disturbed' \subseteq disturbed \cup CallIds
           /\ UNCHANGED <<children, snapshot, controls, ran, answer, rewound, torn>>
<1> DEFINE s(own) == [Idle EXCEPT !.pc = "ingest", !.actor = a, !.own = own]
<1>1. s(TRUE) \in CallState /\ s(TRUE).actor = a /\ s(TRUE).pc = "ingest"
  BY IdleType DEF CallState, Idle, Labels
<1>2. s(FALSE) \in CallState /\ s(FALSE).actor = a /\ s(FALSE).pc = "ingest"
  BY IdleType DEF CallState, Idle, Labels
<1>3. CASE Enter(c, a, TRUE)
  <2>1. call' = [call EXCEPT ![c] = s(TRUE)]
    BY <1>3 DEF Enter
  <2>2. QED
    BY <1>1, <1>3, <2>1 DEF Enter, Others
<1>4. CASE Enter(c, a, FALSE)
  <2>1. call' = [call EXCEPT ![c] = s(FALSE)]
    BY <1>4 DEF Enter
  <2>2. QED
    BY <1>2, <1>4, <2>1 DEF Enter, Others
<1>5. QED
  BY <1>3, <1>4

LEMMA ForgetType ==
  ASSUME StoreOK, HistoryOK, NEW a \in Actors, Forget(a),
         UNCHANGED <<agentActor, snapshot, calls, ran, answer, rewound>>,
         controls' \in Nat
  PROVE  StoreOK' /\ HistoryOK'
<1>1. << >> \in Seq(Events) /\ << >> \in Seq(Actors)
  OBVIOUS
<1>2. StoreOK'
  BY <1>1 DEF StoreOK, Forget
<1>3. HistoryOK'
  BY DEF HistoryOK, Forget, Appenders
<1>4. QED
  BY <1>2, <1>3

LEMMA TypeStep == TypeOK /\ [Next]_vars => TypeOK'
<1> SUFFICES ASSUME TypeOK, [Next]_vars PROVE TypeOK'
  OBVIOUS
<1> USE DEF TypeOK
<1>n. /\ born \in Nat /\ born <= MaxActors /\ MaxActors \in Nat
      /\ agentActor \in 0 .. born
  BY Bounds DEF StoreOK, Actors
<1>c. ASSUME NEW c \in CallIds, ~At(c, "idle")
      PROVE  /\ call[c] \in CallState /\ call[c].actor \in Actors
             /\ call[c].actor \in 1 .. born
  BY <1>c, <1>n DEF CallsOK, At, Actors
<1>1. ASSUME NEW c \in CallIds, CallShared(c) PROVE TypeOK'
  <2>1. CASE /\ agentActor # 0 /\ Open(agentActor)
             /\ Enter(c, agentActor, FALSE)
             /\ UNCHANGED <<stream, cursor, cache, born, agentActor, traces>>
    <3>1. agentActor \in Actors /\ agentActor \in 1 .. born
      BY <1>n, <2>1 DEF Actors
    <3>2. CallsOK' /\ HistoryOK'
      <4>1. PICK s \in CallState :
              /\ s.actor = agentActor /\ call' = [call EXCEPT ![c] = s] /\ calls' = c
              /\ disturbed' \subseteq disturbed \cup CallIds
              /\ UNCHANGED <<controls, ran, answer, rewound, torn>>
        BY <2>1, <3>1, EnterState
      <4>2. s.actor \in 1 .. born' /\ born <= born' /\ born' \in Nat
        BY <1>n, <2>1, <3>1, <4>1
      <4>f. folded' \in [Actors -> SUBSET Nat] /\ clashed' = clashed
        BY <2>1 DEF traces, HistoryOK
      <4>3. QED
        BY <1>n, <4>1, <4>2, <4>f, EnterType
    <3>3. StoreOK'
      BY <2>1 DEF StoreOK, Enter
    <3>4. QED
      BY <3>2, <3>3
  <2>2. CASE /\ agentActor = 0 /\ Create(born + 1)
             /\ Append1(born + 1, Event("NOTE"))
             /\ agentActor' = born + 1 /\ Enter(c, born + 1, FALSE)
    <3>1. /\ born + 1 \in Actors /\ born' = born + 1 /\ born' \in Nat
          /\ cache' \in [Actors -> SUBSET Nat] /\ cursor' \in [Actors -> Nat]
          /\ folded' \in [Actors -> SUBSET Nat] /\ clashed' = clashed
      BY <1>n, <2>2, CreateType DEF HistoryOK
    <3>2. stream' \in [Actors -> Seq(Events)]
      BY <2>2, <3>1, AppendType, EventType DEF Types
    <3>3. StoreOK'
      BY <1>n, <2>2, <3>1, <3>2 DEF StoreOK, Enter
    <3>4. CallsOK' /\ HistoryOK'
      <4>1. PICK s \in CallState :
              /\ s.actor = born + 1 /\ call' = [call EXCEPT ![c] = s] /\ calls' = c
              /\ disturbed' \subseteq disturbed \cup CallIds
              /\ UNCHANGED <<controls, ran, answer, rewound, torn>>
        BY <2>2, <3>1, EnterState
      <4>2. s.actor \in 1 .. born' /\ born <= born'
        BY <1>n, <3>1, <4>1
      <4>3. QED
        BY <1>n, <3>1, <4>1, <4>2, EnterType
    <3>5. QED
      BY <3>3, <3>4
  <2>3. QED
    BY <1>1, <2>1, <2>2 DEF CallShared
<1>2. ASSUME NEW c \in CallIds, CallOneShot(c) PROVE TypeOK'
  <2>1. /\ born + 1 \in Actors /\ born' = born + 1 /\ born' \in Nat
        /\ cache' \in [Actors -> SUBSET Nat] /\ cursor' \in [Actors -> Nat]
        /\ folded' \in [Actors -> SUBSET Nat] /\ clashed' = clashed
    BY <1>2, <1>n, CreateType DEF CallOneShot, HistoryOK
  <2>2. stream' \in [Actors -> Seq(Events)]
    BY <1>2, <2>1, AppendType, EventType DEF CallOneShot, Types
  <2>3. StoreOK'
    BY <1>2, <1>n, <2>1, <2>2 DEF StoreOK, CallOneShot, Enter
  <2>4. CallsOK' /\ HistoryOK'
    <3>1. PICK s \in CallState :
            /\ s.actor = born + 1 /\ call' = [call EXCEPT ![c] = s] /\ calls' = c
            /\ disturbed' \subseteq disturbed \cup CallIds
            /\ UNCHANGED <<controls, ran, answer, rewound, torn>>
      BY <1>2, <2>1, EnterState DEF CallOneShot
    <3>2. s.actor \in 1 .. born' /\ born <= born'
      BY <1>n, <2>1, <3>1
    <3>3. QED
      BY <1>n, <2>1, <3>1, <3>2, EnterType
  <2>5. QED
    BY <2>3, <2>4
<1>3. ASSUME NEW c \in CallIds, Ingest(c) PROVE TypeOK'
  <2> DEFINE e == [Event("INTENT") EXCEPT !.call = c]
  <2>1. ~At(c, "idle") /\ call[c].actor \in Actors
    BY <1>3, <1>c DEF Ingest, At
  <2>2. e \in Events
    BY DEF Event, Events, Types
  <2>3. stream' \in [Actors -> Seq(Events)]
    BY <1>3, <2>1, <2>2, AppendType DEF Ingest
  <2>4. CallsOK'
    BY <1>3, <2>1, GotoType DEF Ingest, Labels
  <2>5. QED
    BY <1>3, <2>3, <2>4 DEF Ingest, StoreOK, HistoryOK, bounds, history, traces
<1>4. ASSUME NEW c \in CallIds, Look(c) PROVE TypeOK'
  <2> DEFINE a == call[c].actor
             s == [call[c] EXCEPT !.pc = "fetch", !.at = cursor[a]]
  <2>1. ~At(c, "idle") /\ call[c] \in CallState /\ a \in Actors
    BY <1>4, <1>c DEF Look, At
  <2>2. UNCHANGED <<store, agentActor, snapshot, bounds, history>>
    BY <1>4 DEF Look
  <2>3. StoreOK' /\ HistoryOK' /\ born' = born
    BY <2>2 DEF StoreOK, HistoryOK, store, bounds, history, traces
  <2>4. CASE Raise(c)
    BY <2>1, <2>3, <2>4, RaiseType
  <2>5. CASE call' = [call EXCEPT ![c] = s]
    <3>1. s \in CallState /\ s.actor = call[c].actor
      <4>1. PICK n \in Nat : n = cursor[a]
        BY <2>1 DEF StoreOK
      <4>2. s = [call[c] EXCEPT !.pc = "fetch", !.at = n]
        BY <4>1
      <4>3. QED
        BY <2>1, <4>2 DEF CallState, Labels
    <3>2. QED
      BY <2>1, <2>3, <2>5, <3>1, CallType
  <2>6. QED
    BY <1>4, <2>4, <2>5 DEF Look
<1>f. ASSUME NEW c \in CallIds, Fetch(c) PROVE TypeOK'
  <2> DEFINE a == call[c].actor
             at == call[c].at + 1
             next == CASE stream[a][at].type = "TERMINATED" -> "reply"
                       [] stream[a][at].type = "INTENT"     -> "check"
                       [] OTHER                             -> "look"
             s == [call[c] EXCEPT !.pc = "reduce", !.at = at, !.pos = at,
                                  !.trigger = stream[a][at], !.next = next]
  <2>1. ~At(c, "idle") /\ call[c] \in CallState /\ a \in Actors
    BY <1>f, <1>c DEF Fetch, At
  <2>2. UNCHANGED <<store, agentActor, snapshot, bounds, history>>
    BY <1>f DEF Fetch
  <2>3. StoreOK' /\ HistoryOK' /\ born' = born
    BY <2>2 DEF StoreOK, HistoryOK, store, bounds, history, traces
  <2>4. CASE Raise(c)
    BY <2>1, <2>3, <2>4, RaiseType
  <2>5. CASE Goto(c, "reply")
    BY <2>1, <2>3, <2>5, GotoType DEF Labels
  <2>6. CASE at \in DOMAIN stream[a] /\ call' = [call EXCEPT ![c] = s]
    <3>1. stream[a] \in Seq(Events)
      BY <2>1 DEF StoreOK
    <3>m. call[c].at \in Nat
      BY <2>1 DEF CallState
    <3>n. at \in Nat
      BY <3>m
    <3>d. at \in DOMAIN stream[a]
      BY <2>6
    <3>2. stream[a][at] \in Events /\ at \in Nat
      BY <3>1, <3>d, <3>n
    <3>3. s \in CallState /\ s.actor = call[c].actor
      <4>1. PICK n \in Nat, e \in Events, l \in {"look", "check", "reply"} :
              n = at /\ e = stream[a][at] /\ l = next
        BY <3>2
      <4>2. s = [call[c] EXCEPT !.pc = "reduce", !.at = n, !.pos = n,
                                !.trigger = e, !.next = l]
        BY <4>1
      <4>3. QED
        BY <2>1, <4>2 DEF CallState, Labels
    <3>4. QED
      BY <2>1, <2>3, <2>6, <3>3, CallType
  <2>7. QED
    BY <1>f, <2>4, <2>5, <2>6 DEF Fetch
<1>5. ASSUME NEW c \in CallIds, ReadState(c) PROVE TypeOK'
  <2> DEFINE a == call[c].actor
             s == [call[c] EXCEPT !.pc = "store",
                                  !.state = cache[a] \cup {call[c].pos}]
  <2>1. ~At(c, "idle") /\ call[c] \in CallState /\ a \in Actors
    BY <1>5, <1>c DEF ReadState, At
  <2>2. StoreOK' /\ HistoryOK' /\ born' = born
    <3>1. clashed' \subseteq Actors
      BY <1>5, <2>1 DEF ReadState, HistoryOK
    <3>k. UNCHANGED <<store, agentActor, snapshot, bounds, ran, answer,
                      disturbed, rewound, torn, folded>>
      BY <1>5 DEF ReadState
    <3>2. QED
      BY <3>1, <3>k DEF StoreOK, HistoryOK, store, bounds
  <2>3. CASE Raise(c)
    BY <2>1, <2>2, <2>3, RaiseType
  <2>4. CASE call' = [call EXCEPT ![c] = s]
    <3>1. s \in CallState /\ s.actor = call[c].actor
      <4>p. call[c].pos \in Nat
        BY <2>1 DEF CallState
      <4>q. cache[a] \in SUBSET Nat
        BY <2>1 DEF StoreOK
      <4>1. PICK m \in SUBSET Nat : m = cache[a] \cup {call[c].pos}
        BY <4>p, <4>q
      <4>2. s = [call[c] EXCEPT !.pc = "store", !.state = m]
        BY <4>1
      <4>3. QED
        BY <2>1, <4>2 DEF CallState, Labels
    <3>2. QED
      BY <2>1, <2>2, <2>4, <3>1, CallType
  <2>5. QED
    BY <1>5, <2>3, <2>4 DEF ReadState
<1>s. ASSUME NEW c \in CallIds, WriteState(c) PROVE TypeOK'
  <2> DEFINE a == call[c].actor
             s == [call[c] EXCEPT !.pc = "advance", !.state = {}]
  <2>1. ~At(c, "idle") /\ call[c] \in CallState /\ a \in Actors
    BY <1>s, <1>c DEF WriteState, At
  <2>2. /\ cache' \in [Actors -> SUBSET Nat] /\ folded' \in [Actors -> SUBSET Nat]
        /\ UNCHANGED <<stream, cursor, children, born, agentActor, snapshot, bounds,
                       ran, answer, disturbed, rewound, torn, clashed>>
    BY <1>s, <2>1 DEF WriteState, StoreOK, HistoryOK, CallState
  <2>3. StoreOK' /\ HistoryOK' /\ born' = born
    BY <2>2 DEF StoreOK, HistoryOK, bounds
  <2>4. s \in CallState /\ s.actor = call[c].actor
    BY <2>1 DEF CallState, Labels
  <2>5. call' = [call EXCEPT ![c] = s]
    BY <1>s DEF WriteState
  <2>6. QED
    BY <2>1, <2>3, <2>4, <2>5, CallType
<1>v. ASSUME NEW c \in CallIds, Advance(c) PROVE TypeOK'
  <2>1. ~At(c, "idle") /\ call[c] \in CallState /\ call[c].actor \in Actors
    BY <1>v, <1>c DEF Advance, At
  <2>2. cursor' \in [Actors -> Nat]
    BY <1>v, <2>1 DEF Advance, StoreOK, CallState
  <2>3. StoreOK' /\ HistoryOK' /\ born' = born
    BY <1>v, <2>2 DEF Advance, StoreOK, HistoryOK, bounds, history, traces
  <2>4. call[c].next \in Labels \ {"idle"} /\ Goto(c, call[c].next)
    BY <1>v, <2>1 DEF Advance, CallState, Labels
  <2>5. QED
    BY <2>1, <2>3, <2>4, GotoType
<1>6. ASSUME NEW c \in CallIds, Check(c) PROVE TypeOK'
  <2>1. ~At(c, "idle") /\ call[c] \in CallState
    BY <1>6, <1>c DEF Check, At
  <2>2. StoreOK' /\ HistoryOK' /\ born' = born
    BY <1>6 DEF Check, StoreOK, HistoryOK, store, bounds, history, traces
  <2>3. CASE Raise(c)
    BY <2>1, <2>2, <2>3, RaiseType
  <2>4. ASSUME NEW o \in Outcomes,
               call' = [call EXCEPT ![c].pc = "decide", ![c].outcome = o]
        PROVE  CallsOK'
    <3> DEFINE s == [call[c] EXCEPT !.pc = "decide", !.outcome = o]
    <3>1. s \in CallState /\ s.actor = call[c].actor
      BY <2>1 DEF CallState, Labels
    <3>2. call' = [call EXCEPT ![c] = s]
      BY <2>4
    <3>3. QED
      BY <2>1, <2>2, <3>1, <3>2, CallType
  <2>5. QED
    BY <1>6, <2>2, <2>3, <2>4 DEF Check
\* A write of a DECISION or an EFFECT.
<1>w. ASSUME NEW c \in CallIds, ~At(c, "idle"), NEW event \in Events,
             NEW next \in {"run", "look"}, Write(c, event, next)
      PROVE  TypeOK'
  <2> DEFINE a == call[c].actor
             e == [event EXCEPT !.call = call[c].trigger.call, !.intent = call[c].at]
             s == [call[c] EXCEPT !.pc = "get", !.next = next,
                                  !.pos = Len(stream[a]) + 1]
  <2>1. call[c] \in CallState /\ a \in Actors
    BY <1>w, <1>c
  <2>2. e \in Events
    BY <2>1 DEF Events, CallState
  <2>3. stream' \in [Actors -> Seq(Events)]
    BY <1>w, <2>1, <2>2, AppendType DEF Write
  <2>4. StoreOK' /\ HistoryOK' /\ born' = born
    BY <1>w, <2>3 DEF Write, StoreOK, HistoryOK, bounds, history, traces
  <2>5. s \in CallState /\ s.actor = call[c].actor
    <3>1. PICK n \in Nat : n = Len(stream[a]) + 1
      BY <2>1 DEF StoreOK
    <3>2. s = [call[c] EXCEPT !.pc = "get", !.next = next, !.pos = n]
      BY <3>1
    <3>3. QED
      BY <2>1, <3>2 DEF CallState, Labels
  <2>6. call' = [call EXCEPT ![c] = s]
    BY <1>w DEF Write
  <2>7. QED
    BY <1>w, <2>4, <2>5, <2>6, CallType
<1>7. ASSUME NEW c \in CallIds, WriteDecision(c) PROVE TypeOK'
  <2> DEFINE e == [Event("DECISION") EXCEPT !.outcome = call[c].outcome]
  <2>1. ~At(c, "idle") /\ call[c] \in CallState
    BY <1>7, <1>c DEF WriteDecision, At
  <2>2. e \in Events
    BY <2>1 DEF Event, Events, Types, CallState
  <2>3. PICK next \in {"run", "look"} : Write(c, e, next)
    BY <1>7 DEF WriteDecision
  <2>4. QED
    BY <1>w, <2>1, <2>2, <2>3
<1>8. ASSUME NEW c \in CallIds, Get(c) PROVE TypeOK'
  <2>1. ~At(c, "idle")
    BY <1>8 DEF Get, At
  <2>2. StoreOK' /\ HistoryOK' /\ born' = born
    BY <1>8 DEF Get, StoreOK, HistoryOK, store, bounds, history, traces
  <2>3. QED
    BY <1>8, <2>1, <2>2, RaiseType, GotoType DEF Get, Labels
<1>9. ASSUME NEW c \in CallIds, RunTool(c) PROVE TypeOK'
  <2>1. ~At(c, "idle")
    BY <1>9 DEF RunTool, At
  <2>2. StoreOK' /\ born' = born
    BY <1>9 DEF RunTool, StoreOK, store
  <2>3. HistoryOK'
    <3>1. ran' \in [CallIds -> Nat]
      <4> DEFINE k == call[c].trigger.call
      <4>1. ran \in [CallIds -> Nat] /\ ran' = [ran EXCEPT ![k] = ran[k] + 1]
        BY <1>9 DEF RunTool, HistoryOK
      <4>2. CASE k \in CallIds
        BY <4>1, <4>2
      <4>3. CASE k \notin CallIds
        BY <4>1, <4>3
      <4>4. QED
        BY <4>2, <4>3
    <3>2. QED
      BY <1>9, <3>1 DEF RunTool, HistoryOK, bounds, traces
  <2>4. CallsOK'
    BY <1>9, <2>1, <2>2, GotoType, RaiseType DEF RunTool, Labels
  <2>5. QED
    BY <2>2, <2>3, <2>4
<1>10. ASSUME NEW c \in CallIds, WriteEffect(c) PROVE TypeOK'
  BY <1>10, <1>w, EventType DEF WriteEffect, At, Types
<1>12. ASSUME NEW c \in CallIds, Reply(c) PROVE TypeOK'
  <2> DEFINE s == stream[call[c].actor]
  <2>1. ~At(c, "idle") /\ call[c].actor \in Actors
    BY <1>12, <1>c DEF Reply, At
  <2>2. StoreOK' /\ born' = born
    BY <1>12 DEF Reply, StoreOK, store
  <2>3. s # << >> => Last(s).call \in {0} \cup CallIds
    <3>1. s \in Seq(Events)
      BY <2>1 DEF StoreOK
    <3>2. s # << >> => Last(s) \in Events
      BY <3>1 DEF Last
    <3>3. QED
      BY <3>2 DEF Events
  <2>4. answer' \in [CallIds -> {0} \cup CallIds]
    BY <1>12, <2>3 DEF Reply, HistoryOK
  <2>5. HistoryOK'
    BY <1>12, <2>4 DEF Reply, HistoryOK, bounds, traces
  <2>6. CallsOK'
    BY <1>12, <2>1, <2>2, RaiseType DEF Reply
  <2>7. QED
    BY <2>2, <2>5, <2>6
<1>13. ASSUME NEW c \in CallIds, Cleanup(c) PROVE TypeOK'
  <2>1. ~At(c, "idle") /\ call[c].actor \in Actors
    BY <1>13, <1>c DEF Cleanup, At
  <2>2. controls' \in Nat
    BY <1>13 DEF Cleanup, bounds, HistoryOK
  <2>3. StoreOK' /\ HistoryOK'
    BY <1>13, <2>1, <2>2, ForgetType DEF Cleanup, bounds
  <2>4. CallsOK'
    BY <1>13, IdleType DEF Cleanup, Forget, CallsOK, Idle
  <2>5. QED
    BY <2>3, <2>4
\* What every control leaves alone.
<1>k. ASSUME NEW a \in Actors, Control(a)
      PROVE  /\ UNCHANGED <<agentActor, call, calls, ran, answer>>
             /\ controls' \in Nat
  BY <1>k DEF Control, HistoryOK
<1>14. ASSUME NEW a \in Actors, Observe(a) \/ Terminate(a) PROVE TypeOK'
  <2>1. stream' \in [Actors -> Seq(Events)]
    BY <1>14, AppendType, EventType DEF Observe, Terminate, Types
  <2>2. /\ Control(a)
        /\ UNCHANGED <<cursor, cache, children, born, snapshot, disturbed, rewound, torn,
                       traces>>
    BY <1>14 DEF Observe, Terminate
  <2>3. QED
    BY <1>k, <2>1, <2>2 DEF StoreOK, CallsOK, HistoryOK, traces
<1>15. ASSUME NEW a \in Actors, Archive(a) PROVE TypeOK'
  <2>1. StoreOK' /\ HistoryOK'
    BY <1>15, <1>k, ForgetType DEF Archive
  <2>2. CallsOK'
    BY <1>15, <1>k DEF Archive, Forget, CallsOK
  <2>3. QED
    BY <2>1, <2>2
<1>16. ASSUME NEW a \in Actors, Delegate(a) PROVE TypeOK'
  <2>1. /\ born + 1 \in Actors /\ born' = born + 1
        /\ cache' \in [Actors -> SUBSET Nat] /\ cursor' \in [Actors -> Nat]
        /\ folded' \in [Actors -> SUBSET Nat] /\ clashed' = clashed
    BY <1>16, CreateType DEF Delegate, HistoryOK
  <2>2. Event("NOTE") \in Events /\ <<Event("NOTE")>> \in Seq(Events)
    BY EventType DEF Types
  <2>3. stream' \in [Actors -> Seq(Events)]
    <3>1. Append(stream[a], Event("NOTE")) \in Seq(Events)
      BY <2>2 DEF StoreOK
    <3>2. QED
      BY <1>16, <2>1, <2>2, <3>1 DEF Delegate, StoreOK
  <2>4. children' \in [Actors -> Seq(Actors)]
    BY <1>16, <2>1 DEF Delegate, StoreOK
  <2>5. StoreOK'
    <3>1. agentActor' \in 0 .. born' /\ born' \in {0} \cup Actors
      BY <1>16, <1>k, <1>n, <2>1 DEF Delegate
    <3>2. snapshot' \in [Actors -> SUBSET SUBSET Nat]
      BY <1>16 DEF Delegate, StoreOK
    <3>3. QED
      BY <2>1, <2>3, <2>4, <3>1, <3>2 DEF StoreOK
  <2>6. CallsOK'
    BY <1>16, <1>k, <1>n, <2>1 DEF Delegate, CallsOK
  <2>7. HistoryOK'
    BY <1>16, <1>k, <2>1 DEF Delegate, HistoryOK
  <2>8. QED
    BY <2>5, <2>6, <2>7
<1>17. ASSUME NEW a \in Actors, NEW depth \in 0 .. MaxDepth, Cancel(a, depth)
       PROVE  TypeOK'
  <2>1. Event("NOTE") \in Events
    BY EventType DEF Types
  <2>2. PICK asked :
          stream' = [b \in Actors |-> IF b \in asked /\ Open(b)
                       THEN Append(stream[b], Event("NOTE")) ELSE stream[b]]
    BY <1>17 DEF Cancel
  <2>3. stream' \in [Actors -> Seq(Events)]
    BY <2>1, <2>2 DEF StoreOK
  <2>4. /\ Control(a)
        /\ UNCHANGED <<cursor, cache, children, born, snapshot, disturbed, rewound, torn,
                       traces>>
    BY <1>17 DEF Cancel
  <2>5. QED
    BY <1>k, <2>3, <2>4 DEF StoreOK, CallsOK, HistoryOK, traces
<1>18. ASSUME NEW a \in Actors, Suspend(a) PROVE TypeOK'
  <2>1. cache[a] \in SUBSET Nat /\ snapshot' \in [Actors -> SUBSET SUBSET Nat]
    BY <1>18 DEF Suspend, StoreOK
  <2>2. QED
    BY <1>18, <1>k, <2>1 DEF Suspend, store, StoreOK, CallsOK, HistoryOK, traces
<1>19. ASSUME NEW a \in Actors, NEW same \in BOOLEAN, Resume(a, same)
       PROVE  TypeOK'
  <2>1. (CHOOSE s \in snapshot[a] : TRUE) \in SUBSET Nat
    BY <1>19 DEF Resume, StoreOK
  <2>2. DOMAIN stream[a] \in SUBSET Nat /\ Len(stream[a]) \in Nat
    BY DEF StoreOK
  <2>c. PICK restored, replayed, length :
          /\ restored = (CHOOSE s \in snapshot[a] : TRUE)
          /\ replayed = DOMAIN stream[a] /\ length = Len(stream[a])
    OBVIOUS
  <2>d. \/ cache' = [cache EXCEPT ![a] = restored] /\ cursor' = cursor
        \/ /\ cache' = [cache EXCEPT ![a] = replayed]
           /\ cursor' = [cursor EXCEPT ![a] = length]
    BY <1>19, <2>c DEF Resume
  <2>e. restored \in SUBSET Nat /\ replayed \in SUBSET Nat /\ length \in Nat
    BY <2>1, <2>2, <2>c
  <2>f. cache \in [Actors -> SUBSET Nat] /\ cursor \in [Actors -> Nat]
    BY DEF StoreOK
  <2>3. cache' \in [Actors -> SUBSET Nat] /\ cursor' \in [Actors -> Nat]
    <3>1. ASSUME NEW new \in SUBSET Nat
          PROVE  [cache EXCEPT ![a] = new] \in [Actors -> SUBSET Nat]
      BY <2>f
    <3>2. ASSUME NEW new \in Nat
          PROVE  [cursor EXCEPT ![a] = new] \in [Actors -> Nat]
      BY <2>f
    <3>3. QED
      BY <2>d, <2>e, <2>f, <3>1, <3>2
  <2>4. rewound' \subseteq Actors
    BY <1>19 DEF Resume, HistoryOK
  <2>t. folded' \in [Actors -> SUBSET Nat] /\ clashed' \subseteq Actors
    BY <1>19, <2>2 DEF Resume, traces, HistoryOK
  <2>5. Control(a) /\ UNCHANGED <<stream, children, born, snapshot, disturbed, torn>>
    BY <1>19 DEF Resume
  <2>6. QED
    BY <1>k, <2>3, <2>4, <2>5, <2>t DEF StoreOK, CallsOK, HistoryOK
<1>20. CASE UNCHANGED vars
  BY <1>20 DEF vars, store, bounds, history, traces, StoreOK, CallsOK, HistoryOK
<1>21. QED
  BY <1>1, <1>2, <1>3, <1>4, <1>f, <1>5, <1>s, <1>v, <1>6, <1>7, <1>8, <1>9, <1>10, <1>12,
     <1>13, <1>14, <1>15, <1>16, <1>17, <1>18, <1>19, <1>20
     DEF Next, Step, Controller

\* The store of events, the bookkeeping of the runtime and the local variables
\* of the calls stay what they are declared to be.
THEOREM RuntimeTypeCorrect == Spec => []TypeOK
BY TypeInit, TypeStep, PTL DEF Spec

-----------------------------------------------------------------------------
(***************************************************************************)
(* What a step does, told by what its call holds before and after it.      *)
(***************************************************************************)
Quiet ==
  UNCHANGED <<store, agentActor, snapshot, bounds, disturbed, rewound, torn, traces>>

Silent == Quiet /\ UNCHANGED <<ran, answer>>

\* The fields that a step over an event keeps until it goes on.
HoldsOn(c) ==
  /\ call'[c].actor = call[c].actor /\ call'[c].at = call[c].at
  /\ call'[c].trigger = call[c].trigger

HoldsAll(c) ==
  HoldsOn(c) /\ call'[c].pos = call[c].pos /\ call'[c].next = call[c].next

Stream(c) == stream[call[c].actor]

Ingests(c) ==
  /\ At(c, "ingest") /\ call'[c].pc = "look" /\ call'[c].actor = call[c].actor
  /\ \E e \in Events :
       /\ e.type = "INTENT" /\ e.call = c
       /\ stream' = [stream EXCEPT ![call[c].actor] = Append(@, e)]
  /\ UNCHANGED <<cursor, cache, children, born, agentActor, snapshot, bounds, history>>

Looks(c) ==
  /\ At(c, "look") /\ call'[c].pc = "fetch" /\ call'[c].actor = call[c].actor
  /\ Stream(c) # << >> /\ call'[c].at = cursor[call[c].actor]
  /\ Silent

Drains(c) ==
  /\ At(c, "fetch") /\ call'[c].pc = "reply" /\ call'[c].actor = call[c].actor
  /\ call[c].at \in DOMAIN Stream(c) /\ call[c].at + 1 \notin DOMAIN Stream(c)
  /\ Silent

Fetches(c) ==
  /\ At(c, "fetch") /\ call'[c].pc = "reduce" /\ call'[c].actor = call[c].actor
  /\ call[c].at \in DOMAIN Stream(c) /\ call[c].at + 1 \in DOMAIN Stream(c)
  /\ call'[c].at = call[c].at + 1 /\ call'[c].pos = call[c].at + 1
  /\ call'[c].trigger = Stream(c)[call[c].at + 1]
  /\ call'[c].next =
       CASE call'[c].trigger.type = "TERMINATED" -> "reply"
         [] call'[c].trigger.type = "INTENT"     -> "check"
         [] OTHER                                -> "look"
  /\ Silent

Reads(c) ==
  /\ At(c, "reduce") /\ call'[c].pc = "store" /\ HoldsAll(c)
  /\ cache[call[c].actor] # {}
  /\ call'[c].state = cache[call[c].actor] \cup {call[c].pos}
  /\ clashed' = IF Reducing(call[c].actor) = {} THEN clashed
                ELSE clashed \cup {call[c].actor}
  /\ UNCHANGED <<store, agentActor, snapshot, bounds, ran, answer, disturbed,
                 rewound, torn, folded>>

Stores(c) ==
  /\ At(c, "store") /\ call'[c].pc = "advance" /\ HoldsAll(c)
  /\ cache' = [cache EXCEPT ![call[c].actor] = call[c].state]
  /\ folded' = [folded EXCEPT ![call[c].actor] = @ \cup {call[c].pos}]
  /\ UNCHANGED <<stream, cursor, children, born, agentActor, snapshot, bounds,
                 ran, answer, disturbed, rewound, torn, clashed>>

Advances(c) ==
  /\ At(c, "advance") /\ call'[c].pc = call[c].next
  /\ call'[c].actor = call[c].actor
  /\ call[c].next \in {"check", "run"} => HoldsAll(c)
  /\ cursor' = [cursor EXCEPT ![call[c].actor] = call[c].pos]
  /\ UNCHANGED <<stream, cache, children, born, agentActor, snapshot, bounds, history>>

Checks(c) ==
  /\ At(c, "check") /\ call'[c].pc = "decide" /\ HoldsOn(c)
  /\ call[c].at \in DOMAIN Stream(c)
  /\ Silent

Writes(c) ==
  /\ call[c].pc \in {"decide", "effect"} /\ call'[c].pc = "get" /\ HoldsOn(c)
  /\ call'[c].pos = Len(Stream(c)) + 1 /\ call'[c].next \in {"look", "run"}
  /\ \E e \in Events :
       /\ e.intent = call[c].at /\ e.call = call[c].trigger.call
       /\ e.type = IF At(c, "decide") THEN "DECISION" ELSE "EFFECT"
       /\ call'[c].next = "run" => e.type = "DECISION" /\ e.outcome = "APPROVED"
       /\ stream' = [stream EXCEPT ![call[c].actor] = Append(@, e)]
  /\ UNCHANGED <<cursor, cache, children, born, agentActor, snapshot, bounds, history>>

Gets(c) ==
  /\ At(c, "get") /\ call'[c].pc = "reduce" /\ HoldsAll(c)
  /\ call[c].pos \in DOMAIN Stream(c)
  /\ Silent

Runs(c) ==
  /\ At(c, "run") /\ call'[c].pc = "effect" /\ HoldsOn(c)
  /\ call[c].at \in DOMAIN Stream(c)
  /\ ran' = [ran EXCEPT ![call[c].trigger.call] = @ + 1]
  /\ Quiet /\ UNCHANGED answer

Replies(c) ==
  /\ At(c, "reply") /\ call'[c].pc \in {"idle", "cleanup"}
  /\ call'[c].pc = "cleanup" => call'[c].actor = call[c].actor
  /\ \/ UNCHANGED answer
     \/ /\ Stream(c) # << >> /\ Last(Stream(c)).type \in {"DECISION", "EFFECT"}
        /\ answer' = [answer EXCEPT ![c] = Last(Stream(c)).call]
  /\ Quiet /\ UNCHANGED ran

\* Why a step may raise, and that the tool may have run before.
Fails(c) ==
  /\ call'[c].pc \in {"idle", "cleanup"}
  /\ call'[c].pc = "cleanup" => call'[c].actor = call[c].actor
  /\ \/ At(c, "look") /\ (Stream(c) = << >> \/ cursor[call[c].actor] = 0)
     \/ At(c, "fetch") /\ (call[c].at \in DOMAIN Stream(c) =>
                             Stream(c)[call[c].at].type = "TERMINATED")
     \/ At(c, "reduce") /\ cache[call[c].actor] = {}
     \/ call[c].pc \in {"check", "run"} /\ call[c].at \notin DOMAIN Stream(c)
     \/ At(c, "get") /\ call[c].pos \notin DOMAIN Stream(c)
  /\ IF At(c, "run") THEN ran' = [ran EXCEPT ![call[c].trigger.call] = @ + 1]
     ELSE UNCHANGED ran
  /\ Quiet /\ UNCHANGED answer

Cleans(c) ==
  /\ At(c, "cleanup") /\ call'[c].pc = "idle"
  /\ Forget(call[c].actor)
  /\ UNCHANGED <<agentActor, snapshot, bounds, ran, answer, rewound>>

Works(c) ==
  /\ \A d \in CallIds \ {c} : call'[d] = call[d]
  /\ call'[c].actor = IF call'[c].pc = "idle" THEN 0 ELSE call[c].actor
  /\ \/ Ingests(c) \/ Looks(c) \/ Drains(c) \/ Fetches(c) \/ Reads(c) \/ Stores(c)
     \/ Advances(c) \/ Checks(c) \/ Writes(c) \/ Gets(c) \/ Runs(c) \/ Replies(c)
     \/ Fails(c) \/ Cleans(c)

LEMMA IdleFields == Idle.pc = "idle" /\ Idle.actor = 0
BY Zenon DEF Idle

LEMMA MovedCall ==
  ASSUME CallsOK, NEW c \in CallIds, NEW s, call' = [call EXCEPT ![c] = s]
  PROVE  call'[c] = s /\ \A d \in CallIds \ {c} : call'[d] = call[d]
BY DEF CallsOK

LEMMA GotoMoves ==
  ASSUME CallsOK, NEW c \in CallIds, ~At(c, "idle"), NEW label \in Labels,
         Goto(c, label)
  PROVE  /\ call'[c].pc = label /\ call'[c].actor = call[c].actor
         /\ label \notin {"look", "reply", "cleanup"} => HoldsAll(c)
         /\ \A d \in CallIds \ {c} : call'[d] = call[d]
<1> DEFINE s == IF label \in {"look", "reply", "cleanup"}
                  THEN [Idle EXCEPT !.pc = label, !.actor = call[c].actor,
                                    !.own = call[c].own]
                  ELSE [call[c] EXCEPT !.pc = label]
<1>1. call[c] \in CallState
  BY DEF CallsOK, At
<1>2. /\ s.pc = label /\ s.actor = call[c].actor
      /\ label \notin {"look", "reply", "cleanup"} =>
           /\ s.at = call[c].at /\ s.trigger = call[c].trigger
           /\ s.pos = call[c].pos /\ s.next = call[c].next
  BY <1>1 DEF CallState, Idle
<1>3. call'[c] = s /\ \A d \in CallIds \ {c} : call'[d] = call[d]
  BY MovedCall DEF Goto
<1>4. QED
  BY <1>2, <1>3 DEF HoldsAll, HoldsOn

LEMMA RaiseMoves ==
  ASSUME CallsOK, NEW c \in CallIds, ~At(c, "idle"), Raise(c)
  PROVE  /\ call'[c].pc \in {"idle", "cleanup"}
         /\ call'[c].pc = "cleanup" => call'[c].actor = call[c].actor
         /\ call'[c].pc = "idle" => call'[c].actor = 0
         /\ \A d \in CallIds \ {c} : call'[d] = call[d]
<1>1. CASE call[c].own
  BY <1>1, GotoMoves DEF Raise, Labels
<1>2. CASE ~call[c].own
  <2>1. call' = [call EXCEPT ![c] = Idle]
    BY <1>2 DEF Raise
  <2>2. call'[c] = Idle /\ \A d \in CallIds \ {c} : call'[d] = call[d]
    BY <2>1 DEF CallsOK
  <2>3. QED
    BY <2>2, IdleFields
<1>3. QED
  BY <1>1, <1>2

LEMMA StepWorks ==
  ASSUME TypeOK, NEW c \in CallIds, Step(c)
  PROVE  Works(c) /\ ~At(c, "idle") /\ call[c] \in CallState
         /\ call[c].actor \in Actors /\ call[c].actor \in 1 .. born
<1>t. StoreOK /\ CallsOK
  BY DEF TypeOK
<1>i. ~At(c, "idle")
  BY DEF Step, At, Ingest, Look, Fetch, ReadState, WriteState, Advance, Check,
         WriteDecision, Get, RunTool, WriteEffect, Reply, Cleanup
<1>c. /\ call[c] \in CallState /\ call[c].actor \in Actors
      /\ call[c].actor \in 1 .. born
  BY <1>t, <1>i, Bounds DEF StoreOK, CallsOK, At, Actors
<1>0. CASE Ingest(c)
  <2>1. At(c, "ingest") /\ Goto(c, "look")
    BY <1>0 DEF Ingest
  <2> DEFINE e == [Event("INTENT") EXCEPT !.call = c]
  <2>2. e \in Events /\ e.type = "INTENT" /\ e.call = c
    BY DEF Event, Events, Types
  <2>3. stream' = [stream EXCEPT ![call[c].actor] = Append(@, e)]
    BY <1>0 DEF Ingest, Append1
  <2>4. UNCHANGED <<cursor, cache, children, born, agentActor, snapshot, bounds, history>>
    BY <1>0 DEF Ingest
  <2> HIDE DEF e
  <2>5. Ingests(c)
    BY <1>i, <1>t, <2>1, <2>2, <2>3, <2>4, GotoMoves DEF Ingests, Labels
  <2>6. QED
    BY <1>i, <1>c, <1>t, <2>1, <2>5, GotoMoves DEF Works, Labels
<1>1. CASE Look(c)
  <2>1. At(c, "look") /\ Silent
    BY <1>1 DEF Look, Silent, Quiet, history
  <2>2. CASE Raise(c) /\ (Stream(c) = << >> \/ cursor[call[c].actor] = 0)
    BY <1>i, <1>c, <1>t, <2>1, <2>2, RaiseMoves DEF Works, Fails, Silent, At
  <2>3. CASE Stream(c) # << >> /\ call' = [call EXCEPT ![c] =
               [call[c] EXCEPT !.pc = "fetch", !.at = cursor[call[c].actor]]]
    <3> DEFINE s == [call[c] EXCEPT !.pc = "fetch", !.at = cursor[call[c].actor]]
    <3>1. s.pc = "fetch" /\ s.at = cursor[call[c].actor] /\ s.actor = call[c].actor
      BY <1>c DEF CallState
    <3>2. call'[c] = s /\ \A d \in CallIds \ {c} : call'[d] = call[d]
      BY <1>t, <2>3, MovedCall
    <3> HIDE DEF s
    <3>3. Looks(c)
      BY <2>1, <2>3, <3>1, <3>2 DEF Looks
    <3>4. QED
      BY <1>c, <1>i, <3>1, <3>2, <3>3 DEF Works
  <2>4. QED
    BY <1>1, <2>2, <2>3 DEF Look, Stream
<1>2. CASE Fetch(c)
  <2>1. At(c, "fetch") /\ Silent
    BY <1>2 DEF Fetch, Silent, Quiet, history
  <2>2. CASE Raise(c) /\ (call[c].at \in DOMAIN Stream(c) =>
                             Stream(c)[call[c].at].type = "TERMINATED")
    BY <1>i, <1>c, <1>t, <2>1, <2>2, RaiseMoves DEF Works, Fails, Silent, At
  <2>3. CASE /\ call[c].at \in DOMAIN Stream(c)
             /\ call[c].at + 1 \notin DOMAIN Stream(c) /\ Goto(c, "reply")
    BY <1>i, <1>c, <1>t, <2>1, <2>3, GotoMoves DEF Works, Drains, Labels
  <2> DEFINE at == call[c].at + 1
             next == CASE Stream(c)[at].type = "TERMINATED" -> "reply"
                       [] Stream(c)[at].type = "INTENT"     -> "check"
                       [] OTHER                             -> "look"
             s == [call[c] EXCEPT !.pc = "reduce", !.at = at, !.pos = at,
                                  !.trigger = Stream(c)[at], !.next = next]
  <2>4. CASE /\ call[c].at \in DOMAIN Stream(c) /\ at \in DOMAIN Stream(c)
             /\ call' = [call EXCEPT ![c] = s]
    <3>1. /\ s.pc = "reduce" /\ s.at = at /\ s.actor = call[c].actor /\ s.pos = at
          /\ s.trigger = Stream(c)[at] /\ s.next = next
      BY <1>c DEF CallState
    <3>2. call'[c] = s /\ \A d \in CallIds \ {c} : call'[d] = call[d]
      BY <1>t, <2>4, MovedCall
    <3> HIDE DEF s
    <3>3. Fetches(c)
      BY <2>1, <2>4, <3>1, <3>2 DEF Fetches
    <3>4. QED
      BY <1>c, <1>i, <3>1, <3>2, <3>3 DEF Works
  <2>5. QED
    BY <1>2, <2>2, <2>3, <2>4 DEF Fetch, Stream
<1>3. CASE ReadState(c)
  <2>1. At(c, "reduce")
    BY <1>3 DEF ReadState
  <2>2. CASE Raise(c) /\ cache[call[c].actor] = {} /\ UNCHANGED clashed
    <3>1. Silent
      BY <1>3, <2>2 DEF ReadState, Silent, Quiet, traces
    <3>2. QED
      BY <1>i, <1>c, <1>t, <2>1, <2>2, <3>1, RaiseMoves DEF Works, Fails, Silent, At
  <2> DEFINE s == [call[c] EXCEPT !.pc = "store",
                     !.state = cache[call[c].actor] \cup {call[c].pos}]
  <2>3. CASE cache[call[c].actor] # {} /\ call' = [call EXCEPT ![c] = s]
    <3>1. /\ s.pc = "store" /\ s.at = call[c].at /\ s.actor = call[c].actor
          /\ s.pos = call[c].pos /\ s.trigger = call[c].trigger /\ s.next = call[c].next
          /\ s.state = cache[call[c].actor] \cup {call[c].pos}
      BY <1>c DEF CallState
    <3>2. call'[c] = s /\ \A d \in CallIds \ {c} : call'[d] = call[d]
      BY <1>t, <2>3, MovedCall
    <3> HIDE DEF s
    <3>k. /\ clashed' = IF Reducing(call[c].actor) = {} THEN clashed
                        ELSE clashed \cup {call[c].actor}
          /\ UNCHANGED <<store, agentActor, snapshot, bounds, ran, answer, disturbed,
                         rewound, torn, folded>>
      BY <1>3, <2>3 DEF ReadState
    <3>3. Reads(c)
      BY <2>1, <2>3, <3>1, <3>2, <3>k DEF Reads, HoldsAll, HoldsOn
    <3>4. QED
      BY <1>c, <1>i, <3>1, <3>2, <3>3 DEF Works
  <2>4. QED
    BY <1>3, <2>2, <2>3 DEF ReadState
<1>4. CASE WriteState(c)
  <2> DEFINE s == [call[c] EXCEPT !.pc = "advance", !.state = {}]
  <2>1. /\ s.pc = "advance" /\ s.at = call[c].at /\ s.actor = call[c].actor
        /\ s.pos = call[c].pos /\ s.trigger = call[c].trigger /\ s.next = call[c].next
    BY <1>c DEF CallState
  <2>a. call' = [call EXCEPT ![c] = s]
    BY <1>4 DEF WriteState
  <2> HIDE DEF s
  <2>2. call'[c] = s /\ \A d \in CallIds \ {c} : call'[d] = call[d]
    BY <2>a, <1>t, MovedCall DEF CallsOK
  <2>3. Stores(c)
    BY <1>4, <2>1, <2>2 DEF WriteState, Stores, HoldsAll, HoldsOn
  <2>4. QED
    BY <1>c, <1>i, <2>1, <2>2, <2>3 DEF Works
<1>5. CASE Advance(c)
  <2>1. call[c].next \in Labels /\ call[c].next \in {"look", "check", "run", "reply"}
    BY <1>c DEF CallState, Labels
  <2>2. Goto(c, call[c].next)
    BY <1>5 DEF Advance
  <2>3. Advances(c)
    BY <1>5, <1>i, <1>t, <2>1, <2>2, GotoMoves DEF Advance, Advances
  <2>4. QED
    BY <1>c, <1>i, <1>t, <2>1, <2>2, <2>3, GotoMoves DEF Works
<1>6. CASE Check(c)
  <2>1. At(c, "check") /\ Silent
    BY <1>6 DEF Check, Silent, Quiet, history
  <2>2. CASE Raise(c) /\ ~Referable(c)
    BY <1>i, <1>c, <1>t, <2>1, <2>2, RaiseMoves
       DEF Works, Fails, Silent, At, Referable, Stream
  <2>3. ASSUME NEW o \in Outcomes, Referable(c),
               call' = [call EXCEPT ![c] = [call[c] EXCEPT !.pc = "decide", !.outcome = o]]
        PROVE  Works(c)
    <3> DEFINE s == [call[c] EXCEPT !.pc = "decide", !.outcome = o]
    <3>1. /\ s.pc = "decide" /\ s.at = call[c].at /\ s.actor = call[c].actor
          /\ s.trigger = call[c].trigger
      BY <1>c DEF CallState
    <3>2. call'[c] = s /\ \A d \in CallIds \ {c} : call'[d] = call[d]
      BY <1>t, <2>3, MovedCall
    <3> HIDE DEF s
    <3>3. Checks(c)
      BY <2>1, <2>3, <3>1, <3>2 DEF Checks, HoldsOn, Referable, Stream
    <3>4. QED
      BY <1>c, <1>i, <3>1, <3>2, <3>3 DEF Works
  <2>4. QED
    BY <1>6, <1>c, <1>i, <2>2, <2>3 DEF Check
\* The two writes.
<1>w. ASSUME NEW event \in Events, NEW next \in {"look", "run"}, Write(c, event, next),
             call[c].pc \in {"decide", "effect"},
             event.type = IF At(c, "decide") THEN "DECISION" ELSE "EFFECT",
             next = "run" => event.type = "DECISION" /\ event.outcome = "APPROVED"
      PROVE  Works(c)
  <2> DEFINE e == [event EXCEPT !.call = call[c].trigger.call, !.intent = call[c].at]
             s == [call[c] EXCEPT !.pc = "get", !.next = next,
                                  !.pos = Len(Stream(c)) + 1]
  <2>1. /\ s.pc = "get" /\ s.at = call[c].at /\ s.actor = call[c].actor
        /\ s.trigger = call[c].trigger /\ s.next = next
        /\ s.pos = Len(Stream(c)) + 1
    BY <1>c DEF CallState
  <2>2. /\ e \in Events /\ e.intent = call[c].at /\ e.call = call[c].trigger.call
        /\ e.type = event.type /\ e.outcome = event.outcome
    BY <1>c DEF Events, CallState
  <2>a. call' = [call EXCEPT ![c] = s]
    BY <1>w DEF Write, Stream
  <2>4. stream' = [stream EXCEPT ![call[c].actor] = Append(@, e)]
    BY <1>w DEF Write, Append1
  <2>5. UNCHANGED <<cursor, cache, children, born, agentActor, snapshot, bounds, history>>
    BY <1>w DEF Write
  <2> HIDE DEF s, e
  <2>3. call'[c] = s /\ \A d \in CallIds \ {c} : call'[d] = call[d]
    BY <2>a, <1>t, MovedCall DEF CallsOK
  <2>6. Writes(c)
    BY <1>w, <2>1, <2>2, <2>3, <2>4, <2>5 DEF Writes, HoldsOn
  <2>7. QED
    BY <2>1, <2>3, <2>6 DEF Works
<1>7. CASE WriteDecision(c)
  <2> DEFINE event == [Event("DECISION") EXCEPT !.outcome = call[c].outcome]
             next == IF call[c].outcome = "APPROVED" THEN "run" ELSE "look"
  <2>1. event \in Events /\ event.type = "DECISION" /\ event.outcome = call[c].outcome
    BY <1>c DEF Event, Events, Types, CallState
  <2>2. At(c, "decide") /\ Write(c, event, next)
    BY <1>7 DEF WriteDecision
  <2>3. next \in {"look", "run"} /\ (next = "run" => call[c].outcome = "APPROVED")
    OBVIOUS
  <2> HIDE DEF event, next
  <2>4. QED
    BY <1>c, <1>i, <1>w, <2>1, <2>2, <2>3 DEF At
<1>8. CASE WriteEffect(c)
  <2>1. Event("EFFECT") \in Events /\ Event("EFFECT").type = "EFFECT"
    BY EventType DEF Event, Types
  <2>2. At(c, "effect") /\ Write(c, Event("EFFECT"), "look")
    BY <1>8 DEF WriteEffect
  <2>3. QED
    BY <1>c, <1>i, <1>w, <2>1, <2>2 DEF At
<1>9. CASE Get(c)
  <2>1. At(c, "get") /\ Silent
    BY <1>9 DEF Get, Silent, Quiet, history
  <2>2. CASE Raise(c) /\ call[c].pos \notin DOMAIN Stream(c)
    BY <1>i, <1>c, <1>t, <2>1, <2>2, RaiseMoves DEF Works, Fails, Silent, At
  <2>3. CASE Goto(c, "reduce") /\ call[c].pos \in DOMAIN Stream(c)
    BY <1>i, <1>c, <1>t, <2>1, <2>3, GotoMoves DEF Works, Gets, Labels
  <2>4. QED
    BY <1>9, <2>2, <2>3 DEF Get, Stream
<1>10. CASE RunTool(c)
  <2>1. /\ At(c, "run") /\ Quiet /\ UNCHANGED answer
        /\ ran' = [ran EXCEPT ![call[c].trigger.call] = @ + 1]
    BY <1>10 DEF RunTool, Quiet
  <2>2. CASE Raise(c) /\ ~Referable(c)
    BY <1>i, <1>c, <1>t, <2>1, <2>2, RaiseMoves
       DEF Works, Fails, At, Referable, Stream
  <2>3. CASE Goto(c, "effect") /\ Referable(c)
    BY <1>i, <1>c, <1>t, <2>1, <2>3, GotoMoves
       DEF Works, Runs, Labels, HoldsAll, Referable, Stream
  <2>4. QED
    BY <1>10, <2>2, <2>3 DEF RunTool
<1>11. CASE Reply(c)
  <2>1. At(c, "reply") /\ Quiet /\ UNCHANGED ran /\ Raise(c)
    BY <1>11 DEF Reply, Quiet
  <2>2. \/ UNCHANGED answer
        \/ /\ Stream(c) # << >> /\ Last(Stream(c)).type \in {"DECISION", "EFFECT"}
           /\ answer' = [answer EXCEPT ![c] = Last(Stream(c)).call]
    BY <1>11 DEF Reply, Stream
  <2>3. QED
    BY <1>i, <1>c, <1>t, <2>1, <2>2, RaiseMoves DEF Works, Replies
<1>12. CASE Cleanup(c)
  <2>a. call' = [call EXCEPT ![c] = Idle]
    BY <1>12 DEF Cleanup
  <2>1. call'[c] = Idle /\ \A d \in CallIds \ {c} : call'[d] = call[d]
    BY <2>a, <1>t, MovedCall DEF CallsOK
  <2>2. QED
    BY <1>c, <1>i, <1>12, <2>1, IdleFields DEF Works, Cleans, Cleanup
<1>13. QED
  BY <1>0, <1>1, <1>2, <1>3, <1>4, <1>5, <1>6, <1>7, <1>8, <1>9, <1>10, <1>11,
     <1>12, <1>c, <1>i DEF Step

-----------------------------------------------------------------------------
(***************************************************************************)
(* What the controller does, and the calls that come and go, told by what  *)
(* becomes of each actor.                                                  *)
(***************************************************************************)
Note(e) == e \in Events /\ e.type \in {"NOTE", "TERMINATED"}

\* Something that is no INTENT may be appended.
Noted(b) ==
  /\ \/ stream'[b] = stream[b]
     \/ Open(b) /\ \E e : Note(e) /\ stream'[b] = Append(stream[b], e)
  /\ cursor'[b] = cursor[b] /\ cache'[b] = cache[b] /\ folded'[b] = folded[b]

Restored(b) ==
  /\ Open(b) /\ stream'[b] = stream[b] /\ cursor'[b] = cursor[b]
  /\ cache'[b] \in snapshot[b] /\ folded'[b] = folded[b] /\ b \in rewound'

Replayed(b) ==
  /\ Open(b) /\ stream'[b] = stream[b] /\ cursor'[b] = Len(stream[b])
  /\ cache'[b] = DOMAIN stream[b] /\ folded'[b] = folded[b] \cup DOMAIN stream[b]
  /\ Reducing(b) = {} \/ b \in clashed'

Newborn(b) ==
  /\ b = born + 1 /\ born' = b /\ b \in Actors
  /\ \E e : Note(e) /\ stream'[b] = <<e>>
  /\ cursor'[b] = 1 /\ cache'[b] = {1} /\ folded'[b] = {1}

Forgotten(b) ==
  /\ stream'[b] = << >> /\ cursor'[b] = 0
  /\ Appenders(b) \subseteq disturbed'
  /\ b \in torn' \/ Appenders(b) = {}

OthersStay(c) == \A d \in CallIds \ {c} : call'[d] = call[d]

Arrives(c) ==
  LET a == call'[c].actor
  IN  /\ c = calls + 1 /\ calls' = c /\ OthersStay(c)
      /\ call'[c].pc = "ingest" /\ call'[c].trigger = Event("NOTE")
      /\ a \in Actors
      /\ Newborn(a) \/ (Open(a) /\ Noted(a))
      /\ c \notin disturbed' =>
           a \notin torn' /\ \A d \in CallIds \ {c} : call[d].actor # a
      /\ \A d \in CallIds \ {c} : call[d].actor = a => d \in disturbed'

Departs(c) ==
  /\ At(c, "cleanup") /\ call'[c].pc = "idle" /\ call'[c].actor = 0
  /\ call'[c].trigger = Event("NOTE")
  /\ OthersStay(c) /\ UNCHANGED calls /\ Forgotten(call[c].actor)

Environment ==
  /\ \A b \in Actors :
       \/ Noted(b) \/ Restored(b) \/ Replayed(b) \/ Newborn(b) \/ Forgotten(b)
  /\ \A b \in Actors : \/ snapshot'[b] = snapshot[b]
                       \/ cache[b] # {} /\ snapshot'[b] = {cache[b]}
  /\ \/ UNCHANGED <<call, calls>>
     \/ \E c \in CallIds : Arrives(c) \/ Departs(c)
  /\ born' = born \/ Newborn(born + 1)
  /\ torn \subseteq torn' /\ rewound \subseteq rewound'
  /\ disturbed \subseteq disturbed' /\ clashed \subseteq clashed'
  /\ \A b \in torn' \ torn : Forgotten(b) /\ Appenders(b) # {}
  /\ UNCHANGED <<ran, answer>>

\* Actors that do not exist have no stream.
Unborn == \A b \in Actors : born < b => stream[b] = << >>

LEMMA NoteEvent == Note(Event("NOTE")) /\ Note(Event("TERMINATED"))
BY EventType DEF Note, Event, Types

LEMMA StoreFacts ==
  ASSUME TypeOK
  PROVE  /\ stream \in [Actors -> Seq(Events)] /\ cursor \in [Actors -> Nat]
         /\ cache \in [Actors -> SUBSET Nat] /\ folded \in [Actors -> SUBSET Nat]
         /\ snapshot \in [Actors -> SUBSET SUBSET Nat]
         /\ born \in Nat /\ 1 .. born \subseteq Actors
         /\ CallsOK /\ StoreOK /\ HistoryOK /\ agentActor \in 0 .. born
<1>1. StoreOK /\ HistoryOK /\ CallsOK
  BY DEF TypeOK
<1>2. born \in {0} \cup Actors /\ agentActor \in 0 .. born
  BY <1>1 DEF StoreOK
<1>3. born \in Nat /\ 1 .. born \subseteq Actors
  BY <1>2, Bounds DEF Actors
<1>4. QED
  BY <1>1, <1>2, <1>3 DEF StoreOK, HistoryOK

\* A new actor.
LEMMA CreateSets ==
  ASSUME TypeOK, Unborn, NEW a, a = born + 1, Create(a),
         stream'[a] = <<Event("NOTE")>> \/ stream'[a] = Append(stream[a], Event("NOTE"))
  PROVE  /\ a \in Actors /\ Newborn(a) /\ UNCHANGED clashed
         /\ \A b \in Actors \ {a} :
              cursor'[b] = cursor[b] /\ cache'[b] = cache[b] /\ folded'[b] = folded[b]
<1>1. /\ a \in Actors /\ born' = a /\ UNCHANGED clashed
      /\ cursor' = [cursor EXCEPT ![a] = 1] /\ cache' = [cache EXCEPT ![a] = {1}]
      /\ folded' = [folded EXCEPT ![a] = {1}]
  BY DEF Create
<1>2. born < a
  BY StoreFacts
<1>3. stream[a] = << >>
  BY <1>1, <1>2 DEF Unborn
<1>4. stream'[a] = <<Event("NOTE")>>
  BY <1>3, NoteEvent DEF Note
<1>5. /\ cursor'[a] = 1 /\ cache'[a] = {1} /\ folded'[a] = {1}
      /\ \A b \in Actors \ {a} :
           cursor'[b] = cursor[b] /\ cache'[b] = cache[b] /\ folded'[b] = folded[b]
  BY <1>1, StoreFacts
<1>6. QED
  BY <1>1, <1>4, <1>5, NoteEvent DEF Newborn

LEMMA EnterArrives ==
  ASSUME TypeOK, NEW c \in CallIds, NEW a \in Actors,
         Enter(c, a, TRUE) \/ Enter(c, a, FALSE),
         Newborn(a) \/ (Open(a) /\ Noted(a))
  PROVE  Arrives(c) /\ disturbed \subseteq disturbed'
         /\ UNCHANGED <<ran, answer, rewound, torn, snapshot>>
<1>1. PICK own \in BOOLEAN : Enter(c, a, own)
  OBVIOUS
<1>2. PICK s : s = [Idle EXCEPT !.pc = "ingest", !.actor = a, !.own = own]
  OBVIOUS
<1>3. s.pc = "ingest" /\ s.actor = a /\ s.trigger = Event("NOTE")
  BY <1>2 DEF Idle
<1>4. call' = [call EXCEPT ![c] = s]
  BY <1>1, <1>2 DEF Enter
<1>5. call'[c] = s /\ OthersStay(c)
  BY <1>4, StoreFacts DEF CallsOK, OthersStay
<1>6. /\ c = calls + 1 /\ calls' = c /\ UNCHANGED <<ran, answer, rewound, torn, snapshot>>
      /\ disturbed' = IF Others(c, a) = {} /\ a \notin torn THEN disturbed
                      ELSE disturbed \cup {c} \cup Others(c, a)
  BY <1>1 DEF Enter
<1>7. /\ disturbed \subseteq disturbed'
      /\ c \notin disturbed' =>
           a \notin torn' /\ \A d \in CallIds \ {c} : call[d].actor # a
      /\ \A d \in CallIds \ {c} : call[d].actor = a => d \in disturbed'
  BY <1>6 DEF Others
<1>8. QED
  BY <1>3, <1>5, <1>6, <1>7 DEF Arrives

LEMMA ArrivalIsEnvironment ==
  ASSUME TypeOK, Unborn, NEW c \in CallIds, CallShared(c) \/ CallOneShot(c)
  PROVE  Environment
<1>1. CASE /\ agentActor # 0 /\ Open(agentActor)
           /\ Enter(c, agentActor, FALSE)
           /\ UNCHANGED <<stream, cursor, cache, born, agentActor, traces>>
  <2>1. agentActor \in Actors
    BY <1>1, StoreFacts
  <2>2. \A b \in Actors : Noted(b)
    BY <1>1 DEF Noted, traces
  <2>3. /\ Arrives(c) /\ disturbed \subseteq disturbed'
        /\ UNCHANGED <<ran, answer, rewound, torn, snapshot>>
    BY <1>1, <2>1, <2>2, EnterArrives
  <2>4. QED
    BY <1>1, <2>2, <2>3 DEF Environment, traces
<1>2. ASSUME NEW a, a = born + 1, Create(a), Append1(a, Event("NOTE")),
             Enter(c, a, TRUE) \/ Enter(c, a, FALSE)
      PROVE  Environment
  <2>1. a \in Actors
    BY <1>2 DEF Create
  <2>2. /\ stream'[a] = Append(stream[a], Event("NOTE"))
        /\ \A b \in Actors \ {a} : stream'[b] = stream[b]
    BY <1>2, <2>1, AppendType, NoteEvent, StoreFacts DEF Note
  <2>3. /\ Newborn(a) /\ UNCHANGED clashed
        /\ \A b \in Actors \ {a} :
             cursor'[b] = cursor[b] /\ cache'[b] = cache[b] /\ folded'[b] = folded[b]
    BY <1>2, <2>2, CreateSets
  <2>4. /\ Arrives(c) /\ disturbed \subseteq disturbed'
        /\ UNCHANGED <<ran, answer, rewound, torn, snapshot>>
    BY <1>2, <2>1, <2>3, EnterArrives
  <2>5. \A b \in Actors : Noted(b) \/ Newborn(b)
    BY <2>2, <2>3 DEF Noted
  <2>6. QED
    BY <1>2, <2>3, <2>4, <2>5 DEF Environment
<1>3. QED
  BY <1>1, <1>2 DEF CallShared, CallOneShot

LEMMA ForgetIsEnvironment ==
  ASSUME TypeOK, NEW a \in Actors, Forget(a),
         UNCHANGED <<snapshot, calls, ran, answer, rewound>>,
         Forgotten(a) => UNCHANGED call \/ \E c \in CallIds : Departs(c)
  PROVE  Environment
<1>1. /\ Forgotten(a)
      /\ \A b \in Actors \ {a} :
           UNCHANGED <<stream[b], cursor[b], cache[b], folded[b]>>
  BY StoreFacts DEF Forget, Forgotten
<1>2. \A b \in Actors : Noted(b) \/ Forgotten(b)
  BY <1>1 DEF Noted
<1>3. /\ torn \subseteq torn' /\ disturbed \subseteq disturbed'
      /\ UNCHANGED <<born, clashed>>
      /\ \A b \in torn' \ torn : b = a /\ Appenders(a) # {}
  BY DEF Forget
<1>4. QED
  BY <1>1, <1>2, <1>3 DEF Environment

LEMMA CleanupIsEnvironment ==
  ASSUME TypeOK, NEW c \in CallIds, Works(c), Cleans(c), call[c].actor \in Actors,
         call'[c] = Idle
  PROVE  Environment
<1>1. At(c, "cleanup") /\ call'[c].pc = "idle" /\ OthersStay(c) /\ UNCHANGED calls
  BY DEF Cleans, Works, OthersStay, bounds
<1>2. Idle.actor = 0 /\ Idle.trigger = Event("NOTE")
  BY Zenon DEF Idle
<1>3. Forgotten(call[c].actor) => Departs(c)
  BY <1>1, <1>2 DEF Departs
<1>4. QED
  BY <1>3, ForgetIsEnvironment DEF Cleans, bounds

LEMMA ControlIsEnvironment ==
  ASSUME TypeOK, Unborn, NEW a \in Actors,
         \/ Observe(a) \/ Terminate(a) \/ Archive(a) \/ Delegate(a) \/ Suspend(a)
         \/ \E depth \in 0 .. MaxDepth : Cancel(a, depth)
         \/ \E same \in BOOLEAN : Resume(a, same)
  PROVE  Environment
<1>1. UNCHANGED <<call, calls, ran, answer>> /\ a \in 1 .. born
  BY DEF Observe, Terminate, Archive, Delegate, Suspend, Cancel, Resume, Control
<1>2. CASE Observe(a) \/ Terminate(a)
  <2>1. PICK t \in {"NOTE", "TERMINATED"} : Append1(a, Event(t)) /\ Open(a)
    BY <1>2 DEF Observe, Terminate
  <2>2. /\ stream'[a] = Append(stream[a], Event(t))
        /\ \A b \in Actors \ {a} : stream'[b] = stream[b]
    BY <2>1, AppendType, NoteEvent, StoreFacts DEF Note
  <2>3. UNCHANGED <<cursor, cache, born, snapshot, disturbed, rewound, torn, folded, clashed>>
    BY <1>2 DEF Observe, Terminate, traces
  <2>4. \A b \in Actors : Noted(b)
    BY <2>1, <2>2, <2>3, NoteEvent DEF Noted
  <2>5. QED
    BY <1>1, <2>3, <2>4 DEF Environment
<1>3. CASE Archive(a)
  BY <1>1, <1>3, ForgetIsEnvironment DEF Archive
<1>4. CASE Delegate(a)
  <2>1. PICK child : child = born + 1
    OBVIOUS
  <2>2. /\ Open(a) /\ Create(child) /\ UNCHANGED <<snapshot, disturbed, rewound, torn>>
        /\ stream' = [stream EXCEPT ![a] = Append(@, Event("NOTE")),
                                    ![child] = <<Event("NOTE")>>]
    BY <1>4, <2>1 DEF Delegate
  <2>3. child \in Actors /\ child # a
    BY <1>1, <2>1, <2>2, StoreFacts DEF Create
  <2>4. /\ stream'[a] = Append(stream[a], Event("NOTE"))
        /\ stream'[child] = <<Event("NOTE")>>
        /\ \A b \in Actors \ {a, child} : stream'[b] = stream[b]
    BY <2>2, <2>3, StoreFacts
  <2>5. /\ Newborn(child) /\ UNCHANGED clashed
        /\ \A b \in Actors \ {child} :
             cursor'[b] = cursor[b] /\ cache'[b] = cache[b] /\ folded'[b] = folded[b]
    BY <2>1, <2>2, <2>4, CreateSets
  <2>6. \A b \in Actors : Noted(b) \/ Newborn(b)
    BY <2>2, <2>4, <2>5, NoteEvent DEF Noted
  <2>7. QED
    BY <1>1, <2>1, <2>2, <2>5, <2>6 DEF Environment
<1>5. ASSUME NEW depth \in 0 .. MaxDepth, Cancel(a, depth) PROVE Environment
  <2>1. PICK asked :
          stream' = [b \in Actors |-> IF b \in asked /\ Open(b)
                       THEN Append(stream[b], Event("NOTE")) ELSE stream[b]]
    BY <1>5 DEF Cancel
  <2>2. UNCHANGED <<cursor, cache, born, snapshot, disturbed, rewound, torn, folded, clashed>>
    BY <1>5 DEF Cancel, traces
  <2>3. \A b \in Actors : Noted(b)
    BY <2>1, <2>2, NoteEvent DEF Noted
  <2>4. QED
    BY <1>1, <2>2, <2>3 DEF Environment
<1>6. CASE Suspend(a)
  <2>1. /\ UNCHANGED <<stream, cursor, cache, born, disturbed, rewound, torn, folded, clashed>>
        /\ cache[a] # {} /\ snapshot' = [snapshot EXCEPT ![a] = {cache[a]}]
    BY <1>6 DEF Suspend, store, traces
  <2>2. \A b \in Actors : \/ snapshot'[b] = snapshot[b]
                          \/ cache[b] # {} /\ snapshot'[b] = {cache[b]}
    BY <2>1, StoreFacts
  <2>3. QED
    BY <1>1, <2>1, <2>2 DEF Environment, Noted
<1>7. ASSUME NEW same \in BOOLEAN, Resume(a, same) PROVE Environment
  <2>1. UNCHANGED <<stream, born, snapshot, disturbed, torn>> /\ Open(a) /\ snapshot[a] # {}
    BY <1>7 DEF Resume
  <2>2. CASE /\ cache' = [cache EXCEPT ![a] = CHOOSE s \in snapshot[a] : TRUE]
             /\ rewound' = rewound \cup {a} /\ UNCHANGED <<cursor, folded, clashed>>
    <3>1. PICK s : s = CHOOSE x \in snapshot[a] : TRUE
      OBVIOUS
    <3>2. s \in snapshot[a]
      BY <2>1, <3>1
    <3>3. cache'[a] = s /\ \A b \in Actors \ {a} : cache'[b] = cache[b]
      BY <2>2, <3>1, StoreFacts
    <3>4. \A b \in Actors : Noted(b) \/ Restored(b)
      BY <2>1, <2>2, <3>2, <3>3 DEF Noted, Restored
    <3>5. QED
      BY <1>1, <2>1, <2>2, <3>4 DEF Environment
  <2>3. CASE /\ cache' = [cache EXCEPT ![a] = DOMAIN stream[a]]
             /\ cursor' = [cursor EXCEPT ![a] = Len(stream[a])]
             /\ folded' = [folded EXCEPT ![a] = @ \cup DOMAIN stream[a]]
             /\ clashed' = IF Reducing(a) = {} THEN clashed ELSE clashed \cup {a}
             /\ UNCHANGED rewound
    <3>1. /\ cache'[a] = DOMAIN stream[a] /\ cursor'[a] = Len(stream[a])
          /\ folded'[a] = folded[a] \cup DOMAIN stream[a]
          /\ \A b \in Actors \ {a} :
               cursor'[b] = cursor[b] /\ cache'[b] = cache[b] /\ folded'[b] = folded[b]
      BY <2>3, StoreFacts
    <3>2. clashed \subseteq clashed' /\ (Reducing(a) = {} \/ a \in clashed')
      BY <2>3
    <3>3. \A b \in Actors : Noted(b) \/ Replayed(b)
      BY <2>1, <3>1, <3>2 DEF Noted, Replayed
    <3>4. QED
      BY <1>1, <2>1, <2>3, <3>2, <3>3 DEF Environment
  <2>4. QED
    BY <1>7, <2>2, <2>3 DEF Resume, traces
<1>8. QED
  BY <1>2, <1>3, <1>4, <1>5, <1>6, <1>7

LEMMA StepKinds ==
  ASSUME TypeOK, Unborn, [Next]_vars
  PROVE  \/ Environment
         \/ \E c \in CallIds :
              /\ Works(c) /\ ~Cleans(c) /\ ~At(c, "idle")
              /\ call[c] \in CallState /\ call[c].actor \in Actors
              /\ call[c].actor \in 1 .. born
<1>1. CASE UNCHANGED vars
  BY <1>1 DEF vars, store, bounds, history, traces, Environment, Noted
<1>2. ASSUME NEW c \in CallIds, Step(c), Cleans(c) PROVE Environment
  <2>1. Works(c) /\ call[c].actor \in Actors /\ At(c, "cleanup")
    BY <1>2, StepWorks DEF Cleans
  <2>2. Cleanup(c)
    BY <1>2, <2>1 DEF Step, At, Ingest, Look, Fetch, ReadState, WriteState, Advance,
       Check, WriteDecision, Get, RunTool, WriteEffect, Reply
  <2>3. call' = [call EXCEPT ![c] = Idle]
    BY <2>2 DEF Cleanup
  <2>4. call'[c] = Idle
    BY <2>3, StoreFacts DEF CallsOK
  <2>5. QED
    BY <1>2, <2>1, <2>4, CleanupIsEnvironment
<1>3. ASSUME NEW c \in CallIds, Step(c), ~Cleans(c)
      PROVE  /\ Works(c) /\ ~Cleans(c) /\ ~At(c, "idle")
             /\ call[c] \in CallState /\ call[c].actor \in Actors
             /\ call[c].actor \in 1 .. born
  BY <1>3, StepWorks
<1>4. QED
  BY <1>1, <1>2, <1>3, ArrivalIsEnvironment, ControlIsEnvironment DEF Next, Controller

-----------------------------------------------------------------------------
(***************************************************************************)
(* Approval, and where cursors and calls stand in the stream               *)
(***************************************************************************)
Approves(s, at) ==
  \E j \in DOMAIN s :
    s[j].type = "DECISION" /\ s[j].outcome = "APPROVED" /\ s[j].intent = at

Approved(a, at) == Approves(stream[a], at)

\* There, and not by an append that nobody expected.
Whole(a) == a \notin torn /\ stream[a] # << >>

\* Where a call holds the position of an event to reduce, or of its trigger.
Placed  == {"reduce", "store", "advance", "get"}
Working == Placed \cup {"fetch", "check", "decide", "run", "effect"}

CallSound(c) ==
  LET s == call[c]
  IN  /\ s.pc \in {"ingest", "decide", "effect"} /\ s.actor \notin torn =>
           stream[s.actor] # << >>
      /\ s.pc \in Working /\ Whole(s.actor) =>
           /\ s.at \in DOMAIN stream[s.actor]
           /\ s.pc \in Placed => s.pos \in DOMAIN stream[s.actor] /\ s.at <= s.pos
           /\ s.pc \in {"run", "effect"} \/ (s.pc \in Placed /\ s.next = "run") =>
                Approved(s.actor, s.at)

CallsSound == \A c \in CallIds : CallSound(c)

LogInv == Unborn /\ EffectsApproved /\ GhostsAreTorn /\ CallsSound

\* A stream is kept as it is, but for what is appended to it.
Extended(b) ==
  /\ stream[b] = << >> <=> stream'[b] = << >>
  /\ \A i \in DOMAIN stream[b] :
       i \in DOMAIN stream'[b] /\ stream'[b][i] = stream[b][i]

Vanished(b) == stream'[b] = << >> /\ Appenders(b) = {}

LEMMA AppendExtends ==
  ASSUME StoreOK, NEW b \in Actors, NEW e, stream'[b] = Append(stream[b], e),
         stream[b] # << >>
  PROVE  Extended(b)
<1>1. stream[b] \in Seq(Events)
  BY DEF StoreOK
<1>2. QED
  BY <1>1 DEF Extended

\* The steps that append, and that the others leave the streams alone.
LEMMA WorksAppends ==
  ASSUME TypeOK, CallsSound, NEW c \in CallIds, Works(c), ~Cleans(c),
         call[c].actor \in Actors
  PROVE  LET a == call[c].actor
         IN  /\ UNCHANGED <<torn, born, rewound, disturbed, snapshot, calls>>
             /\ \A b \in Actors \ {a} : stream'[b] = stream[b]
             /\ \A b \in Actors \ torn : Extended(b)
             /\ ~(Ingests(c) \/ Writes(c)) => UNCHANGED stream
             /\ Ingests(c) \/ Writes(c) =>
                  /\ a \notin torn => stream[a] # << >>
                  /\ \E e \in Events :
                       /\ stream'[a] = Append(stream[a], e)
                       /\ Ingests(c) => e.type = "INTENT" /\ e.call = c
                       /\ Writes(c) =>
                            /\ e.intent = call[c].at /\ e.call = call[c].trigger.call
                            /\ e.type = IF At(c, "decide") THEN "DECISION" ELSE "EFFECT"
                            /\ call'[c].next = "run" =>
                                 e.type = "DECISION" /\ e.outcome = "APPROVED"
<1> DEFINE a == call[c].actor
<1>1. /\ UNCHANGED <<torn, born, rewound, disturbed, snapshot, calls>>
      /\ ~(Ingests(c) \/ Writes(c)) => UNCHANGED stream
  BY DEF Works, Ingests, Looks, Drains, Fetches, Reads, Stores, Advances, Checks,
         Writes, Gets, Runs, Replies, Fails, Silent, Quiet, store, bounds, history
<1>2. CASE Ingests(c) \/ Writes(c)
  <2>1. call[c].pc \in {"ingest", "decide", "effect"} /\ ~(Ingests(c) /\ Writes(c))
    BY <1>2 DEF Ingests, Writes, At
  <2>2. PICK e \in Events :
          /\ stream' = [stream EXCEPT ![a] = Append(@, e)]
          /\ Ingests(c) => e.type = "INTENT" /\ e.call = c
          /\ Writes(c) => /\ e.intent = call[c].at /\ e.call = call[c].trigger.call
                          /\ e.type = IF At(c, "decide") THEN "DECISION" ELSE "EFFECT"
                          /\ call'[c].next = "run" =>
                               e.type = "DECISION" /\ e.outcome = "APPROVED"
    <3>1. CASE Ingests(c)
      BY <2>1, <3>1 DEF Ingests
    <3>2. CASE Writes(c)
      BY <2>1, <3>2 DEF Writes
    <3>3. QED
      BY <1>2, <3>1, <3>2
  <2>3. /\ stream'[a] = Append(stream[a], e)
        /\ \A b \in Actors \ {a} : stream'[b] = stream[b]
    BY <2>2, StoreFacts
  <2>4. a \notin torn => stream[a] # << >>
    BY <2>1 DEF CallsSound, CallSound
  <2>5. ASSUME NEW b \in Actors \ torn PROVE Extended(b)
    <3>1. CASE b = a
      BY <2>3, <2>4, <3>1, StoreFacts, AppendExtends
    <3>2. CASE b # a
      BY <2>3, <3>2 DEF Extended
    <3>3. QED
      BY <3>1, <3>2
  <2>6. QED
    BY <1>1, <1>2, <2>2, <2>3, <2>4, <2>5
<1>3. CASE ~(Ingests(c) \/ Writes(c))
  BY <1>1, <1>3 DEF Extended
<1>4. QED
  BY <1>2, <1>3

\* A stream to which nothing but a note was appended.
LEMMA NotedStream ==
  ASSUME TypeOK, NEW b \in Actors, Noted(b) \/ Restored(b) \/ Replayed(b)
  PROVE  /\ Extended(b) /\ stream[b] \in Seq(Events) /\ stream'[b] \in Seq(Events)
         /\ \A i \in DOMAIN stream'[b] :
              \/ i \in DOMAIN stream[b] /\ stream'[b][i] = stream[b][i]
              \/ i = Len(stream[b]) + 1 /\ Note(stream'[b][i])
<1>1. stream[b] \in Seq(Events)
  BY StoreFacts
<1>2. CASE stream'[b] = stream[b]
  BY <1>1, <1>2 DEF Extended
<1>3. ASSUME Open(b), NEW e, Note(e), stream'[b] = Append(stream[b], e)
      PROVE  /\ Extended(b) /\ stream'[b] \in Seq(Events)
             /\ \A i \in DOMAIN stream'[b] :
                  \/ i \in DOMAIN stream[b] /\ stream'[b][i] = stream[b][i]
                  \/ i = Len(stream[b]) + 1 /\ Note(stream'[b][i])
  <2>1. e \in Events /\ stream[b] # << >>
    BY <1>3 DEF Note, Open
  <2>2. Extended(b)
    BY <1>3, <2>1, AppendExtends, StoreFacts
  <2>3. QED
    BY <1>1, <1>3, <2>1, <2>2
<1>4. QED
  BY <1>1, <1>2, <1>3 DEF Noted, Restored, Replayed

LEMMA NewbornStream ==
  ASSUME NEW b, Newborn(b)
  PROVE  /\ stream'[b] # << >> /\ DOMAIN stream'[b] = {1} /\ Note(stream'[b][1])
         /\ cursor'[b] = 1 /\ cache'[b] = {1} /\ folded'[b] = {1}
BY DEF Newborn, Note

\* Calls stand on actors that exist.
LEMMA CallActor ==
  ASSUME TypeOK, NEW c \in CallIds, call[c].pc # "idle"
  PROVE  /\ call[c] \in CallState /\ call[c].actor \in Actors
         /\ call[c].actor \in 1 .. born
         /\ \A b \in Actors : Newborn(b) => b # call[c].actor
<1>1. call[c] \in CallState /\ call[c].actor \in 1 .. born
  BY DEF TypeOK, CallsOK
<1>2. QED
  BY <1>1, StoreFacts DEF Newborn

\* What the environment leaves of an actor.
LEMMA EnvironmentStream ==
  ASSUME TypeOK, Environment, NEW b \in Actors, b \notin torn'
  PROVE  \/ Noted(b) \/ Restored(b) \/ Replayed(b)
         \/ Newborn(b)
         \/ Vanished(b) /\ cursor'[b] = 0
BY DEF Environment, Forgotten, Vanished

LEMMA EnvironmentKeeps ==
  ASSUME TypeOK, Environment, NEW c \in CallIds, call[c].pc # "idle",
         call[c].actor \notin torn'
  PROVE  Extended(call[c].actor) \/ Vanished(call[c].actor)
BY CallActor, EnvironmentStream, NotedStream

\* Where calls are after such a step.
LEMMA EnvironmentCalls ==
  ASSUME Environment, NEW d \in CallIds
  PROVE  call'[d] = call[d] \/ Arrives(d) \/ Departs(d)
BY DEF Environment, Arrives, Departs, OthersStay

\* What is claimed of a call that rests stays.
LEMMA SoundStays ==
  ASSUME NEW c \in CallIds, CallSound(c), call'[c] = call[c], torn \subseteq torn',
         call[c].pc # "idle" /\ call[c].actor \notin torn' =>
           Extended(call[c].actor) \/ Vanished(call[c].actor)
  PROVE  CallSound(c)'
<1> DEFINE a == call[c].actor
<1>1. CASE a \in torn' \/ call[c].pc = "idle"
  BY <1>1 DEF CallSound, Whole, Working, Placed
<1>2. CASE a \notin torn' /\ Extended(a)
  <2>1. Approved(a, call[c].at) => Approved(a, call[c].at)'
    BY <1>2 DEF Approved, Approves, Extended
  <2>2. Whole(a)' => Whole(a)
    BY <1>2 DEF Whole, Extended
  <2>3. QED
    BY <1>2, <2>1, <2>2 DEF CallSound, Extended
<1>3. CASE a \notin torn' /\ Vanished(a)
  <2>1. c \notin Appenders(a)
    BY <1>3 DEF Vanished
  <2>2. call[c].pc \notin {"ingest", "decide", "effect"}
    BY <2>1 DEF Appenders
  <2>3. QED
    BY <1>3, <2>2 DEF CallSound, Whole, Vanished
<1>4. QED
  BY <1>1, <1>2, <1>3

LEMMA EnvironmentSound ==
  ASSUME TypeOK, LogInv, Environment
  PROVE  LogInv'
<1>1. torn \subseteq torn' /\ born \in Nat
  BY StoreFacts DEF Environment
<1>2. Unborn'
  <2> SUFFICES ASSUME NEW b \in Actors, born' < b PROVE stream'[b] = << >>
    BY DEF Unborn
  <2>1. b \in Nat /\ born < b /\ stream[b] = << >>
    BY <1>1, Bounds DEF LogInv, Unborn, Environment, Newborn
  <2>2. CASE Noted(b) \/ Restored(b) \/ Replayed(b)
    BY <2>1, <2>2 DEF Noted, Restored, Replayed, Open
  <2>3. ~Newborn(b)
    BY <2>1 DEF Newborn
  <2>4. QED
    BY <2>2, <2>3 DEF Environment, Forgotten
<1>3. EffectsApproved'
  <2> SUFFICES ASSUME NEW a \in Actors \ torn', NEW i \in DOMAIN stream'[a],
                      stream'[a][i].type = "EFFECT"
               PROVE  \E j \in 1 .. i - 1 :
                        /\ stream'[a][j].type = "DECISION"
                        /\ stream'[a][j].outcome = "APPROVED"
                        /\ stream'[a][j].intent = stream'[a][i].intent
    BY DEF EffectsApproved
  <2>1. CASE Noted(a) \/ Restored(a) \/ Replayed(a)
    <3>1. /\ i \in DOMAIN stream[a] /\ stream'[a][i] = stream[a][i]
          /\ stream[a] \in Seq(Events) /\ Extended(a)
      BY <2>1, NotedStream DEF Note
    <3>2. PICK j \in 1 .. i - 1 :
            /\ stream[a][j].type = "DECISION" /\ stream[a][j].outcome = "APPROVED"
            /\ stream[a][j].intent = stream[a][i].intent
      BY <1>1, <3>1 DEF LogInv, EffectsApproved
    <3>3. j \in DOMAIN stream[a]
      BY <3>1
    <3>4. stream'[a][j] = stream[a][j]
      BY <3>1, <3>3 DEF Extended
    <3>5. QED
      BY <3>1, <3>2, <3>4
  <2>2. CASE Newborn(a)
    BY <2>2, NewbornStream DEF Note
  <2>3. CASE Vanished(a)
    BY <2>3 DEF Vanished
  <2>4. QED
    BY <2>1, <2>2, <2>3, EnvironmentStream
<1>4. GhostsAreTorn'
  <2> SUFFICES ASSUME NEW a \in Actors \ torn', stream'[a] # << >>
               PROVE  cursor'[a] \in DOMAIN stream'[a]
    BY DEF GhostsAreTorn
  <2>1. CASE Noted(a) \/ Restored(a)
    <3>1. Extended(a) /\ cursor'[a] = cursor[a]
      BY <2>1, NotedStream DEF Noted, Restored
    <3>2. QED
      BY <1>1, <3>1 DEF LogInv, GhostsAreTorn, Extended
  <2>2. CASE Replayed(a)
    <3>1. stream[a] \in Seq(Events) /\ stream'[a] = stream[a] /\ stream[a] # << >>
          /\ cursor'[a] = Len(stream[a])
      BY <2>2, NotedStream DEF Replayed, Open
    <3>2. QED
      BY <3>1
  <2>3. CASE Newborn(a)
    BY <2>3, NewbornStream
  <2>4. QED
    BY <2>1, <2>2, <2>3, EnvironmentStream DEF Vanished
<1>5. CallsSound'
  <2> SUFFICES ASSUME NEW d \in CallIds PROVE CallSound(d)'
    BY DEF CallsSound
  <2>1. CASE call'[d] = call[d]
    BY <1>1, <2>1, SoundStays, EnvironmentKeeps DEF LogInv, CallsSound
  <2>2. CASE Arrives(d)
    <3>1. call'[d].pc = "ingest" /\ stream'[call'[d].actor] # << >>
      BY <2>2, NewbornStream, NotedStream DEF Arrives, Open, Extended
    <3>2. QED
      BY <3>1 DEF CallSound, Working, Placed
  <2>3. CASE Departs(d)
    BY <2>3 DEF Departs, CallSound, Working, Placed
  <2>4. QED
    BY <2>1, <2>2, <2>3, EnvironmentCalls
<1>6. QED
  BY <1>2, <1>3, <1>4, <1>5 DEF LogInv

LEMMA WorksSound ==
  ASSUME TypeOK, LogInv, NEW c \in CallIds, Works(c), ~Cleans(c), ~At(c, "idle"),
         call[c] \in CallState, call[c].actor \in Actors, call[c].actor \in 1 .. born
  PROVE  LogInv'
<1> DEFINE a == call[c].actor
<1>1. /\ CallsSound /\ CallSound(c) /\ stream[a] \in Seq(Events)
      /\ born \in Nat /\ born' = born
  BY StoreFacts, WorksAppends DEF LogInv, CallsSound
<1>2. /\ UNCHANGED torn
      /\ \A b \in Actors \ {a} : stream'[b] = stream[b]
      /\ \A b \in Actors \ torn : Extended(b)
  BY <1>1, WorksAppends
<1>3. Unborn'
  <2> SUFFICES ASSUME NEW b \in Actors, born < b PROVE stream'[b] = << >>
    BY <1>1 DEF Unborn
  <2>1. b # a /\ stream[b] = << >>
    BY <1>1, Bounds DEF LogInv, Unborn
  <2>2. QED
    BY <1>2, <2>1
\* An EFFECT is written by a call whose INTENT was approved.
<1>4. EffectsApproved'
  <2> SUFFICES ASSUME NEW b \in Actors \ torn, NEW i \in DOMAIN stream'[b],
                      stream'[b][i].type = "EFFECT"
               PROVE  \E j \in 1 .. i - 1 :
                        /\ stream'[b][j].type = "DECISION"
                        /\ stream'[b][j].outcome = "APPROVED"
                        /\ stream'[b][j].intent = stream'[b][i].intent
    BY <1>2 DEF EffectsApproved
  <2>1. stream[b] \in Seq(Events) /\ Extended(b)
    BY <1>2, StoreFacts
  <2>2. CASE i \in DOMAIN stream[b]
    <3>1. PICK j \in 1 .. i - 1 :
            /\ stream[b][j].type = "DECISION" /\ stream[b][j].outcome = "APPROVED"
            /\ stream[b][j].intent = stream[b][i].intent
      BY <2>1, <2>2 DEF LogInv, EffectsApproved, Extended
    <3>2. j \in DOMAIN stream[b]
      BY <2>1, <2>2
    <3>3. stream'[b][j] = stream[b][j] /\ stream'[b][i] = stream[b][i]
      BY <2>1, <2>2, <3>2 DEF Extended
    <3>4. QED
      BY <3>1, <3>3
  <2>3. CASE i \notin DOMAIN stream[b]
    <3>1. stream'[b] # stream[b]
      BY <2>3
    <3>2. b = a /\ (Ingests(c) \/ Writes(c)) /\ stream[a] # << >>
      BY <1>1, <1>2, <3>1, WorksAppends
    <3>3. PICK e \in Events :
            /\ stream'[a] = Append(stream[a], e)
            /\ Ingests(c) => e.type = "INTENT"
            /\ Writes(c) =>
                 /\ e.intent = call[c].at
                 /\ e.type = IF At(c, "decide") THEN "DECISION" ELSE "EFFECT"
      BY <1>1, <3>2, WorksAppends
    <3>4. i = Len(stream[a]) + 1 /\ stream'[a][i] = e
      BY <1>1, <2>3, <3>2, <3>3
    <3>5. At(c, "effect") /\ e.intent = call[c].at
      BY <3>2, <3>3, <3>4 DEF Writes, At
    <3>6. Approved(a, call[c].at)
      BY <1>1, <3>2, <3>5 DEF CallSound, Whole, At, Working
    <3>7. PICK j \in DOMAIN stream[a] :
            /\ stream[a][j].type = "DECISION" /\ stream[a][j].outcome = "APPROVED"
            /\ stream[a][j].intent = call[c].at
      BY <3>6 DEF Approved, Approves
    <3>8. j \in 1 .. i - 1 /\ stream'[a][j] = stream[a][j]
      BY <1>1, <2>1, <3>2, <3>4, <3>7 DEF Extended
    <3>9. QED
      BY <3>2, <3>4, <3>5, <3>7, <3>8
  <2>4. QED
    BY <2>2, <2>3
<1>5. GhostsAreTorn'
  <2> SUFFICES ASSUME NEW b \in Actors \ torn, stream'[b] # << >>
               PROVE  cursor'[b] \in DOMAIN stream'[b]
    BY <1>2 DEF GhostsAreTorn
  <2>1. Extended(b) /\ cursor[b] \in DOMAIN stream[b]
    BY <1>2 DEF LogInv, GhostsAreTorn, Extended
  <2>2. CASE cursor'[b] = cursor[b]
    BY <2>1, <2>2 DEF Extended
  <2>3. CASE cursor'[b] # cursor[b]
    <3>1. Advances(c)
      BY <2>3 DEF Works, Ingests, Looks, Drains, Fetches, Reads, Stores, Checks,
         Writes, Gets, Runs, Replies, Fails, Silent, Quiet, store
    <3>2. b = a /\ cursor'[a] = call[c].pos
      BY <2>3, <3>1, StoreFacts DEF Advances
    <3>3. call[c].pos \in DOMAIN stream[a]
      BY <1>1, <2>1, <3>1, <3>2 DEF Advances, At, CallSound, Whole, Working, Placed, Extended
    <3>4. QED
      BY <2>1, <3>2, <3>3 DEF Extended
  <2>4. QED
    BY <2>2, <2>3
<1>6. ASSUME NEW d \in CallIds \ {c} PROVE CallSound(d)'
  <2>1. call'[d] = call[d] /\ CallSound(d)
    BY <1>1 DEF Works, CallsSound
  <2>2. call[d].pc # "idle" => call[d].actor \in Actors
    BY CallActor
  <2>3. QED
    BY <1>2, <2>1, <2>2, SoundStays
\* The call itself.
<1>7. CallSound(c)'
  <2>s. ASSUME stream'[a] # << >>, a \notin torn
        PROVE  /\ Whole(a) /\ Extended(a) /\ cursor[a] \in DOMAIN stream[a]
    <3>1. Extended(a)
      BY <1>2, <2>s
    <3>2. Whole(a) /\ cursor[a] \in DOMAIN stream[a]
      BY <2>s, <3>1 DEF Whole, Extended, LogInv, GhostsAreTorn
    <3>3. QED
      BY <3>1, <3>2
  <2>a. ASSUME NEW n, Approved(a, n), a \notin torn PROVE Approves(stream'[a], n)
    BY <1>2, <2>a DEF Approved, Approves, Extended
  <2>1. CASE Ingests(c) \/ Drains(c) \/ Replies(c) \/ Fails(c)
    BY <2>1 DEF Ingests, Drains, Replies, Fails, CallSound, Working, Placed
  <2>2. CASE Looks(c)
    <3>1. /\ call'[c].pc = "fetch" /\ call'[c].actor = a /\ call'[c].at = cursor[a]
      BY <2>2 DEF Looks
    <3>2. QED
      BY <2>s, <1>2, <3>1 DEF CallSound, Working, Placed, Whole, Extended
  <2>3. CASE Fetches(c)
    <3>1. /\ call'[c].pc = "reduce" /\ call'[c].actor = a
          /\ call'[c].at \in DOMAIN stream[a] /\ call'[c].pos = call'[c].at
          /\ call'[c].next # "run" /\ call'[c].at \in Nat
      BY <1>1, <2>3 DEF Fetches, Stream
    <3>2. QED
      BY <2>s, <1>2, <3>1 DEF CallSound, Placed, Whole, Extended
  <2>4. CASE Reads(c) \/ Stores(c) \/ Gets(c)
    <3>1. /\ call'[c].pc \in Placed /\ call[c].pc \in Placed /\ HoldsAll(c)
          /\ call'[c].pc \notin {"ingest", "decide", "effect", "run"}
          /\ Gets(c) => call[c].pos \in DOMAIN stream[a]
      BY <2>4 DEF Reads, Stores, Gets, At, Placed, Stream
    <3>2. QED
      BY <1>1, <2>s, <2>a, <1>2, <3>1
      DEF CallSound, Approved, HoldsAll, HoldsOn, Placed, Working, Whole, Extended
  <2>5. CASE Advances(c)
    <3>1. /\ call[c].pc = "advance" /\ call'[c].pc = call[c].next /\ call'[c].actor = a
          /\ call[c].next \in {"look", "check", "run", "reply"}
          /\ call[c].next \in {"check", "run"} => HoldsAll(c)
      BY <2>5 DEF Advances, At, CallState
    <3>2. QED
      BY <1>1, <2>s, <2>a, <1>2, <3>1
      DEF CallSound, Approved, HoldsAll, HoldsOn, Placed, Working, Whole, Extended
  <2>6. CASE Checks(c) \/ Runs(c)
    <3>1. /\ call[c].pc \in {"check", "run"} /\ call'[c].pc \in {"decide", "effect"}
          /\ call'[c].pc = "effect" => call[c].pc = "run"
          /\ HoldsOn(c) /\ call[c].at \in DOMAIN stream[a]
      BY <2>6 DEF Checks, Runs, At, Stream
    <3>2. a \notin torn => stream'[a] # << >>
      BY <1>1, <1>2, <3>1 DEF Extended
    <3>3. QED
      BY <1>1, <2>s, <2>a, <1>2, <3>1, <3>2
      DEF CallSound, Approved, HoldsOn, Placed, Working, Whole, Extended
  <2>7. CASE Writes(c)
    <3>1. /\ call[c].pc \in {"decide", "effect"} /\ call'[c].pc = "get" /\ HoldsOn(c)
          /\ call'[c].pos = Len(stream[a]) + 1
      BY <2>7 DEF Writes, Stream
    <3>2. PICK e \in Events :
            /\ stream'[a] = Append(stream[a], e)
            /\ call'[c].next = "run" =>
                 e.type = "DECISION" /\ e.outcome = "APPROVED" /\ e.intent = call[c].at
      BY <1>1, <2>7, WorksAppends
    <3>3. /\ call'[c].pos \in DOMAIN stream'[a]
          /\ stream'[a][call'[c].pos] = e
      BY <1>1, <3>1, <3>2
    <3>4. call'[c].next = "run" => Approves(stream'[a], call[c].at)
      BY <3>2, <3>3 DEF Approves
    <3>5. a \notin torn /\ stream'[a] # << >> => call[c].at \in DOMAIN stream'[a]
      BY <1>1, <2>s, <3>1 DEF CallSound, Working, Whole, Extended
    <3>6. call[c].at \in DOMAIN stream[a] => call[c].at <= call'[c].pos
      BY <1>1, <3>1
    <3>7. Whole(a) => call[c].at \in DOMAIN stream[a]
      BY <1>1, <3>1 DEF CallSound, Working
    <3>8. a \notin torn /\ stream'[a] # << >> => Whole(a)
      BY <2>s
    <3>9. QED
      BY <1>2, <3>1, <3>3, <3>4, <3>5, <3>6, <3>7, <3>8
      DEF CallSound, HoldsOn, Placed, Approved, Whole
  <2>8. QED
    BY <2>1, <2>2, <2>3, <2>4, <2>5, <2>6, <2>7 DEF Works
<1>8. QED
  BY <1>3, <1>4, <1>5, <1>6, <1>7 DEF LogInv, CallsSound

LEMMA LogInit == Init => LogInv
<1> SUFFICES ASSUME Init PROVE LogInv
  OBVIOUS
<1>1. Unborn /\ EffectsApproved /\ GhostsAreTorn
  BY DEF Init, Unborn, EffectsApproved, GhostsAreTorn
<1>2. \A c \in CallIds : call[c].pc = "idle"
  BY IdleFields DEF Init
<1>3. CallsSound
  BY <1>2 DEF CallsSound, CallSound, Working, Placed
<1>4. QED
  BY <1>1, <1>3 DEF LogInv

LEMMA LogStep == TypeOK /\ LogInv /\ [Next]_vars => LogInv'
BY StepKinds, EnvironmentSound, WorksSound DEF LogInv

\* The log and the calls under way agree in every state that is reached.
THEOREM LogHolds == Spec => [](TypeOK /\ LogInv)
<1>1. Init => TypeOK /\ LogInv
  BY TypeInit, LogInit
<1>2. TypeOK /\ LogInv /\ [Next]_vars => (TypeOK /\ LogInv)'
  BY TypeStep, LogStep
<1>3. QED
  BY <1>1, <1>2, PTL DEF Spec

\* No tool runs without approval, whatever calls and controls interleave
\* (Executor.execute over Runtime.step): every EFFECT follows an APPROVED
\* DECISION about its INTENT.
THEOREM EffectsAreApproved == Spec => []EffectsApproved
<1>1. TypeOK /\ LogInv => EffectsApproved
  BY DEF LogInv
<1>2. QED
  BY <1>1, LogHolds, PTL

\* The log stays well typed, and no cursor stands outside the stream of an
\* actor that was not forgotten in the middle of an append (Runtime._cursors).
THEOREM LogStaysSound == Spec => []LogSound
<1>1. TypeOK /\ LogInv => LogSound
  BY DEF LogInv, LogSound
<1>2. QED
  BY <1>1, LogHolds, PTL

-----------------------------------------------------------------------------
(***************************************************************************)
(* What the cursor passes                                                  *)
(***************************************************************************)
\* Where f was reduced of a stream s, a cursor at n has passed event i.
Passes(f, s, i, n) ==
  \/ i \in f
  \/ \E j \in i + 1 .. n :
       j \in DOMAIN s /\ s[j].type \in {"DECISION", "EFFECT"} /\ s[j].intent < i

Covered(a, n)      == \A i \in 1 .. n : Passes(folded[a], stream[a], i, n)
CoveredBelow(a, n) == \A i \in 1 .. n - 1 : Passes(folded[a], stream[a], i, n)

\* No reductions overlapped and no snapshot was put back.
Kept(a) == a \notin clashed \cup rewound

CoverSound(c) ==
  LET s == call[c]
  IN  /\ s.pc \in Working =>
           (s.pc \in Placed /\ s.pos = s.at) \/ Covered(s.actor, s.at)
      /\ s.pc \in Placed => CoveredBelow(s.actor, s.pos)
      /\ s.pc = "advance" => Covered(s.actor, s.pos)
      /\ s.pc = "store" =>
           s.pos \in s.state /\ (Kept(s.actor) => folded[s.actor] \subseteq s.state)

ActorCovered(a) ==
  /\ Covered(a, cursor[a]) /\ folded[a] \subseteq DOMAIN stream[a]
  /\ Kept(a) => folded[a] \subseteq cache[a]

SkipInv ==
  /\ \A a \in Actors : Whole(a) => ActorCovered(a)
  /\ \A c \in CallIds : call[c].pc # "idle" /\ Whole(call[c].actor) => CoverSound(c)
  /\ \A c, d \in CallIds :
       At(c, "store") /\ At(d, "store") /\ call[c].actor = call[d].actor =>
         c = d \/ call[c].actor \in clashed

\* An actor goes on from where it was.
Grown(b) == Extended(b) /\ folded[b] \subseteq folded'[b]

LEMMA PassesStays ==
  ASSUME NEW b \in Actors, Grown(b), NEW i \in Nat, NEW n \in Nat, NEW m \in Nat, n <= m,
         Passes(folded[b], stream[b], i, n)
  PROVE  Passes(folded'[b], stream'[b], i, m)
<1>1. CASE i \in folded[b]
  BY <1>1 DEF Passes, Grown
<1>2. CASE i \notin folded[b]
  <2>1. PICK j \in i + 1 .. n :
          /\ j \in DOMAIN stream[b] /\ stream[b][j].type \in {"DECISION", "EFFECT"}
          /\ stream[b][j].intent < i
    BY <1>2 DEF Passes
  <2>2. j \in i + 1 .. m /\ j \in DOMAIN stream'[b] /\ stream'[b][j] = stream[b][j]
    BY <2>1 DEF Grown, Extended
  <2>3. QED
    BY <2>1, <2>2 DEF Passes
<1>3. QED
  BY <1>1, <1>2

LEMMA CoveredStays ==
  ASSUME NEW b \in Actors, Grown(b), NEW n \in Nat
  PROVE  /\ Covered(b, n) =>
              \A i \in 1 .. n : Passes(folded'[b], stream'[b], i, n)
         /\ CoveredBelow(b, n) =>
              \A i \in 1 .. n - 1 : Passes(folded'[b], stream'[b], i, n)
BY PassesStays DEF Covered, CoveredBelow

\* What each kind of step leaves alone.
LEMMA WorksLeaves ==
  ASSUME TypeOK, NEW c \in CallIds, Works(c), ~Cleans(c), call[c].actor \in Actors
  PROVE  /\ ~Stores(c) => UNCHANGED <<cache, folded>>
         /\ ~Advances(c) => UNCHANGED cursor
         /\ ~Reads(c) => UNCHANGED clashed
         /\ clashed \subseteq clashed' /\ UNCHANGED rewound
         /\ ~Replies(c) => UNCHANGED answer
         /\ \A b \in Actors \ {call[c].actor} :
              UNCHANGED <<cursor[b], cache[b], folded[b]>>
         /\ \A b \in Actors : folded[b] \subseteq folded'[b]
<1>1. /\ ~Stores(c) => UNCHANGED <<cache, folded>>
      /\ ~Advances(c) => UNCHANGED cursor
      /\ ~Reads(c) => UNCHANGED clashed
      /\ UNCHANGED rewound
      /\ ~Replies(c) => UNCHANGED answer
  BY DEF Works, Ingests, Looks, Drains, Fetches, Reads, Stores, Advances, Checks,
         Writes, Gets, Runs, Replies, Fails, Silent, Quiet, store, history, traces
<1>2. clashed \subseteq clashed'
  BY <1>1 DEF Reads
<1>3. ~(Stores(c) /\ Advances(c))
  BY DEF Stores, Advances, At
<1>4. /\ \A b \in Actors \ {call[c].actor} :
           UNCHANGED <<cursor[b], cache[b], folded[b]>>
      /\ \A b \in Actors : folded[b] \subseteq folded'[b]
  <2>1. CASE Stores(c)
    BY <1>1, <1>3, <2>1, StoreFacts DEF Stores
  <2>2. CASE Advances(c)
    BY <1>1, <1>3, <2>2, StoreFacts DEF Advances
  <2>3. QED
    BY <1>1, <2>1, <2>2
<1>5. QED
  BY <1>1, <1>2, <1>4

\* The numbers that a call holds.
LEMMA CallNumbers ==
  ASSUME NEW c, call[c] \in CallState
  PROVE  call[c].at \in Nat /\ call[c].pos \in Nat
BY DEF CallState

\* What is claimed of a call that rests stays.
LEMMA CoverRests ==
  ASSUME NEW c \in CallIds, CoverSound(c), call'[c] = call[c], call[c] \in CallState,
         call[c].actor \in Actors, Grown(call[c].actor),
         Kept(call[c].actor)' => Kept(call[c].actor),
         At(c, "store") /\ Kept(call[c].actor)' =>
           folded'[call[c].actor] = folded[call[c].actor]
  PROVE  CoverSound(c)'
<1> DEFINE a == call[c].actor
<1>1. PICK at \in Nat, pos \in Nat : at = call[c].at /\ pos = call[c].pos
  BY CallNumbers
<1>2. Covered(a, at) => Covered(a, call[c].at)'
  BY <1>1, CoveredStays DEF Covered
<1>3. /\ CoveredBelow(a, pos) => CoveredBelow(a, call[c].pos)'
      /\ Covered(a, pos) => Covered(a, call[c].pos)'
  BY <1>1, CoveredStays DEF Covered, CoveredBelow
<1>4. QED
  BY <1>1, <1>2, <1>3 DEF CoverSound, At

LEMMA EnvironmentCovers ==
  ASSUME TypeOK, LogInv, SkipInv, Environment
  PROVE  SkipInv'
<1>1. \A b \in Actors : Kept(b)' => Kept(b)
  BY DEF Environment, Kept
<1>2. ASSUME NEW b \in Actors, Noted(b) \/ Restored(b) \/ Replayed(b)
      PROVE  Grown(b) /\ (b \notin torn' /\ stream'[b] # << >> => Whole(b))
  <2>1. Extended(b) /\ torn \subseteq torn'
    BY <1>2, NotedStream DEF Environment
  <2>2. folded[b] \subseteq folded'[b]
    BY <1>2 DEF Noted, Restored, Replayed
  <2>3. QED
    BY <2>1, <2>2 DEF Grown, Whole, Extended
<1>3. ASSUME NEW a \in Actors, Whole(a)' PROVE ActorCovered(a)'
  <2>0. a \notin torn' /\ stream'[a] # << >>
    BY <1>3 DEF Whole
  <2>1. CASE Noted(a) \/ Restored(a)
    <3>1. Grown(a) /\ Whole(a) /\ ActorCovered(a)
      BY <1>2, <2>0, <2>1 DEF SkipInv
    <3>2. cursor'[a] = cursor[a] /\ folded'[a] = folded[a] /\ cursor[a] \in Nat
      BY <2>1, StoreFacts DEF Noted, Restored
    <3>3. Covered(a, cursor[a])'
      BY <3>1, <3>2, CoveredStays DEF Covered, ActorCovered
    <3>4. folded'[a] \subseteq DOMAIN stream'[a]
      BY <3>1, <3>2 DEF ActorCovered, Grown, Extended
    <3>5. Kept(a)' => folded'[a] \subseteq cache'[a]
      BY <1>1, <2>1, <3>1, <3>2 DEF ActorCovered, Noted, Restored, Kept
    <3>6. QED
      BY <3>3, <3>4, <3>5 DEF ActorCovered
  <2>2. CASE Replayed(a)
    <3>1. Whole(a) /\ folded[a] \subseteq DOMAIN stream[a] /\ stream[a] \in Seq(Events)
      BY <1>2, <2>0, <2>2, StoreFacts DEF SkipInv, ActorCovered
    <3>2. /\ folded'[a] = DOMAIN stream[a] /\ cache'[a] = DOMAIN stream[a]
          /\ stream'[a] = stream[a] /\ cursor'[a] = Len(stream[a])
      BY <2>2, <3>1 DEF Replayed
    <3>3. Covered(a, cursor[a])'
      BY <3>1, <3>2 DEF Covered, Passes
    <3>4. QED
      BY <3>2, <3>3 DEF ActorCovered
  <2>3. CASE Newborn(a)
    <3>1. cursor'[a] = 1 /\ cache'[a] = {1} /\ folded'[a] = {1} /\ DOMAIN stream'[a] = {1}
      BY <2>3, NewbornStream
    <3>2. QED
      BY <3>1 DEF ActorCovered, Covered, Passes
  <2>4. QED
    BY <2>0, <2>1, <2>2, <2>3, EnvironmentStream DEF Vanished
<1>4. ASSUME NEW c \in CallIds, call'[c].pc # "idle", Whole(call[c].actor)'
      PROVE  CoverSound(c)'
  <2>1. CASE call'[c] = call[c]
    <3>1. /\ call[c] \in CallState /\ call[c].actor \in Actors /\ ~Newborn(call[c].actor)
      BY <1>4, <2>1, CallActor
    <3>2. call[c].actor \notin torn' /\ stream'[call[c].actor] # << >>
      BY <1>4, <2>1 DEF Whole
    <3>3. Noted(call[c].actor) \/ Restored(call[c].actor) \/ Replayed(call[c].actor)
      BY <3>1, <3>2, EnvironmentStream DEF Vanished
    <3>4. Grown(call[c].actor) /\ Whole(call[c].actor)
      BY <1>2, <3>1, <3>2, <3>3
    <3>5. CoverSound(c)
      BY <1>4, <2>1, <3>4 DEF SkipInv
    <3>6. At(c, "store") /\ call[c].actor \notin clashed' =>
            folded'[call[c].actor] = folded[call[c].actor]
      BY <3>3 DEF Noted, Restored, Replayed, Reducing
    <3>7. call[c].actor \notin clashed' \cup rewound' => Kept(call[c].actor)
      BY DEF Environment, Kept
    <3>8. QED
      BY <2>1, <3>1, <3>4, <3>5, <3>6, <3>7, CoverRests DEF Kept
  <2>2. CASE call'[c].pc = "ingest"
    BY <2>2 DEF CoverSound, Working, Placed
  <2>3. QED
    BY <1>4, <2>1, <2>2, EnvironmentCalls DEF Arrives, Departs
<1>5. ASSUME NEW c \in CallIds, NEW d \in CallIds, At(c, "store")', At(d, "store")',
             call'[c].actor = call'[d].actor
      PROVE  c = d \/ call'[c].actor \in clashed'
  <2>1. call'[c] = call[c] /\ call'[d] = call[d]
    BY <1>5, EnvironmentCalls DEF Arrives, Departs, At
  <2>2. QED
    BY <1>5, <2>1 DEF SkipInv, At, Environment
<1>6. QED
  BY <1>3, <1>4, <1>5 DEF SkipInv

LEMMA WorksCovers ==
  ASSUME TypeOK, LogInv, SkipInv, NEW c \in CallIds, Works(c), ~Cleans(c), ~At(c, "idle"),
         call[c] \in CallState, call[c].actor \in Actors
  PROVE  SkipInv'
<1> PICK a \in Actors : a = call[c].actor
  OBVIOUS
<1>1. /\ CallsSound /\ CallSound(c) /\ UNCHANGED <<torn, rewound>>
      /\ \A b \in Actors \ torn : Grown(b)
      /\ clashed \subseteq clashed'
  BY WorksAppends, WorksLeaves DEF LogInv, CallsSound, Grown
<1>2. \A b \in Actors : Kept(b)' => Kept(b)
  BY <1>1 DEF Kept
<1>3. \A b \in Actors : b \notin torn /\ stream'[b] # << >> => Whole(b)
  BY <1>1 DEF Whole, Grown, Extended
<1>4. PICK at \in Nat, pos \in Nat : at = call[c].at /\ pos = call[c].pos
  BY CallNumbers
<1>5. ASSUME Whole(a)
      PROVE  CoverSound(c) /\ ActorCovered(a) /\ Grown(a) /\ stream[a] \in Seq(Events)
  BY <1>1, <1>5, StoreFacts DEF SkipInv, At, Whole
\* The actors.
<1>6. ASSUME NEW b \in Actors, Whole(b)' PROVE ActorCovered(b)'
  <2>1. Whole(b) /\ ActorCovered(b) /\ Grown(b) /\ cursor[b] \in Nat
    BY <1>1, <1>3, <1>6, StoreFacts DEF Whole, SkipInv
  <2>2. Covered(b, cursor[b])'
    <3>1. CASE cursor'[b] = cursor[b]
      BY <2>1, <3>1, CoveredStays DEF Covered, ActorCovered
    <3>2. CASE cursor'[b] # cursor[b]
      <4>1. b = a /\ Advances(c)
        BY <3>2, WorksLeaves
      <4>2. cursor'[a] = pos /\ At(c, "advance")
        BY <1>4, <4>1, StoreFacts DEF Advances
      <4>3. Covered(a, pos)
        BY <1>4, <1>5, <2>1, <4>1, <4>2 DEF CoverSound, At
      <4>4. QED
        BY <2>1, <4>1, <4>2, <4>3, CoveredStays DEF Covered
    <3>3. QED
      BY <3>1, <3>2
  <2>3. CASE folded'[b] = folded[b] /\ cache'[b] = cache[b]
    <3>1. folded'[b] \subseteq DOMAIN stream'[b]
      BY <2>1, <2>3 DEF ActorCovered, Grown, Extended
    <3>2. Kept(b)' => folded'[b] \subseteq cache'[b]
      BY <1>2, <2>1, <2>3 DEF ActorCovered
    <3>3. QED
      BY <2>2, <3>1, <3>2 DEF ActorCovered
  <2>4. CASE ~(folded'[b] = folded[b] /\ cache'[b] = cache[b])
    <3>1. b = a /\ Stores(c)
      BY <2>4, WorksLeaves
    <3>2. /\ cache'[a] = call[c].state /\ folded'[a] = folded[a] \cup {pos}
          /\ At(c, "store") /\ UNCHANGED clashed
      BY <1>4, <3>1, StoreFacts DEF Stores
    <3>3. pos \in DOMAIN stream[a]
      BY <1>1, <1>4, <2>1, <3>1, <3>2 DEF CallSound, Working, Placed, At
    <3>4. folded'[a] \subseteq DOMAIN stream'[a]
      BY <2>1, <3>1, <3>2, <3>3 DEF ActorCovered, Grown, Extended
    <3>5. Kept(a)' => folded'[a] \subseteq cache'[a]
      BY <1>2, <1>4, <1>5, <2>1, <3>1, <3>2 DEF CoverSound, At
    <3>6. QED
      BY <2>2, <3>1, <3>4, <3>5 DEF ActorCovered
  <2>5. QED
    BY <2>3, <2>4
\* The other calls.
<1>7. ASSUME NEW d \in CallIds \ {c}, call'[d].pc # "idle", Whole(call[d].actor)'
      PROVE  CoverSound(d)'
  <2>1. call'[d] = call[d]
    BY DEF Works
  <2>2. call[d] \in CallState /\ call[d].actor \in Actors
    BY <1>7, <2>1, CallActor
  <2>3. Whole(call[d].actor) /\ Grown(call[d].actor)
    BY <1>1, <1>3, <1>7, <2>1, <2>2 DEF Whole
  <2>4. CoverSound(d)
    BY <1>7, <2>1, <2>3 DEF SkipInv
  <2>5. call[d].actor \notin clashed' \cup rewound' => Kept(call[d].actor)
    BY <1>1 DEF Kept
  <2>6. At(d, "store") /\ call[d].actor \notin clashed' =>
          folded'[call[d].actor] = folded[call[d].actor]
    <3>1. CASE folded'[call[d].actor] = folded[call[d].actor]
      BY <3>1
    <3>2. CASE folded'[call[d].actor] # folded[call[d].actor]
      <4>1. call[d].actor = a /\ Stores(c)
        BY <2>2, <3>2, WorksLeaves
      <4>2. At(d, "store") => a \in clashed
        BY <4>1 DEF SkipInv, Stores
      <4>3. QED
        BY <1>1, <4>1, <4>2
    <3>3. QED
      BY <3>1, <3>2
  <2>7. QED
    BY <2>1, <2>2, <2>3, <2>4, <2>5, <2>6, CoverRests DEF Kept
\* The call itself.
<1>8. ASSUME call'[c].pc # "idle", Whole(call[c].actor)' PROVE CoverSound(c)'
  <2>1. call'[c].actor = a
    BY <1>8 DEF Works
  <2>2. /\ Whole(a) /\ CoverSound(c) /\ ActorCovered(a) /\ Grown(a)
        /\ stream[a] \in Seq(Events) /\ cursor[a] \in Nat
    BY <1>1, <1>3, <1>5, <1>8, <2>1, StoreFacts DEF Whole
  <2>3. ASSUME NEW n \in Nat
        PROVE  /\ Covered(a, n) =>
                    \A i \in 1 .. n : Passes(folded'[a], stream'[a], i, n)
               /\ CoveredBelow(a, n) =>
                    \A i \in 1 .. n - 1 : Passes(folded'[a], stream'[a], i, n)
    BY <2>2, CoveredStays
  <2>4. CASE Ingests(c) \/ Drains(c) \/ Replies(c) \/ Fails(c)
    BY <2>4 DEF Ingests, Drains, Replies, Fails, CoverSound, Working, Placed
  <2>5. CASE Looks(c)
    <3>1. call'[c].pc = "fetch" /\ call'[c].at = cursor[a]
      BY <2>5 DEF Looks
    <3>2. \A i \in 1 .. cursor[a] : Passes(folded'[a], stream'[a], i, cursor[a])
      BY <2>2, <2>3 DEF ActorCovered
    <3>3. QED
      BY <2>1, <3>1, <3>2 DEF CoverSound, Working, Placed, Covered
  <2>6. CASE Fetches(c)
    <3>1. /\ call'[c].pc = "reduce" /\ call'[c].at = at + 1 /\ call'[c].pos = at + 1
          /\ At(c, "fetch")
      BY <1>4, <2>6 DEF Fetches
    <3>2. Covered(a, at)
      BY <1>4, <2>2, <3>1 DEF CoverSound, Working, Placed, At
    <3>3. ASSUME NEW i \in 1 .. at PROVE Passes(folded'[a], stream'[a], i, at + 1)
      <4>1. Passes(folded[a], stream[a], i, at) /\ i \in Nat
        BY <3>2 DEF Covered
      <4>2. PICK m \in Nat : m = at + 1 /\ at <= m
        OBVIOUS
      <4>3. Passes(folded'[a], stream'[a], i, m)
        BY <2>2, <4>1, <4>2, PassesStays
      <4>4. QED
        BY <4>2, <4>3
    <3>4. QED
      BY <2>1, <3>1, <3>3 DEF CoverSound, CoveredBelow, Placed
  <2>7. CASE Reads(c)
    <3>1. /\ call'[c].pc = "store" /\ call'[c].at = at /\ call'[c].pos = pos
          /\ call[c].pc = "reduce" /\ call'[c].state = cache[a] \cup {pos}
      BY <1>4, <2>7 DEF Reads, HoldsAll, HoldsOn, At
    <3>2. (pos = at \/ Covered(a, at)) /\ CoveredBelow(a, pos)
      BY <1>4, <2>2, <3>1 DEF CoverSound, Working, Placed
    <3>3. folded'[a] = folded[a] /\ (Kept(a)' => folded[a] \subseteq cache[a])
      BY <1>2, <2>2, <2>7 DEF ActorCovered, Reads
    <3>4. QED
      BY <2>1, <2>3, <3>1, <3>2, <3>3
      DEF CoverSound, Working, Placed, Covered, CoveredBelow
  <2>8. CASE Stores(c)
    <3>1. /\ call'[c].pc = "advance" /\ call'[c].at = at /\ call'[c].pos = pos
          /\ call[c].pc = "store" /\ pos \in folded'[a]
      BY <1>4, <2>8, StoreFacts DEF Stores, HoldsAll, HoldsOn, At
    <3>2. (pos = at \/ Covered(a, at)) /\ CoveredBelow(a, pos)
      BY <1>4, <2>2, <3>1 DEF CoverSound, Working, Placed
    <3>3. \A i \in 1 .. pos : Passes(folded'[a], stream'[a], i, pos)
      BY <2>3, <3>1, <3>2 DEF Passes
    <3>4. QED
      BY <2>1, <2>3, <3>1, <3>2, <3>3
      DEF CoverSound, Working, Placed, Covered, CoveredBelow
  <2>9. CASE Advances(c)
    <3>1. /\ call[c].pc = "advance" /\ call'[c].pc = call[c].next
          /\ call[c].next \in {"look", "check", "run", "reply"}
          /\ call[c].next \in {"check", "run"} => call'[c].at = at
      BY <1>4, <2>9 DEF Advances, At, CallState, HoldsAll, HoldsOn
    <3>2. (pos = at \/ Covered(a, at)) /\ Covered(a, pos)
      BY <1>4, <2>2, <3>1 DEF CoverSound, Working, Placed
    <3>3. \A i \in 1 .. at : Passes(folded'[a], stream'[a], i, at)
      BY <2>3, <3>2
    <3>4. QED
      BY <2>1, <3>1, <3>3 DEF CoverSound, Working, Placed, Covered
  <2>10. CASE Checks(c) \/ Runs(c)
    <3>1. /\ call[c].pc \in {"check", "run"} /\ call'[c].pc \in {"decide", "effect"}
          /\ call'[c].at = at
      BY <1>4, <2>10 DEF Checks, Runs, At, HoldsOn
    <3>2. Covered(a, at)
      BY <1>4, <2>2, <3>1 DEF CoverSound, Working, Placed
    <3>3. QED
      BY <2>1, <2>3, <3>1, <3>2 DEF CoverSound, Working, Placed, Covered
\* Whatever was appended since the INTENT is behind it.
  <2>11. CASE Writes(c)
    <3>1. /\ call[c].pc \in {"decide", "effect"} /\ call'[c].pc = "get"
          /\ call'[c].at = at /\ call'[c].pos = Len(stream[a]) + 1
      BY <1>4, <2>11 DEF Writes, HoldsOn, Stream
    <3>2. Covered(a, at)
      BY <1>4, <2>2, <3>1 DEF CoverSound, Working, Placed
    <3>3. PICK e \in Events :
            /\ stream'[a] = Append(stream[a], e) /\ e.intent = at
            /\ e.type \in {"DECISION", "EFFECT"}
      BY <1>1, <1>4, <2>11, WorksAppends
    <3>4. PICK n \in Nat : n = Len(stream[a]) + 1
      BY <2>2
    <3>5. n \in DOMAIN stream'[a] /\ stream'[a][n] = e
      BY <2>2, <3>3, <3>4
    <3>6. ASSUME NEW i \in 1 .. n - 1 PROVE Passes(folded'[a], stream'[a], i, n)
      <4>1. CASE i <= at
        <5>1. at <= n
          BY <1>1, <1>4, <2>2, <3>1, <3>4 DEF CallSound, Working
        <5>2. QED
          BY <2>2, <3>2, <4>1, <5>1, PassesStays DEF Covered
      <4>2. CASE at < i
        <5>1. n \in i + 1 .. n /\ stream'[a][n].intent < i
              /\ stream'[a][n].type \in {"DECISION", "EFFECT"}
          BY <3>3, <3>5, <4>2
        <5>2. QED
          BY <3>5, <5>1 DEF Passes
      <4>3. QED
        BY <4>1, <4>2
    <3>7. QED
      BY <2>1, <2>3, <3>1, <3>2, <3>4, <3>6
      DEF CoverSound, Working, Placed, Covered, CoveredBelow
  <2>12. CASE Gets(c)
    <3>1. /\ call'[c].pc = "reduce" /\ call'[c].at = at /\ call'[c].pos = pos
          /\ call[c].pc = "get"
      BY <1>4, <2>12 DEF Gets, HoldsAll, HoldsOn, At
    <3>2. (pos = at \/ Covered(a, at)) /\ CoveredBelow(a, pos)
      BY <1>4, <2>2, <3>1 DEF CoverSound, Working, Placed
    <3>3. QED
      BY <2>1, <2>3, <3>1, <3>2 DEF CoverSound, Working, Placed, Covered, CoveredBelow
  <2>13. QED
    BY <2>4, <2>5, <2>6, <2>7, <2>8, <2>9, <2>10, <2>11, <2>12 DEF Works
\* Two reductions at a time.
<1>9. ASSUME NEW d \in CallIds, NEW e \in CallIds, At(d, "store")', At(e, "store")',
             call'[d].actor = call'[e].actor, d # e
      PROVE  call'[d].actor \in clashed'
  <2>1. ASSUME NEW f \in CallIds, NEW g \in CallIds, f # g, g # c, At(f, "store")',
               At(g, "store")', call'[f].actor = call'[g].actor
        PROVE  call'[f].actor \in clashed'
    <3>1. call'[g] = call[g]
      BY <2>1 DEF Works
    <3>2. CASE f # c
      <4>1. call'[f] = call[f]
        BY <3>2 DEF Works
      <4>2. QED
        BY <1>1, <2>1, <3>1, <4>1 DEF SkipInv, At
    <3>3. CASE f = c
      <4>1. Reads(c)
        BY <2>1, <3>3 DEF Works, Ingests, Looks, Drains, Fetches, Stores, Advances,
           Checks, Writes, Gets, Runs, Replies, Fails, At, CallState
      <4>2. call'[c].actor = a /\ call[g].actor = a /\ call[g].pc = "store"
        BY <2>1, <3>1, <3>3, <4>1 DEF Reads, HoldsAll, HoldsOn, At
      <4>3. Reducing(a) # {}
        BY <4>2 DEF Reducing, At
      <4>4. QED
        BY <3>3, <4>1, <4>2, <4>3 DEF Reads
    <3>4. QED
      BY <3>2, <3>3
  <2>2. QED
    BY <1>9, <2>1
<1>10. QED
  BY <1>6, <1>7, <1>8, <1>9 DEF SkipInv

LEMMA SkipInit == Init => SkipInv
<1> SUFFICES ASSUME Init PROVE SkipInv
  OBVIOUS
<1>1. \A a \in Actors : ~Whole(a)
  BY DEF Init, Whole
<1>2. \A c \in CallIds : call[c].pc = "idle"
  BY IdleFields DEF Init
<1>3. QED
  BY <1>1, <1>2 DEF SkipInv, At

\* However the accesses of overlapping calls interleave, and whichever state
\* and cursor is written last (Runtime._reduce_and_advance): the cursor passes
\* an event only if it was reduced, or was queued between an INTENT and what the
\* step over it wrote; and what was reduced is in the cached state, unless two
\* reductions overlapped or a snapshot was put back.
THEOREM JumpsAreAccounted == Spec => []SkipsAreQueued
<1>1. TypeOK /\ LogInv /\ SkipInv /\ [Next]_vars => SkipInv'
  BY StepKinds, EnvironmentCovers, WorksCovers DEF LogInv
<1>2. ASSUME TypeOK, SkipInv PROVE SkipsAreQueued
  <2> SUFFICES ASSUME NEW a \in Actors \ torn, stream[a] # << >>, NEW i \in 1 .. cursor[a]
               PROVE  \/ i \in cache[a]
                      \/ i \in folded[a] /\ a \in clashed \cup rewound
                      \/ \E j \in i + 1 .. cursor[a] :
                           /\ stream[a][j].type \in {"DECISION", "EFFECT"}
                           /\ stream[a][j].intent < i
    BY DEF SkipsAreQueued
  <2>1. ActorCovered(a) /\ Whole(a)
    BY <1>2 DEF SkipInv, Whole
  <2>2. Passes(folded[a], stream[a], i, cursor[a])
    BY <2>1 DEF ActorCovered, Covered
  <2>3. QED
    BY <2>1, <2>2 DEF Passes, ActorCovered, Kept
<1>3. QED
  BY <1>1, <1>2, SkipInit, LogHolds, PTL DEF Spec

-----------------------------------------------------------------------------
(***************************************************************************)
(* No INTENT is left behind: as long as the actor has not ended, whoever   *)
(* moved the cursor last goes on with the event after it.                  *)
(***************************************************************************)
Busy == Working \cup {"ingest", "look"}

\* Has yet to look at what is beyond the cursor of b.
Watches(c, b) ==
  /\ call[c].actor = b /\ call[c].pc \in Busy
  /\ call[c].pc = "fetch" => call[c].at <= cursor[b]

NoneAhead(b, n) == \A i \in DOMAIN stream[b] : i > n => stream[b][i].type # "INTENT"

Drained(b) == NoneAhead(b, cursor[b]) \/ \E c \in CallIds : Watches(c, b)

StatesKept ==
  /\ \A b \in Actors : {} \notin snapshot[b] /\ (Whole(b) => cache[b] # {})
  /\ \A c \in CallIds : At(c, "store") => call[c].state # {}

EndsKept ==
  \A c \in CallIds :
    call[c].pc \in Placed /\ call[c].next = "reply" /\ Whole(call[c].actor) =>
      Has(call[c].actor, "TERMINATED")

DrainInv ==
  /\ \A c \in CallIds : c > calls => call[c].pc = "idle"
  /\ StatesKept /\ EndsKept
  /\ \A b \in Actors : Whole(b) /\ ~Has(b, "TERMINATED") => Drained(b)

LEMMA EndStays ==
  ASSUME NEW b, Extended(b), Has(b, "TERMINATED")
  PROVE  Has(b, "TERMINATED")'
BY DEF Has, Extended

\* What matters of a stream does not change with a note.
LEMMA NotesAdd ==
  ASSUME TypeOK, NEW b \in Actors, Noted(b) \/ Restored(b) \/ Replayed(b)
  PROVE  /\ Extended(b)
         /\ \A i \in DOMAIN stream'[b] :
              stream'[b][i].type \in {"INTENT", "DECISION", "EFFECT"} =>
                i \in DOMAIN stream[b] /\ stream'[b][i] = stream[b][i]
BY NotedStream DEF Note

LEMMA EnvironmentDrains ==
  ASSUME TypeOK, LogInv, DrainInv, Environment
  PROVE  DrainInv'
<1>t. torn \subseteq torn'
  BY DEF Environment
<1>1. ASSUME NEW c \in CallIds, c > calls' PROVE call'[c].pc = "idle"
  <2>1. calls \in Nat
    BY StoreFacts DEF HistoryOK
  <2>2. CASE call'[c] = call[c]
    <3>1. c > calls
      BY <1>1, <2>1, Bounds DEF Environment, Arrives, Departs
    <3>2. QED
      BY <2>2, <3>1 DEF DrainInv
  <2>3. CASE Arrives(c)
    BY <1>1, <2>1, <2>3 DEF Arrives
  <2>4. QED
    BY <2>2, <2>3, EnvironmentCalls DEF Departs
<1>2. StatesKept'
  <2>1. ASSUME NEW b \in Actors
        PROVE  {} \notin snapshot'[b] /\ (Whole(b)' => cache'[b] # {})
    <3>1. {} \notin snapshot[b] /\ (Whole(b) => cache[b] # {})
      BY DEF DrainInv, StatesKept
    <3>2. {} \notin snapshot'[b]
      BY <3>1 DEF Environment
    <3>3. ASSUME b \notin torn', stream'[b] # << >> PROVE cache'[b] # {}
      <4>1. CASE Noted(b)
        BY <1>t, <3>1, <3>3, <4>1, NotedStream DEF Noted, Whole, Extended
      <4>2. CASE Restored(b)
        BY <3>1, <4>2 DEF Restored
      <4>3. CASE Replayed(b)
        <5>1. stream[b] \in Seq(Events) /\ stream[b] # << >> /\ cache'[b] = DOMAIN stream[b]
          BY <4>3, StoreFacts DEF Replayed, Open
        <5>2. Len(stream[b]) \in DOMAIN stream[b]
          BY <5>1
        <5>3. QED
          BY <5>1, <5>2
      <4>4. CASE Newborn(b)
        BY <4>4 DEF Newborn
      <4>5. QED
        BY <3>3, <4>1, <4>2, <4>3, <4>4, EnvironmentStream DEF Vanished
    <3>4. QED
      BY <3>2, <3>3 DEF Whole
  <2>2. ASSUME NEW c \in CallIds, call'[c].pc = "store" PROVE call'[c].state # {}
    <3>1. call'[c] = call[c]
      BY <2>2, EnvironmentCalls DEF Arrives, Departs
    <3>2. QED
      BY <2>2, <3>1 DEF DrainInv, StatesKept, At
  <2>3. QED
    BY <2>1, <2>2 DEF StatesKept, At
<1>3. EndsKept'
  <2> SUFFICES ASSUME NEW c \in CallIds, call'[c].pc \in Placed, call'[c].next = "reply",
                      call'[c].actor \notin torn', stream'[call'[c].actor] # << >>
               PROVE  Has(call[c].actor, "TERMINATED")'
    BY DEF EndsKept, Whole, Placed
  <2>1. call'[c] = call[c] /\ call[c].pc # "idle"
    BY EnvironmentCalls DEF Arrives, Departs, Placed
  <2>2. Extended(call[c].actor)
    BY <2>1, EnvironmentKeeps DEF Vanished
  <2>3. Has(call[c].actor, "TERMINATED")
    BY <1>t, <2>1, <2>2 DEF DrainInv, EndsKept, Whole, Extended
  <2>4. PICK a : a = call[c].actor
    OBVIOUS
  <2>5. Has(a, "TERMINATED")'
    BY <2>2, <2>3, <2>4, EndStays
  <2>6. QED
    BY <2>1, <2>4, <2>5
<1>4. ASSUME NEW b \in Actors, Whole(b)', ~Has(b, "TERMINATED")' PROVE Drained(b)'
  <2>0. b \notin torn' /\ stream'[b] # << >>
    BY <1>4 DEF Whole
  <2>1. CASE Noted(b) \/ Restored(b)
    <3>1. /\ Extended(b) /\ cursor'[b] = cursor[b]
          /\ \A i \in DOMAIN stream'[b] :
               stream'[b][i].type = "INTENT" =>
                 i \in DOMAIN stream[b] /\ stream'[b][i] = stream[b][i]
      BY <2>1, NotesAdd DEF Noted, Restored
    <3>2. Whole(b) /\ ~Has(b, "TERMINATED")
      BY <1>t, <1>4, <2>0, <3>1, EndStays DEF Whole, Extended
    <3>3. CASE NoneAhead(b, cursor[b])
      BY <3>1, <3>3 DEF NoneAhead, Drained
    <3>4. ASSUME NEW c \in CallIds, Watches(c, b) PROVE Watches(c, b)'
      <4>1. call[c].pc # "idle" /\ call[c].pc # "cleanup"
        BY <3>4 DEF Watches, Busy, Working, Placed
      <4>2. ~Arrives(c)
        BY <4>1, StoreFacts, Bounds DEF Arrives, DrainInv, HistoryOK
      <4>3. call'[c] = call[c]
        BY <4>1, <4>2, EnvironmentCalls DEF Departs, At
      <4>4. QED
        BY <3>1, <3>4, <4>3 DEF Watches
    <3>5. QED
      BY <3>2, <3>3, <3>4 DEF DrainInv, Drained
  <2>2. CASE Replayed(b)
    <3>1. stream[b] \in Seq(Events) /\ stream'[b] = stream[b] /\ cursor'[b] = Len(stream[b])
      BY <2>2, StoreFacts DEF Replayed
    <3>2. \A i \in DOMAIN stream'[b] : ~(i > cursor'[b])
      BY <3>1
    <3>3. QED
      BY <3>2 DEF Drained, NoneAhead
  <2>3. CASE Newborn(b)
    BY <2>3, NewbornStream DEF Drained, NoneAhead, Note
  <2>4. QED
    BY <2>0, <2>1, <2>2, <2>3, EnvironmentStream DEF Vanished
<1>5. QED
  BY <1>1, <1>2, <1>3, <1>4 DEF DrainInv

\* Where a step may fail, the stream is gone or has ended.
LEMMA FailsAtEnd ==
  ASSUME TypeOK, LogInv, DrainInv, NEW c \in CallIds, Fails(c),
         call[c].actor \in Actors, Whole(call[c].actor)
  PROVE  Has(call[c].actor, "TERMINATED")
<1> DEFINE a == call[c].actor
<1>1. /\ stream[a] # << >> /\ cursor[a] \in DOMAIN stream[a] /\ stream[a] \in Seq(Events)
      /\ cache[a] # {}
  BY StoreFacts DEF Whole, LogInv, GhostsAreTorn, DrainInv, StatesKept
<1>2. cursor[a] # 0
  BY <1>1
<1>3. /\ call[c].pc \in Working => call[c].at \in DOMAIN stream[a]
      /\ call[c].pc \in Placed => call[c].pos \in DOMAIN stream[a]
  <2>1. CallSound(c)
    BY DEF LogInv, CallsSound
  <2>2. QED
    BY <2>1 DEF CallSound, Working
<1>4. At(c, "fetch") /\ stream[a][call[c].at].type = "TERMINATED"
  BY <1>1, <1>2, <1>3 DEF Fails, Stream, At, Working, Placed
<1>5. QED
  BY <1>3, <1>4 DEF Has, At, Working

LEMMA WorksDrains ==
  ASSUME TypeOK, LogInv, DrainInv, NEW c \in CallIds, Works(c), ~Cleans(c), ~At(c, "idle"),
         call[c] \in CallState, call[c].actor \in Actors
  PROVE  DrainInv'
<1> PICK a \in Actors : a = call[c].actor
  OBVIOUS
<1>1. /\ CallsSound /\ CallSound(c) /\ UNCHANGED <<torn, snapshot, calls>>
      /\ \A b \in Actors \ torn : Extended(b)
      /\ \A b \in Actors \ {a} : stream'[b] = stream[b] /\ cursor'[b] = cursor[b]
      /\ ~Advances(c) => UNCHANGED cursor
      /\ ~(Ingests(c) \/ Writes(c)) => UNCHANGED stream
  BY WorksAppends, WorksLeaves DEF LogInv, CallsSound
<1>2. \A d \in CallIds \ {c} : call'[d] = call[d]
  BY DEF Works
<1>3. \A b \in Actors : b \notin torn /\ stream'[b] # << >> => Whole(b)
  BY <1>1 DEF Whole, Extended
<1>4. ASSUME NEW d \in CallIds, d > calls' PROVE call'[d].pc = "idle"
  <2>1. d > calls /\ call[d].pc = "idle"
    BY <1>1, <1>4 DEF DrainInv
  <2>2. QED
    BY <1>2, <2>1 DEF At
<1>5. StatesKept'
  <2>1. ASSUME NEW b \in Actors, b \notin torn, stream'[b] # << >> PROVE cache'[b] # {}
    <3>1. cache[b] # {}
      BY <1>3, <2>1 DEF DrainInv, StatesKept
    <3>2. CASE cache'[b] = cache[b]
      BY <3>1, <3>2
    <3>3. CASE cache'[b] # cache[b]
      <4>1. b = a /\ Stores(c)
        BY <3>3, WorksLeaves
      <4>2. cache'[a] = call[c].state /\ At(c, "store")
        BY <4>1, StoreFacts DEF Stores
      <4>3. QED
        BY <4>1, <4>2 DEF DrainInv, StatesKept
    <3>4. QED
      BY <3>2, <3>3
  <2>2. ASSUME NEW d \in CallIds, call'[d].pc = "store" PROVE call'[d].state # {}
    <3>1. CASE d # c
      BY <1>2, <2>2, <3>1 DEF DrainInv, StatesKept, At
    <3>2. CASE d = c
      <4>1. Reads(c)
        BY <2>2, <3>2 DEF Works, Ingests, Looks, Drains, Fetches, Stores, Advances,
           Checks, Writes, Gets, Runs, Replies, Fails, At, CallState
      <4>2. QED
        BY <3>2, <4>1 DEF Reads
    <3>3. QED
      BY <3>1, <3>2
  <2>3. QED
    BY <1>1, <2>1, <2>2 DEF DrainInv, StatesKept, At, Whole
<1>6. EndsKept'
  <2> SUFFICES ASSUME NEW d \in CallIds, call'[d].pc \in Placed, call'[d].next = "reply",
                      call'[d].actor \notin torn, stream'[call'[d].actor] # << >>
               PROVE  Has(call[d].actor, "TERMINATED")'
    BY <1>1 DEF EndsKept, Whole, Placed
  <2>1. CASE d # c
    <3>1. call'[d] = call[d] /\ call[d].actor \in Actors
      BY <1>2, <2>1, CallActor DEF Placed
    <3>2. PICK b \in Actors : b = call[d].actor
      BY <3>1
    <3>3. Has(b, "TERMINATED") /\ Extended(b)
      BY <1>1, <1>3, <3>1, <3>2 DEF DrainInv, EndsKept
    <3>4. Has(b, "TERMINATED")'
      BY <3>3, EndStays
    <3>5. QED
      BY <3>1, <3>2, <3>4
  <2>2. CASE d = c
    <3>1. call'[c].actor = a
      BY <2>2 DEF Works, Placed
    <3>2. Whole(a) /\ Extended(a)
      BY <1>1, <1>3, <2>2, <3>1
    <3>3. CASE Fetches(c)
      <4>1. stream[a][call[c].at + 1].type = "TERMINATED" /\ call[c].at + 1 \in DOMAIN stream[a]
        BY <2>2, <3>3 DEF Fetches, Stream
      <4>2. Has(a, "TERMINATED")
        BY <4>1 DEF Has
      <4>3. Has(a, "TERMINATED")'
        BY <3>2, <4>2, EndStays
      <4>4. QED
        BY <2>2, <3>1, <4>3
    <3>4. CASE Reads(c) \/ Stores(c) \/ Gets(c)
      <4>1. call[c].pc \in Placed /\ call[c].next = "reply"
        BY <2>2, <3>4 DEF Reads, Stores, Gets, HoldsAll, At, Placed
      <4>2. Has(a, "TERMINATED")
        BY <3>2, <4>1 DEF DrainInv, EndsKept
      <4>3. Has(a, "TERMINATED")'
        BY <3>2, <4>2, EndStays
      <4>4. QED
        BY <2>2, <3>1, <4>3
    <3>5. Fetches(c) \/ Reads(c) \/ Stores(c) \/ Gets(c)
      BY <2>2 DEF Works, Ingests, Looks, Drains, Advances, Checks, Writes, Runs,
         Replies, Fails, At, CallState, Placed
    <3>6. QED
      BY <3>3, <3>4, <3>5
  <2>3. QED
    BY <2>1, <2>2
<1>7. ASSUME NEW b \in Actors, Whole(b)', ~Has(b, "TERMINATED")' PROVE Drained(b)'
  <2>1. Whole(b) /\ Extended(b)
    BY <1>1, <1>3, <1>7 DEF Whole
  <2>2. ~Has(b, "TERMINATED") /\ Drained(b)
    BY <1>7, <2>1, EndStays DEF DrainInv
  <2>3. CASE b # a
    <3>1. stream'[b] = stream[b] /\ cursor'[b] = cursor[b]
      BY <1>1, <2>3
    <3>2. NoneAhead(b, cursor[b]) => NoneAhead(b, cursor[b])'
      BY <3>1 DEF NoneAhead
    <3>3. ASSUME NEW d \in CallIds, Watches(d, b) PROVE Watches(d, b)'
      BY <1>2, <2>3, <3>1, <3>3 DEF Watches
    <3>4. QED
      BY <2>2, <3>2, <3>3 DEF Drained
  <2>4. CASE b = a
    <3>0. /\ stream[a] \in Seq(Events) /\ cursor[a] \in DOMAIN stream[a]
          /\ call[c].at \in Nat /\ call[c].pos \in Nat
      BY <2>1, <2>4, StoreFacts, CallNumbers DEF LogInv, GhostsAreTorn, Whole
    <3>1. CASE \/ Ingests(c) \/ Fetches(c) \/ Reads(c) \/ Stores(c) \/ Checks(c)
               \/ Writes(c) \/ Gets(c) \/ Runs(c)
      <4>1. call'[c].actor = a /\ call'[c].pc \in Busy \ {"fetch"}
        BY <3>1 DEF Ingests, Fetches, Reads, Stores, Checks, Writes, Gets, Runs,
           HoldsAll, HoldsOn, Busy, Working, Placed
      <4>2. QED
        BY <2>4, <4>1 DEF Drained, Watches
    <3>2. CASE Looks(c)
      <4>1. /\ call'[c].actor = a /\ call'[c].pc = "fetch" /\ call'[c].at = cursor[a]
            /\ cursor'[a] = cursor[a]
        BY <1>1, <3>2 DEF Looks, Advances, At
      <4>2. QED
        BY <2>4, <3>0, <4>1 DEF Drained, Watches, Busy, Working
    <3>3. CASE Advances(c)
      <4>1. /\ call[c].pc = "advance" /\ call'[c].actor = a /\ call'[c].pc = call[c].next
            /\ call[c].next \in {"look", "check", "run", "reply"}
        BY <3>3 DEF Advances, At, CallState
      <4>2. call[c].next # "reply"
        BY <2>1, <2>2, <2>4, <4>1 DEF DrainInv, EndsKept, Placed
      <4>3. QED
        BY <2>4, <4>1, <4>2 DEF Drained, Watches, Busy, Working
\* The drain is over: this call was the last to watch, or somebody still is.
    <3>4. CASE Drains(c)
      <4>1. /\ At(c, "fetch") /\ call[c].at \in DOMAIN stream[a]
            /\ call[c].at + 1 \notin DOMAIN stream[a]
            /\ stream'[a] = stream[a] /\ cursor'[a] = cursor[a]
        BY <1>1, <3>4 DEF Drains, Stream, Ingests, Writes, Advances, At
      <4>2. call[c].at = Len(stream[a])
        BY <3>0, <4>1
      <4>3. CASE NoneAhead(a, cursor[a])
        BY <2>4, <4>1, <4>3 DEF NoneAhead, Drained
      <4>4. ASSUME NEW d \in CallIds, Watches(d, a) PROVE Drained(a)'
        <5>1. CASE d = c
          <6>1. call[c].at <= cursor[a]
            BY <4>1, <4>4, <5>1 DEF Watches, At
          <6>2. \A i \in DOMAIN stream[a] : ~(i > cursor[a])
            BY <3>0, <4>2, <6>1
          <6>3. QED
            BY <4>1, <6>2 DEF Drained, NoneAhead
        <5>2. CASE d # c
          BY <1>2, <4>1, <4>4, <5>2 DEF Drained, Watches
        <5>3. QED
          BY <5>1, <5>2
      <4>5. QED
        BY <2>2, <2>4, <4>3, <4>4 DEF Drained
    <3>5. CASE Replies(c)
      <4>1. /\ call[c].pc = "reply" /\ stream'[a] = stream[a] /\ cursor'[a] = cursor[a]
        BY <1>1, <3>5 DEF Replies, Ingests, Writes, Advances, At
      <4>2. ASSUME NEW d \in CallIds, Watches(d, a) PROVE Watches(d, a)'
        BY <1>2, <4>1, <4>2 DEF Watches, Busy, Working, Placed
      <4>3. QED
        BY <2>2, <2>4, <4>1, <4>2 DEF Drained, NoneAhead
    <3>6. ~Fails(c)
      BY <2>1, <2>2, <2>4, FailsAtEnd
    <3>7. QED
      BY <3>1, <3>2, <3>3, <3>4, <3>5, <3>6 DEF Works
  <2>5. QED
    BY <2>3, <2>4
<1>8. QED
  BY <1>4, <1>5, <1>6, <1>7 DEF DrainInv

LEMMA DrainInit == Init => DrainInv
<1> SUFFICES ASSUME Init PROVE DrainInv
  OBVIOUS
<1>1. \A b \in Actors : ~Whole(b) /\ snapshot[b] = {}
  BY DEF Init, Whole
<1>2. \A c \in CallIds : call[c].pc = "idle"
  BY IdleFields DEF Init
<1>3. QED
  BY <1>1, <1>2 DEF DrainInv, StatesKept, EndsKept, At, Placed

LEMMA DrainHolds == Spec => []DrainInv
<1>1. TypeOK /\ LogInv /\ DrainInv /\ [Next]_vars => DrainInv'
  BY StepKinds, EnvironmentDrains, WorksDrains DEF LogInv
<1>2. QED
  BY <1>1, DrainInit, LogHolds, PTL DEF Spec

-----------------------------------------------------------------------------
(***************************************************************************)
(* Calls that have their actor to themselves                               *)
(***************************************************************************)
Asks(e, c) == e.type = "INTENT" /\ e.call = c

\* Holds the event of a step.
Stepping == Working \ {"fetch"}

\* The step of an INTENT, up to the reduction of what was written last.
Handles(c) ==
  \/ call[c].pc \in {"check", "decide", "get", "run", "effect"}
  \/ /\ call[c].pc \in {"reduce", "store", "advance"}
     /\ call[c].next \in {"check", "run"} \/ call[c].pos # call[c].at

HasToRun(c) ==
  \/ call[c].pc \in {"check", "decide", "run"}
  \/ call[c].pc \in Placed /\ call[c].next \in {"check", "run"}

Alone(c) ==
  /\ call[c].actor \notin torn
  /\ \A d \in CallIds \ {c} : call[d].actor # call[c].actor

\* An INTENT further on is its own, and is yet to be answered.
Beyond(c, n) ==
  \A i \in DOMAIN stream[call[c].actor] :
    i > n /\ stream[call[c].actor][i].type = "INTENT" =>
      stream[call[c].actor][i].call = c /\ ran[c] = 0

OwnAnswer(c) ==
  ran[c] <= 1 /\ (answer[c] = 0 \/ (call[c].pc = "cleanup" /\ answer[c] = c))

OwnPlace(c) ==
  LET s == call[c]
      a == s.actor
  IN  /\ s.pc = "ingest" => NoneAhead(a, cursor[a]) /\ ran[c] = 0
      /\ s.pc = "look" => Beyond(c, cursor[a])
      /\ s.pc = "fetch" => Beyond(c, s.at) /\ (stream[a] # << >> => s.at <= cursor[a])
      /\ s.pc \in Stepping /\ ~Handles(c) => Beyond(c, s.at)
      /\ s.pc \in Stepping /\ Handles(c) =>
           /\ Asks(s.trigger, c) /\ NoneAhead(a, s.at)
           /\ HasToRun(c) => ran[c] = 0
      /\ s.pc = "reply" => NoneAhead(a, cursor[a]) \/ Has(a, "TERMINATED")

\* Nothing but its own answers has followed its INTENT.
OwnLog(c) ==
  LET s == stream[call[c].actor]
  IN  call[c].pc # "ingest" =>
        /\ s # << >> => \E i \in DOMAIN s : Asks(s[i], c)
        /\ \A i, j \in DOMAIN s :
             Asks(s[i], c) /\ j > i /\ s[j].type \in {"INTENT", "DECISION", "EFFECT"} =>
               s[j].call = c /\ s[j].type # "INTENT"

Own(c) == Alone(c) /\ OwnAnswer(c) /\ OwnPlace(c) /\ OwnLog(c)

\* Call d does not meet event i any more.
Behind(d, i) ==
  /\ call[d].pc = "fetch" => call[d].at >= i
  /\ call[d].pc \in Stepping => call[d].at > i
  /\ call[d].pc \in Placed => call[d].pos >= i

Left(b, i) ==
  \/ Has(b, "TERMINATED") /\ \A d \in CallIds : call[d].actor # b
  \/ cursor[b] >= i /\ \A d \in CallIds : call[d].actor = b => Behind(d, i)

Over(c) ==
  /\ ran[c] <= 1 /\ answer[c] \in {0, c}
  /\ \A b \in Actors : \A i \in DOMAIN stream[b] : Asks(stream[b][i], c) => Left(b, i)

Settled(c) ==
  c \notin disturbed /\ c <= calls => IF call[c].pc = "idle" THEN Over(c) ELSE Own(c)

\* Whose INTENTs there are, and who takes them.
AskInv ==
  /\ \A c \in CallIds : c > calls => call[c].pc = "idle" /\ ran[c] = 0 /\ answer[c] = 0
  /\ \A c \in CallIds : \A b \in Actors : \A i \in DOMAIN stream[b] :
       Asks(stream[b][i], c) =>
         /\ c <= calls /\ call[c].pc # "ingest"
         /\ call[c].pc = "idle" \/ b = call[c].actor
  /\ \A c, d \in CallIds : call[d].pc \in Stepping /\ Asks(call[d].trigger, c) =>
       c <= calls /\ (c = d \/ c \in disturbed)
  /\ \A c \in CallIds : call[c].pc \in Stepping /\ Handles(c) =>
       call[c].trigger.type = "INTENT"

SoloInv == AskInv /\ \A c \in CallIds : Settled(c)

\* An INTENT is new only where a call has just appended it.
LEMMA WorksAsks ==
  ASSUME TypeOK, LogInv, NEW c \in CallIds, Works(c), ~Cleans(c), call[c].actor \in Actors,
         NEW b \in Actors, NEW i \in DOMAIN stream'[b], NEW d, Asks(stream'[b][i], d)
  PROVE  \/ i \in DOMAIN stream[b] /\ stream'[b][i] = stream[b][i]
         \/ Ingests(c) /\ d = c /\ b = call[c].actor /\ i = Len(stream[b]) + 1
<1>1. stream[b] \in Seq(Events)
  BY StoreFacts
<1>2. CASE stream'[b] = stream[b]
  BY <1>2
<1>3. CASE stream'[b] # stream[b]
  <2>1. b = call[c].actor /\ (Ingests(c) \/ Writes(c))
    BY <1>3, WorksAppends DEF LogInv
  <2>2. PICK e \in Events :
          /\ stream'[b] = Append(stream[b], e)
          /\ Ingests(c) => e.call = c
          /\ Writes(c) => e.type = IF At(c, "decide") THEN "DECISION" ELSE "EFFECT"
    BY <2>1, WorksAppends DEF LogInv
  <2>3. \/ i \in DOMAIN stream[b] /\ stream'[b][i] = stream[b][i]
        \/ i = Len(stream[b]) + 1 /\ stream'[b][i] = e
    BY <1>1, <2>2
  <2>4. CASE i = Len(stream[b]) + 1 /\ stream'[b][i] = e
    BY <2>1, <2>2, <2>4 DEF Asks
  <2>5. QED
    BY <2>3, <2>4
<1>4. QED
  BY <1>2, <1>3

LEMMA EnvironmentAsks ==
  ASSUME TypeOK, Environment, NEW b \in Actors, NEW i \in DOMAIN stream'[b],
         stream'[b][i].type = "INTENT"
  PROVE  /\ i \in DOMAIN stream[b] /\ stream'[b][i] = stream[b][i]
         /\ Noted(b) \/ Restored(b) \/ Replayed(b)
<1>1. CASE Noted(b) \/ Restored(b) \/ Replayed(b)
  BY <1>1, NotesAdd
<1>2. ~Newborn(b)
  BY NewbornStream DEF Note
<1>3. ~Forgotten(b)
  BY DEF Forgotten
<1>4. QED
  BY <1>1, <1>2, <1>3 DEF Environment

\* Whose tool a step runs.
LEMMA WorksRan ==
  ASSUME TypeOK, AskInv, NEW c \in CallIds, Works(c), ~Cleans(c), ~At(c, "idle"),
         NEW d \in CallIds
  PROVE  /\ ran'[d] # ran[d] =>
              /\ At(c, "run") /\ ran'[d] = ran[d] + 1 /\ d <= calls
              /\ d = c \/ d \in disturbed
         /\ answer'[d] # answer[d] => d = c /\ Replies(c)
<1>1. answer'[d] # answer[d] => d = c /\ Replies(c)
  <2>1. CASE Replies(c)
    BY <2>1, StoreFacts DEF Replies, HistoryOK
  <2>2. CASE ~Replies(c)
    BY <2>2 DEF Works, Ingests, Looks, Drains, Fetches, Reads, Stores, Advances, Checks,
         Writes, Gets, Runs, Fails, Silent, history
  <2>3. QED
    BY <2>1, <2>2
<1>2. ASSUME ran'[d] # ran[d]
      PROVE  /\ At(c, "run") /\ ran'[d] = ran[d] + 1 /\ d <= calls
             /\ d = c \/ d \in disturbed
  <2>1. At(c, "run") /\ ran' = [ran EXCEPT ![call[c].trigger.call] = @ + 1]
    BY <1>2 DEF Works, Ingests, Looks, Drains, Fetches, Reads, Stores, Advances, Checks,
         Writes, Gets, Runs, Replies, Fails, Silent, history, At
  <2>2. call[c].trigger.call = d /\ ran'[d] = ran[d] + 1
    BY <1>2, <2>1, StoreFacts DEF HistoryOK
  <2>3. call[c].trigger.type = "INTENT" /\ call[c].pc \in Stepping
    BY <2>1 DEF AskInv, Handles, At, Stepping, Working
  <2>4. QED
    BY <2>1, <2>2, <2>3 DEF AskInv, Asks
<1>3. QED
  BY <1>1, <1>2

-----------------------------------------------------------------------------
LEMMA EnvironmentAskInv ==
  ASSUME TypeOK, AskInv, Environment
  PROVE  AskInv'
<1>0. /\ calls \in Nat /\ calls' \in Nat /\ calls <= calls' /\ disturbed \subseteq disturbed'
      /\ UNCHANGED <<ran, answer>>
  BY StoreFacts, Bounds DEF HistoryOK, Environment, Arrives, Departs
<1>c. \A c \in CallIds : c \in Nat
  BY Bounds
<1>1. ASSUME NEW c \in CallIds, c > calls'
      PROVE  call'[c].pc = "idle" /\ ran'[c] = 0 /\ answer'[c] = 0
  <2>1. c > calls /\ ~Arrives(c)
    BY <1>0, <1>1, <1>c DEF Arrives
  <2>2. QED
    BY <1>0, <2>1, EnvironmentCalls DEF AskInv, Departs, At
<1>2. ASSUME NEW c \in CallIds, NEW b \in Actors, NEW i \in DOMAIN stream'[b],
             Asks(stream'[b][i], c)
      PROVE  /\ c <= calls' /\ call'[c].pc # "ingest"
             /\ call'[c].pc = "idle" \/ b = call'[c].actor
  <2>1. i \in DOMAIN stream[b] /\ Asks(stream[b][i], c)
    BY <1>2, EnvironmentAsks DEF Asks
  <2>2. /\ c <= calls /\ call[c].pc # "ingest"
        /\ call[c].pc = "idle" \/ b = call[c].actor
    BY <2>1 DEF AskInv
  <2>3. ~Arrives(c)
    BY <1>0, <1>c, <2>2 DEF Arrives
  <2>4. QED
    BY <1>0, <1>c, <2>2, <2>3, EnvironmentCalls DEF Departs
<1>3. ASSUME NEW c \in CallIds, NEW d \in CallIds, call'[d].pc \in Stepping
      PROVE  /\ Asks(call'[d].trigger, c) => c <= calls' /\ (c = d \/ c \in disturbed')
             /\ call'[d] = call[d]
  <2>1. call'[d] = call[d]
    BY <1>3, EnvironmentCalls DEF Arrives, Departs, Stepping, Working, Placed
  <2>2. Asks(call'[d].trigger, c) => c <= calls /\ (c = d \/ c \in disturbed)
    BY <1>3, <2>1 DEF AskInv
  <2>3. QED
    BY <1>0, <1>c, <2>1, <2>2
<1>4. ASSUME NEW c \in CallIds, call'[c].pc \in Stepping, Handles(c)'
      PROVE  call'[c].trigger.type = "INTENT"
  <2>1. call'[c] = call[c]
    BY <1>3, <1>4
  <2>2. Handles(c)
    BY <1>4, <2>1 DEF Handles
  <2>3. QED
    BY <1>4, <2>1, <2>2 DEF AskInv
<1>5. QED
  BY <1>1, <1>2, <1>3, <1>4 DEF AskInv

LEMMA WorksAskInv ==
  ASSUME TypeOK, LogInv, SoloInv, NEW c \in CallIds, Works(c), ~Cleans(c), ~At(c, "idle"),
         call[c] \in CallState, call[c].actor \in Actors
  PROVE  AskInv'
<1> PICK a \in Actors : a = call[c].actor
  OBVIOUS
<1>0. /\ UNCHANGED <<calls, disturbed>> /\ AskInv /\ calls \in Nat
      /\ \A d \in CallIds \ {c} : call'[d] = call[d]
      /\ \A d \in CallIds : d \in Nat
  BY StoreFacts, WorksAppends, Bounds DEF LogInv, HistoryOK, SoloInv, Works
<1>i. c <= calls
  BY <1>0 DEF AskInv, At
<1>1. ASSUME NEW d \in CallIds, d > calls
      PROVE  call'[d].pc = "idle" /\ ran'[d] = 0 /\ answer'[d] = 0
  <2>1. d # c /\ call[d].pc = "idle" /\ ran[d] = 0 /\ answer[d] = 0
    BY <1>0, <1>1, <1>i DEF AskInv
  <2>2. ran'[d] = ran[d] /\ answer'[d] = answer[d]
    BY <1>0, <1>1, <2>1, WorksRan
  <2>3. QED
    BY <1>0, <2>1, <2>2
<1>2. ASSUME NEW d \in CallIds, NEW b \in Actors, NEW i \in DOMAIN stream'[b],
             Asks(stream'[b][i], d)
      PROVE  /\ d <= calls /\ call'[d].pc # "ingest"
             /\ call'[d].pc = "idle" \/ b = call'[d].actor
  <2>1. CASE i \in DOMAIN stream[b] /\ stream'[b][i] = stream[b][i]
    <3>1. /\ d <= calls /\ call[d].pc # "ingest"
          /\ call[d].pc = "idle" \/ b = call[d].actor
      BY <1>0, <1>2, <2>1 DEF AskInv
    <3>2. call'[c].pc # "ingest" /\ (call'[c].pc = "idle" \/ call'[c].actor = a)
      BY DEF Works, Ingests, Looks, Drains, Fetches, Reads, Stores, Advances, Checks,
         Writes, Gets, Runs, Replies, Fails, CallState
    <3>3. QED
      BY <1>0, <3>1, <3>2 DEF At
  <2>2. CASE Ingests(c) /\ d = c /\ b = a
    BY <1>i, <2>2 DEF Ingests
  <2>3. QED
    BY <1>2, <2>1, <2>2, WorksAsks
<1>3. ASSUME NEW d \in CallIds, NEW e \in CallIds, call'[e].pc \in Stepping,
             Asks(call'[e].trigger, d)
      PROVE  d <= calls /\ (d = e \/ d \in disturbed)
  <2>1. CASE e # c \/ (call[c].pc \in Stepping /\ call'[c].trigger = call[c].trigger)
    BY <1>0, <1>3, <2>1 DEF AskInv
  <2>2. CASE e = c /\ Fetches(c) /\ d # c /\ d \notin disturbed
    <3>1. /\ call[c].pc = "fetch" /\ call[c].at + 1 \in DOMAIN stream[a]
          /\ Asks(stream[a][call[c].at + 1], d)
      BY <1>3, <2>2 DEF Fetches, At, Stream
    <3>2. /\ d <= calls /\ (call[d].pc = "idle" \/ a = call[d].actor)
      BY <1>0, <3>1 DEF AskInv
    <3>3. Settled(d)
      BY DEF SoloInv
    <3>4. CASE call[d].pc = "idle"
      <4>1. Left(a, call[c].at + 1)
        BY <2>2, <3>1, <3>2, <3>3, <3>4 DEF Settled, Over
      <4>2. Behind(c, call[c].at + 1)
        BY <4>1 DEF Left
      <4>3. QED
        BY <3>1, <4>2, CallNumbers DEF Behind
    <3>5. CASE call[d].pc # "idle"
      BY <2>2, <3>2, <3>3, <3>5 DEF Settled, Own, Alone
    <3>6. QED
      BY <3>4, <3>5
  <2>3. CASE e = c /\ Fetches(c)
    <3>1. call[c].at + 1 \in DOMAIN stream[a] /\ Asks(stream[a][call[c].at + 1], d)
      BY <1>3, <2>3 DEF Fetches, At, Stream
    <3>2. d <= calls
      BY <1>0, <3>1 DEF AskInv
    <3>3. QED
      BY <2>2, <2>3, <3>2
  <2>4. QED
    BY <1>3, <2>1, <2>3 DEF Works, Ingests, Looks, Drains, Reads, Stores, Advances, Checks,
       Writes, Gets, Runs, Replies, Fails, At, Stepping, Working, Placed, HoldsAll,
       HoldsOn, CallState
<1>4. ASSUME NEW d \in CallIds, call'[d].pc \in Stepping, Handles(d)'
      PROVE  call'[d].trigger.type = "INTENT"
  <2>1. CASE d # c
    BY <1>0, <1>4, <2>1 DEF AskInv, Handles
  <2>2. CASE d = c /\ Fetches(c)
    BY <1>4, <2>2 DEF Fetches, Handles
  <2>3. CASE /\ d = c /\ call[c].pc \in Stepping /\ call'[c].trigger = call[c].trigger
             /\ Handles(c)
    BY <1>0, <2>3 DEF AskInv
  <2>4. CASE d = c /\ ~Fetches(c)
    <3>1. call[c].pc \in Stepping /\ call'[c].trigger = call[c].trigger /\ Handles(c)
      BY <1>4, <2>4 DEF Works, Ingests, Looks, Drains, Reads, Stores, Advances, Checks,
       Writes, Gets, Runs, Replies, Fails, At, Stepping, Working, Placed, HoldsAll,
       HoldsOn, CallState, Handles
    <3>2. QED
      BY <2>3, <2>4, <3>1
  <2>5. QED
    BY <2>1, <2>2, <2>4
<1>5. QED
  BY <1>0, <1>1, <1>2, <1>3, <1>4 DEF AskInv

-----------------------------------------------------------------------------
\* A call that is over, in a step of the environment and of another call.
LEMMA EnvironmentOver ==
  ASSUME TypeOK, Environment, NEW c \in CallIds, Over(c)
  PROVE  Over(c)'
<1>1. ran'[c] <= 1 /\ answer'[c] \in {0, c}
  BY DEF Over, Environment
<1>2. ASSUME NEW b \in Actors, NEW i \in DOMAIN stream'[b], Asks(stream'[b][i], c)
      PROVE  Left(b, i)'
  <2>1. /\ i \in DOMAIN stream[b] /\ stream'[b][i] = stream[b][i]
        /\ Noted(b) \/ Restored(b) \/ Replayed(b)
    BY <1>2, EnvironmentAsks DEF Asks
  <2>a. ~Newborn(b)
    BY <1>2, NewbornStream DEF Asks, Note
  <2>2. Left(b, i) /\ stream[b] \in Seq(Events)
    BY <1>2, <2>1, StoreFacts DEF Over
  <2>3. CASE Has(b, "TERMINATED") /\ \A d \in CallIds : call[d].actor # b
    <3>1. Has(b, "TERMINATED")'
      BY <2>1, <2>3, NotesAdd, EndStays
    <3>2. ASSUME NEW d \in CallIds PROVE call'[d].actor # b
      <4>1. CASE Arrives(d)
        BY <2>a, <2>2, <2>3, <4>1 DEF Arrives, Open
      <4>2. CASE Departs(d)
        BY <4>2, Bounds DEF Departs
      <4>3. QED
        BY <2>3, <4>1, <4>2, EnvironmentCalls
    <3>3. QED
      BY <3>1, <3>2 DEF Left
  <2>4. CASE cursor[b] >= i /\ \A d \in CallIds : call[d].actor = b => Behind(d, i)
    <3>1. cursor'[b] >= i
      BY <2>1, <2>2, <2>4 DEF Noted, Restored, Replayed
    <3>2. ASSUME NEW d \in CallIds, call'[d].actor = b PROVE Behind(d, i)'
      <4>1. CASE call'[d] = call[d]
        BY <2>4, <3>2, <4>1 DEF Behind
      <4>2. CASE Arrives(d)
        BY <4>2 DEF Arrives, Behind, Stepping, Working, Placed
      <4>3. CASE Departs(d)
        BY <3>2, <4>3, Bounds DEF Departs
      <4>4. QED
        BY <4>1, <4>2, <4>3, EnvironmentCalls
    <3>3. QED
      BY <3>1, <3>2 DEF Left
  <2>5. QED
    BY <2>2, <2>3, <2>4 DEF Left
<1>3. QED
  BY <1>1, <1>2 DEF Over

\* What a step leaves behind stays behind.
LEMMA WorksBehind ==
  ASSUME TypeOK, NEW c \in CallIds, Works(c), ~Cleans(c), call[c] \in CallState,
         call[c].actor \in Actors, NEW i \in DOMAIN stream[call[c].actor],
         Behind(c, i), cursor[call[c].actor] >= i
  PROVE  Behind(c, i)' /\ cursor'[call[c].actor] >= i
<1> PICK a \in Actors : a = call[c].actor
  OBVIOUS
<1>1. PICK at \in Nat, pos \in Nat : at = call[c].at /\ pos = call[c].pos
  BY CallNumbers
<1>2. stream[a] \in Seq(Events) /\ i \in Nat /\ i <= Len(stream[a]) /\ cursor[a] \in Nat
  BY StoreFacts
<1>3. CASE Ingests(c) \/ Drains(c) \/ Replies(c) \/ Fails(c)
  <2>1. call'[c].pc \in {"look", "reply", "idle", "cleanup"}
    BY <1>3 DEF Ingests, Drains, Replies, Fails
  <2>2. ~Advances(c)
    BY <1>3 DEF Ingests, Drains, Replies, Fails, Advances, At
  <2>3. QED
    BY <2>1, <2>2, WorksLeaves DEF Behind, Stepping, Working, Placed
<1>4. CASE Looks(c)
  <2>1. call'[c].pc = "fetch" /\ call'[c].at = cursor[a] /\ ~Advances(c)
    BY <1>4 DEF Looks, Advances, At
  <2>2. QED
    BY <1>2, <2>1, WorksLeaves DEF Behind, Stepping, Working, Placed
<1>5. CASE Fetches(c)
  <2>1. /\ call[c].pc = "fetch" /\ call'[c].pc = "reduce" /\ call'[c].at = at + 1
        /\ call'[c].pos = at + 1 /\ ~Advances(c)
    BY <1>1, <1>5 DEF Fetches, Advances, At
  <2>2. at >= i
    BY <1>1, <2>1 DEF Behind
  <2>3. QED
    BY <1>1, <1>2, <2>1, <2>2, WorksLeaves DEF Behind, Stepping, Working, Placed
<1>6. CASE Reads(c) \/ Stores(c) \/ Gets(c) \/ Checks(c) \/ Runs(c)
  <2>1. /\ call[c].pc \in Stepping /\ call'[c].pc \in Stepping
        /\ call'[c].at = at /\ ~Advances(c)
        /\ call'[c].pc \in Placed => call[c].pc \in Placed /\ call'[c].pos = pos
    BY <1>1, <1>6 DEF Reads, Stores, Gets, Checks, Runs, Advances, HoldsAll, HoldsOn, At,
       Stepping, Working, Placed
  <2>2. at > i /\ (call'[c].pc \in Placed => pos >= i)
    BY <1>1, <2>1 DEF Behind
  <2>3. QED
    BY <2>1, <2>2, WorksLeaves DEF Behind, Stepping
<1>7. CASE Writes(c)
  <2>1. /\ call[c].pc \in Stepping /\ call'[c].pc = "get" /\ call'[c].at = at
        /\ call'[c].pos = Len(stream[a]) + 1 /\ ~Advances(c)
    BY <1>1, <1>7 DEF Writes, Advances, HoldsOn, At, Stepping, Working, Placed, Stream
  <2>2. at > i /\ Len(stream[a]) + 1 >= i
    BY <1>1, <1>2, <2>1 DEF Behind
  <2>3. QED
    BY <2>1, <2>2, WorksLeaves DEF Behind, Stepping
<1>8. CASE Advances(c)
  <2>1. /\ call[c].pc = "advance" /\ call'[c].pc = call[c].next /\ cursor'[a] = pos
        /\ call[c].next \in {"look", "check", "run", "reply"}
        /\ call[c].next \in {"check", "run"} => call'[c].at = at
    BY <1>1, <1>8, StoreFacts DEF Advances, HoldsAll, HoldsOn, At, CallState
  <2>2. at > i /\ pos >= i
    BY <1>1, <2>1 DEF Behind, Stepping, Working, Placed
  <2>3. QED
    BY <2>1, <2>2 DEF Behind, Stepping, Working, Placed
<1>9. QED
  BY <1>3, <1>4, <1>5, <1>6, <1>7, <1>8 DEF Works

LEMMA WorksOver ==
  ASSUME TypeOK, LogInv, AskInv, NEW c \in CallIds, Works(c), ~Cleans(c), ~At(c, "idle"),
         call[c] \in CallState, call[c].actor \in Actors,
         NEW d \in CallIds \ {c}, d \notin disturbed, Over(d)
  PROVE  Over(d)'
<1> PICK a \in Actors : a = call[c].actor
  OBVIOUS
<1>1. ran'[d] <= 1 /\ answer'[d] \in {0, d}
  BY WorksRan DEF Over
<1>2. ASSUME NEW b \in Actors, NEW i \in DOMAIN stream'[b], Asks(stream'[b][i], d)
      PROVE  Left(b, i)'
  <2>1. i \in DOMAIN stream[b] /\ Asks(stream[b][i], d)
    BY <1>2, WorksAsks
  <2>2. Left(b, i)
    BY <2>1 DEF Over
  <2>3. /\ \A e \in CallIds \ {c} : call'[e] = call[e]
        /\ call'[c].actor \in {a, 0} /\ 0 \notin Actors
    BY Bounds DEF Works
  <2>4. CASE b = a
    <3>1. cursor[a] >= i /\ \A e \in CallIds : call[e].actor = a => Behind(e, i)
      BY <2>2, <2>4 DEF Left
    <3>2. Behind(c, i)' /\ cursor'[a] >= i
      BY <2>1, <2>4, <3>1, WorksBehind
    <3>3. \A e \in CallIds \ {c} : call'[e].actor = a => Behind(e, i)'
      BY <2>3, <3>1 DEF Behind
    <3>4. QED
      BY <2>4, <3>2, <3>3 DEF Left
  <2>5. CASE b # a
    <3>1. stream'[b] = stream[b] /\ cursor'[b] = cursor[b]
      BY <2>5, WorksAppends, WorksLeaves DEF LogInv
    <3>2. ASSUME NEW e \in CallIds, call'[e].actor = b PROVE e # c /\ call'[e] = call[e]
      BY <2>3, <2>5, <3>2
    <3>3. CASE Has(b, "TERMINATED") /\ \A e \in CallIds : call[e].actor # b
      BY <3>1, <3>2, <3>3 DEF Left, Has
    <3>4. CASE cursor[b] >= i /\ \A e \in CallIds : call[e].actor = b => Behind(e, i)
      <4>1. ASSUME NEW e \in CallIds, call'[e].actor = b PROVE Behind(e, i)'
        BY <3>2, <3>4, <4>1 DEF Behind
      <4>2. QED
        BY <3>1, <3>4, <4>1 DEF Left
    <3>5. QED
      BY <2>2, <3>3, <3>4 DEF Left
  <2>6. QED
    BY <2>4, <2>5
<1>3. QED
  BY <1>1, <1>2 DEF Over

-----------------------------------------------------------------------------
\* What a call is to itself stays, while the others see to other actors.
LEMMA OwnRests ==
  ASSUME NEW c \in CallIds, Own(c), Alone(c)', call'[c] = call[c],
         UNCHANGED <<ran[c], answer[c], stream[call[c].actor], cursor[call[c].actor]>>
  PROVE  Own(c)'
<1>1. OwnAnswer(c)'
  BY DEF Own, OwnAnswer
<1>2. OwnLog(c)'
  BY DEF Own, OwnLog
<1>3. Handles(c)' <=> Handles(c)
  BY DEF Handles
<1>4. HasToRun(c)' <=> HasToRun(c)
  BY DEF HasToRun
<1>5. OwnPlace(c)'
  BY <1>3, <1>4 DEF Own, OwnPlace, Beyond, NoneAhead, Has
<1>6. QED
  BY <1>1, <1>2, <1>5 DEF Own

LEMMA OthersOwn ==
  ASSUME TypeOK, LogInv, AskInv, NEW c \in CallIds, Works(c), ~Cleans(c), ~At(c, "idle"),
         call[c] \in CallState, call[c].actor \in Actors,
         NEW d \in CallIds \ {c}, call[d].pc # "idle", d \notin disturbed, Own(d)
  PROVE  Own(d)'
<1>1. /\ \A e \in CallIds \ {c} : call'[e] = call[e]
      /\ call'[c].actor \in {call[c].actor, 0} /\ 0 \notin Actors
  BY Bounds DEF Works
<1>2. call[d].actor \in Actors /\ call[d].actor # call[c].actor
  BY CallActor DEF Own, Alone
<1>3. UNCHANGED <<stream[call[d].actor], cursor[call[d].actor], torn>>
  <2>1. PICK b \in Actors : b = call[d].actor
    BY <1>2
  <2>2. stream'[b] = stream[b] /\ cursor'[b] = cursor[b] /\ torn' = torn
    BY <1>2, <2>1, WorksAppends, WorksLeaves DEF LogInv
  <2>3. QED
    BY <1>1, <2>1, <2>2
<1>4. Alone(d)'
  BY <1>1, <1>2, <1>3 DEF Own, Alone
<1>5. UNCHANGED <<ran[d], answer[d]>>
  BY WorksRan
<1>6. QED
  BY <1>1, <1>3, <1>4, <1>5, OwnRests

LEMMA EnvironmentOwn ==
  ASSUME TypeOK, LogInv, Environment, NEW c \in CallIds, call[c].pc # "idle",
         c \notin disturbed', Own(c), call'[c] = call[c]
  PROVE  Own(c)'
<1> PICK a \in Actors : a = call[c].actor
  BY CallActor
<1>1. a \notin torn'
  <2>1. Appenders(a) \subseteq {c}
    BY DEF Own, Alone, Appenders
  <2>2. ~(Forgotten(a) /\ Appenders(a) # {})
    BY <2>1 DEF Forgotten
  <2>3. QED
    BY <2>2 DEF Environment, Own, Alone
<1>2. ASSUME NEW d \in CallIds \ {c} PROVE call'[d].actor # a
  <2>1. CASE Arrives(d)
    BY <2>1 DEF Arrives
  <2>2. CASE Departs(d)
    BY <2>2, Bounds DEF Departs
  <2>3. QED
    BY <2>1, <2>2, EnvironmentCalls DEF Own, Alone
<1>3. Alone(c)' /\ OwnAnswer(c)' /\ UNCHANGED ran
  BY <1>1, <1>2 DEF Own, Alone, OwnAnswer, Environment
<1>4. /\ Handles(c)' <=> Handles(c)
      /\ HasToRun(c)' <=> HasToRun(c)
  BY DEF Handles, HasToRun
<1>5. CASE Noted(a) \/ Restored(a) \/ Replayed(a)
  <2>1. /\ Extended(a) /\ stream[a] \in Seq(Events)
        /\ \A i \in DOMAIN stream'[a] :
             stream'[a][i].type \in {"INTENT", "DECISION", "EFFECT"} =>
               i \in DOMAIN stream[a] /\ stream'[a][i] = stream[a][i]
    BY <1>5, NotesAdd, StoreFacts
  <2>2. ASSUME NEW n PROVE NoneAhead(a, n) => \A i \in DOMAIN stream'[a] :
                             i > n => stream'[a][i].type # "INTENT"
    BY <2>1 DEF NoneAhead
  <2>3. ASSUME NEW n PROVE Beyond(c, n) => \A i \in DOMAIN stream'[a] :
                             i > n /\ stream'[a][i].type = "INTENT" =>
                               stream'[a][i].call = c /\ ran[c] = 0
    BY <2>1 DEF Beyond
  <2>4. \/ cursor'[a] = cursor[a]
        \/ /\ \A i \in DOMAIN stream[a] : ~(i > cursor'[a])
           /\ \A i \in DOMAIN stream'[a] : ~(i > cursor'[a])
           /\ cursor'[a] = Len(stream[a])
    BY <1>5, <2>1 DEF Noted, Restored, Replayed
  <2>5. NoneAhead(a, cursor[a]) =>
          \A i \in DOMAIN stream'[a] : i > cursor'[a] => stream'[a][i].type # "INTENT"
    BY <2>2, <2>4
  <2>6. Beyond(c, cursor[a]) =>
          \A i \in DOMAIN stream'[a] : i > cursor'[a] /\ stream'[a][i].type = "INTENT" =>
            stream'[a][i].call = c /\ ran[c] = 0
    BY <2>3, <2>4
  <2>7. call[c].pc = "fetch" /\ stream'[a] # << >> => call[c].at <= cursor'[a]
    <3>1. ASSUME call[c].pc = "fetch", stream'[a] # << >>
          PROVE  call[c].at \in DOMAIN stream[a] /\ call[c].at <= cursor[a]
      <4>1. Whole(a) /\ CallSound(c)
        BY <2>1, <3>1 DEF Whole, Extended, Own, Alone, LogInv, CallsSound
      <4>2. QED
        BY <3>1, <4>1 DEF CallSound, Working, Own, OwnPlace, Whole
    <3>2. QED
      BY <2>1, <2>4, <3>1
  <2>8. Has(a, "TERMINATED") => \E i \in DOMAIN stream'[a] : stream'[a][i].type = "TERMINATED"
    BY <2>1 DEF Has, Extended
  <2>9. OwnPlace(c)'
    BY <1>3, <1>4, <2>2, <2>3, <2>5, <2>6, <2>7, <2>8
    DEF Own, OwnPlace, NoneAhead, Beyond, Has
  <2>10. OwnLog(c)'
    BY <2>1 DEF Own, OwnLog, Extended, Asks
  <2>11. QED
    BY <1>3, <2>9, <2>10 DEF Own
<1>6. CASE stream'[a] = << >>
  <2>1. DOMAIN stream'[a] = {}
    BY <1>6
  <2>2. c \notin Appenders(a)
    <3>1. ~Noted(a) \/ stream[a] = << >>
      BY <1>6, NotesAdd DEF Extended
    <3>2. CASE stream[a] = << >>
      BY <3>2 DEF LogInv, CallsSound, CallSound, Own, Alone, Appenders
    <3>3. CASE Vanished(a)
      BY <3>3 DEF Vanished
    <3>4. QED
      BY <1>1, <1>6, <3>1, <3>2, <3>3, EnvironmentStream, NotesAdd, NewbornStream
      DEF Extended
  <2>3. call[c].pc # "ingest"
    BY <2>2 DEF Appenders
  <2>4. OwnPlace(c)'
    BY <1>3, <1>4, <1>6, <2>1, <2>3 DEF Own, OwnPlace, NoneAhead, Beyond
  <2>5. OwnLog(c)'
    BY <1>6, <2>1 DEF OwnLog
  <2>6. QED
    BY <1>3, <2>4, <2>5 DEF Own
<1>7. QED
  BY <1>1, <1>5, <1>6, EnvironmentStream, CallActor DEF Vanished

\* A call that has its new actor to itself finds nothing left there.
LEMMA ArrivesOwn ==
  ASSUME TypeOK, LogInv, DrainInv, AskInv, Environment, NEW c \in CallIds, Arrives(c),
         c \notin disturbed'
  PROVE  Own(c)'
<1> PICK a \in Actors : a = call'[c].actor
  BY DEF Arrives
<1>1. /\ a \notin torn' /\ \A d \in CallIds \ {c} : call[d].actor # a /\ call'[d] = call[d]
      /\ call'[c].pc = "ingest" /\ call[c].pc = "idle" /\ ran'[c] = 0 /\ answer'[c] = 0
  BY Bounds, StoreFacts DEF Arrives, OthersStay, AskInv, Environment, HistoryOK
<1>2. \A i \in DOMAIN stream'[a] : i > cursor'[a] => stream'[a][i].type # "INTENT"
  <2>1. CASE Newborn(a)
    BY <2>1, NewbornStream
  <2>2. CASE Open(a) /\ Noted(a)
    <3>1. Whole(a) /\ ~Has(a, "TERMINATED")
      BY <1>1, <2>2 DEF Whole, Open, Environment
    <3>2. \A d \in CallIds : ~Watches(d, a)
      BY <1>1 DEF Watches, Busy, Working, Placed
    <3>3. NoneAhead(a, cursor[a])
      BY <3>1, <3>2 DEF DrainInv, Drained
    <3>4. QED
      BY <2>2, <3>3, NotesAdd DEF NoneAhead, Noted
  <2>3. QED
    BY <2>1, <2>2 DEF Arrives
<1>3. OwnPlace(c)'
  BY <1>1, <1>2 DEF OwnPlace, NoneAhead, Stepping, Working, Placed
<1>4. QED
  BY <1>1, <1>3 DEF Own, Alone, OwnAnswer, OwnLog

LEMMA EnvironmentSolo ==
  ASSUME TypeOK, LogInv, DrainInv, SoloInv, Environment
  PROVE  SoloInv'
<1>1. AskInv /\ AskInv'
  BY EnvironmentAskInv DEF SoloInv
<1>2. ASSUME NEW c \in CallIds, c \notin disturbed', c <= calls'
      PROVE  IF call'[c].pc = "idle" THEN Over(c)' ELSE Own(c)'
  <2>1. c \notin disturbed /\ Settled(c)
    BY <1>2 DEF Environment, SoloInv
  <2>2. CASE call'[c] = call[c] /\ ~Arrives(c)
    <3>1. c <= calls
      BY <1>2, <2>2, Bounds, StoreFacts DEF Environment, Arrives, Departs, HistoryOK
    <3>2. CASE call[c].pc = "idle"
      BY <2>1, <2>2, <3>1, <3>2, EnvironmentOver DEF Settled
    <3>3. CASE call[c].pc # "idle"
      BY <1>2, <2>1, <2>2, <3>1, <3>3, EnvironmentOwn DEF Settled
    <3>4. QED
      BY <2>2, <3>2, <3>3
  <2>3. CASE Arrives(c)
    BY <1>1, <1>2, <2>3, ArrivesOwn DEF Arrives
  <2>4. CASE Departs(c)
    <3>1. Own(c) /\ call[c].pc = "cleanup" /\ call'[c].pc = "idle"
      BY <1>2, <2>1, <2>4 DEF Settled, Departs, At
    <3>2. ran'[c] <= 1 /\ answer'[c] \in {0, c}
      BY <3>1 DEF Own, OwnAnswer, Environment
    <3>3. ASSUME NEW b \in Actors, NEW i \in DOMAIN stream'[b], Asks(stream'[b][i], c)
          PROVE  FALSE
      <4>1. b = call[c].actor
        BY <1>1, <3>1, <3>3, EnvironmentAsks DEF AskInv, Asks
      <4>2. stream'[b] = << >>
        BY <2>4, <4>1 DEF Departs, Forgotten
      <4>3. QED
        BY <3>3, <4>2
    <3>4. QED
      BY <3>1, <3>2, <3>3 DEF Over
  <2>5. QED
    BY <2>2, <2>3, <2>4, EnvironmentCalls
<1>3. QED
  BY <1>1, <1>2 DEF SoloInv, Settled

-----------------------------------------------------------------------------
\* A step of a call that has its actor to itself.
LEMMA WorksAlone ==
  ASSUME TypeOK, LogInv, AskInv, NEW c \in CallIds, Works(c), ~Cleans(c), ~At(c, "idle"),
         call[c].actor \in Actors, Own(c)
  PROVE  /\ call'[c].pc # "idle" => Alone(c)'
         /\ ~(At(c, "run") \/ Replies(c)) => UNCHANGED <<ran[c], answer[c]>>
         /\ call'[c].pc # "idle" /\ stream'[call[c].actor] # << >> =>
              Whole(call[c].actor) /\ Extended(call[c].actor)
<1>1. \A d \in CallIds \ {c} : call'[d] = call[d]
  BY DEF Works
<1>2. UNCHANGED torn /\ Extended(call[c].actor)
  BY WorksAppends DEF LogInv, Own, Alone
<1>3. call'[c].pc # "idle" => Alone(c)'
  BY <1>1, <1>2 DEF Own, Alone, Works
<1>4. ~(At(c, "run") \/ Replies(c)) => UNCHANGED <<ran[c], answer[c]>>
  BY WorksRan
<1>5. QED
  BY <1>2, <1>3, <1>4 DEF Whole, Extended, Own, Alone

\* What is in the log of such a call.
LEMMA OwnLogStays ==
  ASSUME TypeOK, LogInv, AskInv, NEW c \in CallIds, Works(c), ~Cleans(c), ~At(c, "idle"),
         call[c] \in CallState, call[c].actor \in Actors, Own(c), call'[c].pc # "idle"
  PROVE  OwnLog(c)'
<1> PICK a \in Actors : a = call[c].actor
  OBVIOUS
<1>1. call'[c].actor = a /\ stream[a] \in Seq(Events)
  BY StoreFacts DEF Works
<1>2. CASE Ingests(c)
  <2>1. At(c, "ingest")
    BY <1>2 DEF Ingests
  <2>2. PICK e \in Events : stream'[a] = Append(stream[a], e) /\ Asks(e, c)
    BY <1>2, WorksAppends DEF LogInv, Asks
  <2>3. \A i \in DOMAIN stream[a] : ~Asks(stream[a][i], c)
    BY <2>1 DEF AskInv, At
  <2>4. PICK n \in Nat : n = Len(stream[a]) + 1
    BY <1>1
  <2>5. /\ n \in DOMAIN stream'[a] /\ stream'[a][n] = e
        /\ \A i \in DOMAIN stream'[a] :
             \/ i \in DOMAIN stream[a] /\ stream'[a][i] = stream[a][i]
             \/ i = n
        /\ \A j \in DOMAIN stream'[a] : ~(j > n)
    BY <1>1, <2>2, <2>4
  <2>6. QED
    BY <1>1, <2>2, <2>3, <2>5 DEF OwnLog
<1>3. CASE Writes(c)
  <2>1. call[c].pc \in {"decide", "effect"}
    BY <1>3 DEF Writes
  <2>2. Asks(call[c].trigger, c)
    BY <2>1 DEF Own, OwnPlace, Handles, Stepping, Working, Placed
  <2>3. PICK e \in Events :
          /\ stream'[a] = Append(stream[a], e) /\ e.call = c
          /\ e.type \in {"DECISION", "EFFECT"}
    BY <1>3, <2>2, WorksAppends DEF LogInv, Asks
  <2>4. PICK n \in Nat : n = Len(stream[a]) + 1
    BY <1>1
  <2>5. /\ stream'[a][n] = e
        /\ \A i \in DOMAIN stream[a] :
             i \in DOMAIN stream'[a] /\ stream'[a][i] = stream[a][i]
        /\ \A i \in DOMAIN stream'[a] :
             \/ i \in DOMAIN stream[a] /\ stream'[a][i] = stream[a][i]
             \/ i = n
    BY <1>1, <2>3, <2>4
  <2>6. stream[a] # << >>
    BY <2>1 DEF LogInv, CallsSound, CallSound, Own, Alone
  <2>7. /\ \E i \in DOMAIN stream[a] : Asks(stream[a][i], c)
        /\ \A i, j \in DOMAIN stream[a] :
             /\ Asks(stream[a][i], c) /\ j > i
             /\ stream[a][j].type \in {"INTENT", "DECISION", "EFFECT"}
             => stream[a][j].call = c /\ stream[a][j].type # "INTENT"
    BY <2>1, <2>6 DEF Own, OwnLog
  <2>8. \E i \in DOMAIN stream'[a] : Asks(stream'[a][i], c)
    BY <2>5, <2>7
  <2>9. ASSUME NEW i \in DOMAIN stream'[a], NEW j \in DOMAIN stream'[a],
               Asks(stream'[a][i], c), j > i,
               stream'[a][j].type \in {"INTENT", "DECISION", "EFFECT"}
        PROVE  stream'[a][j].call = c /\ stream'[a][j].type # "INTENT"
    <3>1. CASE j = n
      BY <2>3, <2>5, <3>1
    <3>2. CASE j # n
      <4>1. i # n
        BY <2>3, <2>5, <2>9 DEF Asks
      <4>2. QED
        BY <2>5, <2>7, <2>9, <3>2, <4>1
    <3>3. QED
      BY <3>1, <3>2
  <2>10. QED
    BY <1>1, <2>8, <2>9 DEF OwnLog
<1>4. CASE ~(Ingests(c) \/ Writes(c))
  <2>1. stream'[a] = stream[a] /\ ~At(c, "ingest")
    BY <1>4, WorksAppends DEF LogInv, Works, Looks, Drains, Fetches, Reads, Stores,
       Advances, Checks, Gets, Runs, Replies, Fails, At
  <2>2. QED
    BY <1>1, <2>1 DEF Own, OwnLog, At
<1>5. QED
  BY <1>2, <1>3, <1>4

\* Where such a call stands.
LEMMA OwnPlaceStays ==
  ASSUME TypeOK, LogInv, DrainInv, AskInv, NEW c \in CallIds, Works(c), ~Cleans(c),
         ~At(c, "idle"), call[c] \in CallState, call[c].actor \in Actors, Own(c),
         call'[c].pc # "idle"
  PROVE  OwnPlace(c)'
<1> PICK a \in Actors : a = call[c].actor
  OBVIOUS
<1>1. PICK at \in Nat, pos \in Nat : at = call[c].at /\ pos = call[c].pos
  BY CallNumbers
<1>2. /\ call'[c].actor = a /\ stream[a] \in Seq(Events) /\ cursor[a] \in Nat
      /\ OwnPlace(c) /\ OwnLog(c) /\ CallSound(c)
      /\ ~Replies(c) /\ ~At(c, "run") => ran'[c] = ran[c]
      /\ ~(Ingests(c) \/ Writes(c)) => stream'[a] = stream[a]
      /\ ~Advances(c) => cursor'[a] = cursor[a]
  <2>1. call'[c].actor = a
    BY DEF Works
  <2>2. OwnPlace(c) /\ OwnLog(c) /\ CallSound(c)
    BY DEF Own, LogInv, CallsSound
  <2>3. QED
    BY <2>1, <2>2, StoreFacts, WorksAlone, WorksAppends, WorksLeaves DEF LogInv
<1>3. stream'[a] # << >> => Whole(a) /\ Extended(a)
  BY WorksAlone
<1>4. CASE Ingests(c)
  <2>1. /\ call'[c].pc = "look" /\ At(c, "ingest") /\ ~Advances(c) /\ ~Replies(c)
    BY <1>4 DEF Ingests, Advances, Replies, At
  <2>2. PICK e \in Events : stream'[a] = Append(stream[a], e) /\ Asks(e, c)
    BY <1>4, WorksAppends DEF LogInv, Asks
  <2>3. NoneAhead(a, cursor[a]) /\ ran[c] = 0 /\ ran'[c] = 0
    BY <1>2, <2>1 DEF OwnPlace, At
  <2>4. \A i \in DOMAIN stream'[a] : i > cursor'[a] /\ stream'[a][i].type = "INTENT" =>
          stream'[a][i].call = c
    BY <1>2, <2>1, <2>2, <2>3 DEF NoneAhead, Asks
  <2>5. QED
    BY <1>2, <2>1, <2>3, <2>4 DEF OwnPlace, Beyond, Stepping, Working, Placed
<1>5. CASE Looks(c)
  <2>1. /\ call'[c].pc = "fetch" /\ call'[c].at = cursor[a] /\ At(c, "look")
        /\ ~Advances(c) /\ ~Replies(c) /\ ~(Ingests(c) \/ Writes(c))
    BY <1>5 DEF Looks, Advances, Replies, Ingests, Writes, At
  <2>2. Beyond(c, cursor[a])
    BY <1>2, <2>1 DEF OwnPlace, At
  <2>3. QED
    BY <1>2, <2>1, <2>2 DEF OwnPlace, Beyond, Stepping, Working, Placed, At
<1>6. CASE Drains(c)
  <2>1. /\ call'[c].pc = "reply" /\ At(c, "fetch") /\ at \in DOMAIN stream[a]
        /\ at + 1 \notin DOMAIN stream[a]
        /\ ~Advances(c) /\ ~(Ingests(c) \/ Writes(c))
    BY <1>1, <1>6 DEF Drains, Advances, Ingests, Writes, At, Stream
  <2>2. at <= cursor[a] /\ at = Len(stream[a])
    BY <1>1, <1>2, <2>1 DEF OwnPlace, At
  <2>3. \A i \in DOMAIN stream'[a] : ~(i > cursor'[a])
    BY <1>2, <2>1, <2>2
  <2>4. QED
    BY <1>2, <2>1, <2>3 DEF OwnPlace, NoneAhead, Stepping, Working, Placed
<1>7. CASE Fetches(c)
  <2>1. /\ call'[c].pc = "reduce" /\ call'[c].at = at + 1 /\ call'[c].pos = at + 1
        /\ At(c, "fetch") /\ at + 1 \in DOMAIN stream[a]
        /\ call'[c].trigger = stream[a][at + 1]
        /\ call'[c].next = CASE stream[a][at + 1].type = "TERMINATED" -> "reply"
                             [] stream[a][at + 1].type = "INTENT"     -> "check"
                             [] OTHER                                 -> "look"
        /\ ~Replies(c) /\ ~(Ingests(c) \/ Writes(c))
    BY <1>1, <1>7 DEF Fetches, Replies, Ingests, Writes, At, Stream
  <2>2. Beyond(c, at) /\ ran'[c] = ran[c] /\ stream'[a] = stream[a]
    BY <1>1, <1>2, <2>1 DEF OwnPlace, At
  <2>3. CASE stream[a][at + 1].type = "INTENT"
    <3>1. ran[c] = 0 /\ Asks(stream[a][at + 1], c) /\ call'[c].next = "check"
      BY <1>2, <2>1, <2>2, <2>3 DEF Beyond, Asks
    <3>2. ASSUME NEW i \in DOMAIN stream[a], i > at + 1 PROVE stream[a][i].type # "INTENT"
      BY <1>2, <2>1, <3>1, <3>2 DEF OwnLog, At
    <3>3. QED
      BY <1>2, <2>1, <2>2, <3>1, <3>2
      DEF OwnPlace, NoneAhead, Handles, Stepping, Working, Placed
  <2>4. CASE stream[a][at + 1].type # "INTENT"
    <3>1. call'[c].next \in {"reply", "look"}
      BY <2>1, <2>4
    <3>2. ~Handles(c)'
      BY <2>1, <3>1 DEF Handles
    <3>3. \A i \in DOMAIN stream'[a] : i > at + 1 /\ stream'[a][i].type = "INTENT" =>
            stream'[a][i].call = c /\ ran'[c] = 0
      BY <1>2, <2>2 DEF Beyond
    <3>4. QED
      BY <1>2, <2>1, <3>2, <3>3 DEF OwnPlace, Beyond, Stepping, Working, Placed
  <2>5. QED
    BY <2>3, <2>4
<1>8. CASE Reads(c) \/ Stores(c) \/ Gets(c)
  <2>1. /\ call[c].pc \in Placed /\ call'[c].pc \in {"reduce", "store", "advance"}
        /\ call'[c].at = at /\ call'[c].pos = pos /\ call'[c].next = call[c].next
        /\ call'[c].trigger = call[c].trigger /\ (call[c].pc # "get" => ~Gets(c))
        /\ ~Replies(c) /\ ~(Ingests(c) \/ Writes(c)) /\ ~At(c, "run")
    BY <1>1, <1>8
    DEF Reads, Stores, Gets, Replies, Ingests, Writes, HoldsAll, HoldsOn, At, Placed
  <2>2. stream'[a] = stream[a] /\ ran'[c] = ran[c]
    BY <1>2, <2>1
  <2>3. CASE Handles(c)
    <3>1. Asks(call[c].trigger, c) /\ NoneAhead(a, at) /\ (HasToRun(c) => ran[c] = 0)
      BY <1>1, <1>2, <2>1, <2>3 DEF OwnPlace, Stepping, Working, Placed
    <3>2. HasToRun(c)' => HasToRun(c)
      BY <2>1 DEF HasToRun, Placed
    <3>3. \A i \in DOMAIN stream'[a] : i > at => stream'[a][i].type # "INTENT"
      BY <2>2, <3>1 DEF NoneAhead
    <3>4. QED
      BY <1>2, <2>1, <2>2, <3>1, <3>2, <3>3 DEF OwnPlace, NoneAhead, Beyond
  <2>4. CASE ~Handles(c)
    <3>1. Beyond(c, at) /\ ~Handles(c)'
      BY <1>1, <1>2, <2>1, <2>4 DEF OwnPlace, Handles, Stepping, Working, Placed
    <3>2. \A i \in DOMAIN stream'[a] : i > at /\ stream'[a][i].type = "INTENT" =>
            stream'[a][i].call = c /\ ran'[c] = 0
      BY <2>2, <3>1 DEF Beyond
    <3>3. QED
      BY <1>2, <2>1, <3>1, <3>2 DEF OwnPlace, Beyond
  <2>5. QED
    BY <2>3, <2>4
<1>9. CASE Advances(c)
  <2>1. /\ call[c].pc = "advance" /\ call'[c].pc = call[c].next /\ cursor'[a] = pos
        /\ call[c].next \in {"look", "check", "run", "reply"}
        /\ call[c].next \in {"check", "run"} =>
             call'[c].at = at /\ call'[c].trigger = call[c].trigger
        /\ ~Replies(c) /\ ~(Ingests(c) \/ Writes(c)) /\ ~At(c, "run")
    BY <1>1, <1>9, StoreFacts
    DEF Advances, Replies, Ingests, Writes, HoldsAll, HoldsOn, At, CallState
  <2>2. stream'[a] = stream[a] /\ ran'[c] = ran[c]
    BY <1>2, <2>1
  <2>3. Handles(c) => Asks(call[c].trigger, c) /\ NoneAhead(a, at) /\ (HasToRun(c) => ran[c] = 0)
    BY <1>1, <1>2, <2>1 DEF OwnPlace, Stepping, Working, Placed
  <2>4. ~Handles(c) => Beyond(c, at) /\ pos = at
    BY <1>1, <1>2, <2>1 DEF OwnPlace, Stepping, Working, Placed, Handles
  <2>5. CASE call[c].next \in {"check", "run"}
    <3>1. Asks(call[c].trigger, c) /\ NoneAhead(a, at) /\ ran[c] = 0
      BY <2>1, <2>3, <2>5 DEF Handles, HasToRun, Placed
    <3>2. \A i \in DOMAIN stream'[a] : i > at => stream'[a][i].type # "INTENT"
      BY <2>2, <3>1 DEF NoneAhead
    <3>3. QED
      BY <1>2, <2>1, <2>2, <2>5, <3>1, <3>2
      DEF OwnPlace, NoneAhead, Handles, Stepping, Working, Placed
  <2>6. CASE call[c].next = "look"
    <3>1. \A i \in DOMAIN stream'[a] : i > pos /\ stream'[a][i].type = "INTENT" =>
            stream'[a][i].call = c /\ ran'[c] = 0
      <4>1. CASE ~Handles(c)
        BY <2>2, <2>4, <4>1 DEF Beyond
      <4>2. ASSUME Handles(c), NEW i \in DOMAIN stream[a], i > pos
            PROVE  stream[a][i].type # "INTENT"
        <5>1. Whole(a)
          BY <1>3, <2>2, <4>2
        <5>2. at <= pos
          BY <1>1, <1>2, <2>1, <5>1 DEF CallSound, Working, Placed
        <5>3. QED
          BY <1>2, <2>3, <4>2, <5>2 DEF NoneAhead
      <4>3. QED
        BY <2>2, <4>1, <4>2
    <3>2. QED
      BY <1>2, <2>1, <2>6, <3>1 DEF OwnPlace, Beyond, Stepping, Working, Placed
  <2>7. CASE call[c].next = "reply"
    <3>1. stream[a] # << >> => Has(a, "TERMINATED")
      BY <1>2, <1>3, <2>1, <2>2, <2>7 DEF DrainInv, EndsKept, Placed
    <3>2. CASE stream[a] = << >>
      <4>1. DOMAIN stream'[a] = {}
        BY <2>2, <3>2
      <4>2. QED
        BY <1>2, <2>1, <2>7, <4>1 DEF OwnPlace, NoneAhead, Stepping, Working, Placed
    <3>3. CASE stream[a] # << >>
      <4>1. \E i \in DOMAIN stream'[a] : stream'[a][i].type = "TERMINATED"
        BY <2>2, <3>1, <3>3 DEF Has
      <4>2. QED
        BY <1>2, <2>1, <2>7, <4>1 DEF OwnPlace, Has, Stepping, Working, Placed
    <3>4. QED
      BY <3>2, <3>3
  <2>8. QED
    BY <2>1, <2>5, <2>6, <2>7
<1>10. CASE Checks(c) \/ Runs(c)
  <2>1. /\ call[c].pc \in {"check", "run"} /\ call'[c].at = at
        /\ call'[c].trigger = call[c].trigger
        /\ IF Checks(c) THEN call'[c].pc = "decide" ELSE call'[c].pc = "effect"
        /\ ~Replies(c) /\ ~(Ingests(c) \/ Writes(c)) /\ (Checks(c) => ~At(c, "run"))
    BY <1>1, <1>10 DEF Checks, Runs, Replies, Ingests, Writes, HoldsOn, At
  <2>2. stream'[a] = stream[a] /\ (Checks(c) => ran'[c] = ran[c])
    BY <1>2, <2>1
  <2>3. Asks(call[c].trigger, c) /\ NoneAhead(a, at) /\ ran[c] = 0
    BY <1>1, <1>2, <2>1 DEF OwnPlace, Handles, HasToRun, Stepping, Working, Placed
  <2>4. \A i \in DOMAIN stream'[a] : i > at => stream'[a][i].type # "INTENT"
    BY <2>2, <2>3 DEF NoneAhead
  <2>5. call'[c].pc \in {"decide", "effect"} /\ (HasToRun(c)' => ran'[c] = 0)
    BY <2>1, <2>2, <2>3 DEF HasToRun, Placed
  <2>6. QED
    BY <1>2, <2>1, <2>3, <2>4, <2>5
    DEF OwnPlace, NoneAhead, Handles, Stepping, Working, Placed
<1>11. CASE Writes(c)
  <2>1. /\ call[c].pc \in {"decide", "effect"} /\ call'[c].pc = "get"
        /\ call'[c].at = at /\ call'[c].trigger = call[c].trigger
        /\ call'[c].next \in {"look", "run"} /\ ~Replies(c) /\ ~At(c, "run")
    BY <1>1, <1>11 DEF Writes, Replies, HoldsOn, At
  <2>2. PICK e \in Events :
          /\ stream'[a] = Append(stream[a], e)
          /\ e.type = IF At(c, "decide") THEN "DECISION" ELSE "EFFECT"
          /\ call'[c].next = "run" => e.type = "DECISION"
    BY <1>11, WorksAppends DEF LogInv
  <2>3. /\ Asks(call[c].trigger, c) /\ NoneAhead(a, at)
        /\ At(c, "decide") => ran[c] = 0
    BY <1>1, <1>2, <2>1 DEF OwnPlace, Handles, HasToRun, Stepping, Working, Placed, At
  <2>4. \A i \in DOMAIN stream'[a] : i > at => stream'[a][i].type # "INTENT"
    BY <1>2, <2>2, <2>3 DEF NoneAhead
  <2>5. HasToRun(c)' => ran'[c] = 0
    BY <1>2, <2>1, <2>2, <2>3 DEF HasToRun, Placed
  <2>6. QED
    BY <1>2, <2>1, <2>3, <2>4, <2>5
    DEF OwnPlace, NoneAhead, Handles, Stepping, Working, Placed
<1>12. CASE Replies(c) \/ Fails(c)
  <2>1. call'[c].pc = "cleanup"
    BY <1>12 DEF Replies, Fails
  <2>2. QED
    BY <2>1 DEF OwnPlace, Stepping, Working, Placed
<1>13. QED
  BY <1>4, <1>5, <1>6, <1>7, <1>8, <1>9, <1>10, <1>11, <1>12 DEF Works

\* What such a call has run and answered.
LEMMA OwnAnswers ==
  ASSUME TypeOK, LogInv, AskInv, NEW c \in CallIds, Works(c), ~Cleans(c), ~At(c, "idle"),
         call[c] \in CallState, call[c].actor \in Actors, Own(c)
  PROVE  /\ call'[c].pc # "idle" => OwnAnswer(c)'
         /\ ran'[c] <= 1 /\ answer'[c] \in {0, c}
<1> PICK a \in Actors : a = call[c].actor
  OBVIOUS
<1>1. ran[c] \in Nat /\ ran[c] <= 1 /\ answer[c] \in {0, c}
      /\ (answer[c] = 0 \/ call[c].pc = "cleanup")
  BY StoreFacts DEF HistoryOK, Own, OwnAnswer
<1>2. CASE ~(At(c, "run") \/ Replies(c))
  <2>1. UNCHANGED <<ran[c], answer[c]>>
    BY <1>2, WorksAlone
  <2>2. call[c].pc # "cleanup"
    BY DEF Works, Cleans, Ingests, Looks, Drains, Fetches, Reads, Stores, Advances, Checks,
       Writes, Gets, Runs, Replies, Fails, At
  <2>3. QED
    BY <1>1, <2>1, <2>2 DEF OwnAnswer
<1>3. CASE At(c, "run")
  <2>1. ran[c] = 0
    BY <1>3 DEF Own, OwnPlace, Handles, HasToRun, Stepping, Working, Placed, At
  <2>2. ran'[c] <= 1
    BY <2>1, WorksRan
  <2>3. answer'[c] = answer[c] /\ answer[c] = 0
    BY <1>1, <1>3, WorksRan DEF Replies, At
  <2>4. QED
    BY <2>2, <2>3 DEF OwnAnswer
<1>4. CASE Replies(c)
  <2>1. /\ call[c].pc = "reply" /\ call'[c].pc \in {"idle", "cleanup"} /\ answer[c] = 0
        /\ ran'[c] = ran[c]
    BY <1>1, <1>4 DEF Replies, At
  <2>2. answer'[c] \in {0, c}
    <3>1. CASE UNCHANGED answer
      BY <2>1, <3>1
    <3>2. CASE /\ stream[a] # << >> /\ Last(stream[a]).type \in {"DECISION", "EFFECT"}
               /\ answer' = [answer EXCEPT ![c] = Last(stream[a]).call]
      <4>1. stream[a] \in Seq(Events)
        BY StoreFacts
      <4>2. PICK n \in Nat : n = Len(stream[a])
        BY <4>1
      <4>3. n \in DOMAIN stream[a] /\ Last(stream[a]) = stream[a][n]
            /\ \A i \in DOMAIN stream[a] : i = n \/ n > i
        BY <3>2, <4>1, <4>2 DEF Last
      <4>4. PICK i \in DOMAIN stream[a] : Asks(stream[a][i], c)
        BY <2>1, <3>2 DEF Own, OwnLog
      <4>5. n > i
        BY <3>2, <4>3, <4>4 DEF Asks
      <4>6. Last(stream[a]).call = c
        BY <2>1, <3>2, <4>3, <4>4, <4>5 DEF Own, OwnLog
      <4>7. QED
        BY <3>2, <4>6, StoreFacts DEF HistoryOK
    <3>3. QED
      BY <1>4, <3>1, <3>2 DEF Replies, Stream
  <2>3. QED
    BY <1>1, <2>1, <2>2 DEF OwnAnswer
<1>5. QED
  BY <1>2, <1>3, <1>4

\* Where such a call ends, its INTENT is behind the cursor or will not be met.
LEMMA OwnEnds ==
  ASSUME TypeOK, LogInv, DrainInv, AskInv, NEW c \in CallIds, Works(c), ~Cleans(c),
         ~At(c, "idle"), call[c] \in CallState, call[c].actor \in Actors, Own(c),
         call'[c].pc = "idle"
  PROVE  Over(c)'
<1> PICK a \in Actors : a = call[c].actor
  OBVIOUS
<1>1. ran'[c] <= 1 /\ answer'[c] \in {0, c}
  BY OwnAnswers
<1>2. Replies(c) \/ Fails(c)
  BY DEF Works, Cleans, Ingests, Looks, Drains, Fetches, Reads, Stores, Advances, Checks,
         Writes, Gets, Runs, CallState
<1>3. ~(Ingests(c) \/ Writes(c)) /\ ~Advances(c)
  BY <1>2 DEF Replies, Fails, Ingests, Writes, Advances, At
<1>4. UNCHANGED <<stream, cursor>> /\ stream[a] \in Seq(Events) /\ cursor[a] \in Nat
  BY <1>3, WorksAppends, WorksLeaves, StoreFacts DEF LogInv
<1>5. \A d \in CallIds : call'[d].actor # a
  <2>1. call'[c].actor # a
    BY <1>2, Bounds DEF Works, Own, Alone, Replies, Fails
  <2>2. QED
    BY <2>1 DEF Works, Own, Alone
<1>6. ASSUME NEW b \in Actors, NEW i \in DOMAIN stream'[b], Asks(stream'[b][i], c)
      PROVE  Left(b, i)'
  <2>1. b = a /\ i \in DOMAIN stream[a] /\ Asks(stream[a][i], c)
    BY <1>4, <1>6 DEF AskInv, At
  <2>2. Has(a, "TERMINATED") \/ NoneAhead(a, cursor[a])
    <3>1. CASE Fails(c)
      <4>1. Whole(a)
        BY <1>4, <2>1 DEF Whole, Own, Alone
      <4>2. QED
        BY <3>1, <4>1, FailsAtEnd
    <3>2. CASE Replies(c)
      BY <3>2 DEF Replies, Own, OwnPlace, At
    <3>3. QED
      BY <1>2, <3>1, <3>2
  <2>3. CASE Has(a, "TERMINATED")
    BY <1>4, <1>5, <2>1, <2>3 DEF Left, Has
  <2>4. CASE NoneAhead(a, cursor[a])
    <3>1. cursor[a] >= i
      BY <1>4, <2>1, <2>4 DEF NoneAhead, Asks
    <3>2. QED
      BY <1>4, <1>5, <2>1, <3>1 DEF Left
  <2>5. QED
    BY <2>2, <2>3, <2>4
<1>7. QED
  BY <1>1, <1>6 DEF Over

LEMMA WorksSolo ==
  ASSUME TypeOK, LogInv, DrainInv, SoloInv, NEW c \in CallIds, Works(c), ~Cleans(c),
         ~At(c, "idle"), call[c] \in CallState, call[c].actor \in Actors
  PROVE  SoloInv'
<1>1. AskInv /\ AskInv' /\ UNCHANGED <<calls, disturbed>>
  BY WorksAskInv, WorksAppends DEF SoloInv, LogInv
<1>2. ASSUME NEW d \in CallIds, d \notin disturbed, d <= calls
      PROVE  IF call'[d].pc = "idle" THEN Over(d)' ELSE Own(d)'
  <2>1. Settled(d)
    BY DEF SoloInv
  <2>2. CASE d = c
    <3>1. Own(c)
      BY <1>2, <2>1, <2>2 DEF Settled, At
    <3>2. CASE call'[c].pc = "idle"
      BY <1>1, <2>2, <3>1, <3>2, OwnEnds
    <3>3. CASE call'[c].pc # "idle"
      BY <1>1, <2>2, <3>1, <3>3, WorksAlone, OwnLogStays, OwnPlaceStays, OwnAnswers DEF Own
    <3>4. QED
      BY <3>2, <3>3
  <2>3. CASE d # c
    <3>1. call'[d] = call[d]
      BY <2>3 DEF Works
    <3>2. CASE call[d].pc = "idle"
      BY <1>1, <1>2, <2>1, <2>3, <3>1, <3>2, WorksOver DEF Settled
    <3>3. CASE call[d].pc # "idle"
      BY <1>1, <1>2, <2>1, <2>3, <3>1, <3>3, OthersOwn DEF Settled
    <3>4. QED
      BY <3>2, <3>3
  <2>4. QED
    BY <2>2, <2>3
<1>3. QED
  BY <1>1, <1>2 DEF SoloInv, Settled

LEMMA SoloInit == Init => SoloInv
<1> SUFFICES ASSUME Init PROVE SoloInv
  OBVIOUS
<1>1. \A b \in Actors : stream[b] = << >>
  BY DEF Init
<1>2. \A c \in CallIds : call[c].pc = "idle" /\ ran[c] = 0 /\ answer[c] = 0
  BY IdleFields DEF Init
<1>3. AskInv
  BY <1>1, <1>2 DEF AskInv, Stepping, Working, Placed
<1>4. \A c \in CallIds : Over(c)
  BY <1>1, <1>2 DEF Over
<1>5. QED
  BY <1>2, <1>3, <1>4 DEF SoloInv, Settled

\* The tool calls of one agent need not wait for each other (Executor.execute,
\* Agents/executor.py): one that nobody overlaps on its actor, though others
\* came before and controls go on, runs its tool at most once and returns the
\* answer to its own INTENT or none.
THEOREM CallsOnTheirOwn == Spec => []UndisturbedCalls
<1>1. TypeOK /\ LogInv /\ DrainInv /\ SoloInv /\ [Next]_vars => SoloInv'
  BY StepKinds, EnvironmentSolo, WorksSolo DEF LogInv
<1>2. TypeOK /\ SoloInv => UndisturbedCalls
  <2> SUFFICES ASSUME TypeOK, SoloInv, NEW c \in CallIds \ disturbed
               PROVE  ran[c] <= 1 /\ answer[c] \in {0, c}
    BY DEF UndisturbedCalls
  <2>1. Settled(c) /\ AskInv /\ calls \in Nat /\ c \in Nat
    BY StoreFacts, Bounds DEF SoloInv, HistoryOK
  <2>2. CASE c > calls
    BY <2>1, <2>2 DEF AskInv
  <2>3. CASE c <= calls
    BY <2>1, <2>3 DEF Settled, Over, Own, OwnAnswer
  <2>4. QED
    BY <2>1, <2>2, <2>3
<1>3. QED
  BY <1>1, <1>2, SoloInit, LogHolds, DrainHolds, PTL DEF Spec
=============================================================================
