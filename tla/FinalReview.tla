----------------------------- MODULE FinalReview -----------------------------
(***************************************************************************)
(* Observation windows and their final review: ObservationWindowService    *)
(* (Services/observation_window_service.py),                               *)
(* SustainedUseFinalReviewService                                          *)
(* (Services/sustained_use_final_review_service.py) and the repositories   *)
(* of windows, feedback and review records.                                *)
(*                                                                         *)
(* Every call is a process of the command line and commits statement by    *)
(* statement. It may die between two of them. What the review reads of the *)
(* rest of the database is abstracted to whether the scheduler ran in the  *)
(* window.                                                                 *)
(***************************************************************************)
EXTENDS Naturals, Sequences, FiniteSets

CONSTANTS
  Reviewers,
  Verdicts,        \* the final decisions
  MaxRows,         \* bound on windows and rows of feedback together
  MaxReviewed,     \* bound on the windows that anything but open and close is about
  MaxFeedback,     \* bound on rows of feedback
  MaxFailures      \* bound on calls that die

ASSUME ReviewAssumption ==
  /\ IsFiniteSet(Reviewers)
  /\ Verdicts \cap {"none", "PENDING"} = {}
  /\ {MaxRows, MaxReviewed, MaxFeedback, MaxFailures} \subseteq Nat

VARIABLES
  windows,      \* operator_observation_windows: the status of each
  operated,     \* the windows in which the scheduler has run
  feedback,     \* operator_feedback: the window of each
  record,       \* final_review_records, by window
  reviewer,     \* what each process is doing
  \* history, read by no action but Die:
  failures,     \* calls that died
  overlapped,   \* two calls have overlapped
  rivalled         \* the latest look for an open window met another call between
                \* its own look and its INSERT

reviewVars ==
  <<windows, operated, feedback, record, reviewer, failures, overlapped, rivalled>>

ALLOWED_DECISIONS == {"PENDING"} \cup Verdicts

WindowId   == 1 .. MaxRows
FeedbackId == 1 .. MaxFeedback

None == [made : {FALSE}]
FinalReviewRecord ==
  [made : {TRUE}, ids : SUBSET FeedbackId, decision : ALLOWED_DECISIONS]

\* The local variables of a call. A decision of "none" is no decision.
AtRest    == [pc : {"rest"}]
Opening   == [pc : {"open"}]
ClosingOf == [pc : {"close"}, window : WindowId]
Reviewing ==
  [pc : {"feedback", "review", "list", "find", "create", "update", "decide"},
   window : WindowId, decision : {"none"} \cup ALLOWED_DECISIONS,
   ids : SUBSET FeedbackId]

Calls == AtRest \cup Opening \cup ClosingOf \cup Reviewing

\* A list of feedback names rows of that window only.
ListFor(ids, w) == \A i \in ids : i \in DOMAIN feedback /\ feedback[i] = w

TablesOK ==
  /\ windows \in Seq({"ACTIVE", "CLOSED"}) /\ Len(windows) <= MaxRows
  /\ operated \subseteq DOMAIN windows
  /\ feedback \in Seq(DOMAIN windows) /\ Len(feedback) <= MaxFeedback
  /\ failures \in 0 .. MaxFailures /\ {overlapped, rivalled} \subseteq BOOLEAN

RecordsOK ==
  /\ record \in [WindowId -> None \cup FinalReviewRecord]
  /\ \A w \in WindowId : record[w].made => ListFor(record[w].ids, w)

CallsOK ==
  /\ reviewer \in [Reviewers -> Calls]
  /\ \A p \in Reviewers :
       /\ reviewer[p].pc \notin {"rest", "open"} =>
            reviewer[p].window \in DOMAIN windows
       /\ reviewer[p].pc \in {"update", "decide"} =>
            record[reviewer[p].window].made
       /\ reviewer[p].pc = "decide" => reviewer[p].decision \in ALLOWED_DECISIONS
       /\ reviewer[p].pc \notin {"rest", "open", "close"} =>
            ListFor(reviewer[p].ids, reviewer[p].window)

ReviewTypeOK == TablesOK /\ RecordsOK /\ CallsOK

ReviewInit ==
  /\ windows = << >> /\ operated = {} /\ feedback = << >>
  /\ record = [w \in WindowId |-> [made |-> FALSE]]
  /\ reviewer = [p \in Reviewers |-> [pc |-> "rest"]]
  /\ failures = 0 /\ overlapped = FALSE /\ rivalled = FALSE

(***************************************************************************)
(* Helpers                                                                 *)
(***************************************************************************)
IsAt(p, label) == reviewer[p].pc = label

\* A call begins, or goes on, or ends.
Start(p, state) ==
  /\ IsAt(p, "rest")
  /\ reviewer' = [reviewer EXCEPT ![p] = state]
  /\ overlapped' = (overlapped \/ \E q \in Reviewers \ {p} : ~IsAt(q, "rest"))
  /\ UNCHANGED failures

Proceed(p, state) ==
  /\ reviewer' = [reviewer EXCEPT ![p] = state]
  /\ UNCHANGED <<failures, overlapped, rivalled>>

Finish(p) == Proceed(p, [pc |-> "rest"])

Active == {w \in DOMAIN windows : windows[w] = "ACTIVE"}

\* Mutant: without its WHERE.
ListAll(w) == DOMAIN feedback

list_by_window(w) == {i \in DOMAIN feedback : feedback[i] = w}

(***************************************************************************)
(* ObservationWindowService                                                *)
(***************************************************************************)
\* Mutant: whatever is open.
BeginOpenAlways(p) ==
  /\ Len(windows) + Len(feedback) < MaxRows
  /\ Start(p, [pc |-> "open"])
  /\ rivalled' = \E q \in Reviewers \ {p} : IsAt(q, "open")
  /\ UNCHANGED <<windows, operated, feedback, record>>

\* open looks for an open window first; with one it raises.
BeginOpen(p) ==
  /\ Len(windows) + Len(feedback) < MaxRows
  /\ Active = {}
  /\ Start(p, [pc |-> "open"])
  /\ rivalled' = \E q \in Reviewers \ {p} : IsAt(q, "open")
  /\ UNCHANGED <<windows, operated, feedback, record>>

OpenWindow(p) ==
  /\ IsAt(p, "open")
  /\ Len(windows) + Len(feedback) < MaxRows
  /\ windows' = Append(windows, "ACTIVE")
  /\ Finish(p)
  /\ UNCHANGED <<operated, feedback, record>>

\* close of a given window, or of the newest that is open; it has to be open.
BeginClose(p, w) ==
  /\ w \in Active
  /\ Start(p, [pc |-> "close", window |-> w])
  /\ UNCHANGED <<windows, operated, feedback, record, rivalled>>

CloseWindow(p) ==
  /\ IsAt(p, "close")
  /\ windows' = [windows EXCEPT ![reviewer[p].window] = "CLOSED"]
  /\ Finish(p)
  /\ UNCHANGED <<operated, feedback, record>>

(***************************************************************************)
(* SustainedUseFinalReviewService: refresh_review, record_feedback and     *)
(* record_decision begin by resolving the window, a given one or the       *)
(* newest that is open: in either case one that exists.                    *)
(***************************************************************************)
BeginReview(p, label, w, decision) ==
  /\ w \in DOMAIN windows /\ w <= MaxReviewed
  /\ Start(p, [pc |-> label, window |-> w, decision |-> decision, ids |-> {}])
  /\ UNCHANGED <<windows, operated, feedback, record, rivalled>>

refresh_review(p, w) == BeginReview(p, "review", w, "none")

record_feedback(p, w) ==
  /\ Len(feedback) < MaxFeedback /\ Len(windows) + Len(feedback) < MaxRows
  /\ BeginReview(p, "feedback", w, "none")

record_decision(p, w, decision) == BeginReview(p, "review", w, decision)

CreateFeedback(p) ==
  /\ IsAt(p, "feedback")
  /\ Len(feedback) < MaxFeedback /\ Len(windows) + Len(feedback) < MaxRows
  /\ feedback' = Append(feedback, reviewer[p].window)
  /\ Proceed(p, [reviewer[p] EXCEPT !.pc = "review"])
  /\ UNCHANGED <<windows, operated, record>>

\* Mutant: the evidence of any window.
InsufficientAnywhere(w, decision) == decision \in Verdicts /\ operated = {}

\* A final decision needs a run of the scheduler in the window.
Insufficient(w, decision) == decision \in Verdicts /\ w \notin operated

\* generate_review, and what record_decision makes of it.
Review(p) ==
  /\ IsAt(p, "review")
  /\ IF Insufficient(reviewer[p].window, reviewer[p].decision) THEN Finish(p)
     ELSE Proceed(p, [reviewer[p] EXCEPT !.pc = "list"])
  /\ UNCHANGED <<windows, operated, feedback, record>>

\* _refresh_record
ListFeedback(p) ==
  /\ IsAt(p, "list")
  /\ Proceed(p, [reviewer[p] EXCEPT !.pc = "find",
                                    !.ids = list_by_window(reviewer[p].window)])
  /\ UNCHANGED <<windows, operated, feedback, record>>

FindRecord(p) ==
  /\ IsAt(p, "find")
  /\ Proceed(p, [reviewer[p] EXCEPT
       !.pc = IF record[reviewer[p].window].made THEN "update" ELSE "create"])
  /\ UNCHANGED <<windows, operated, feedback, record>>

\* After the refresh a decision is written; nothing else is.
Refreshed(p) ==
  IF reviewer[p].decision = "none" THEN Finish(p)
  ELSE Proceed(p, [reviewer[p] EXCEPT !.pc = "decide"])

\* Mutant: INSERT OR REPLACE.
CreateOrReplace(p) ==
  LET w == reviewer[p].window
  IN  /\ IsAt(p, "create")
      /\ record' = [record EXCEPT ![w] =
           [made |-> TRUE, ids |-> reviewer[p].ids, decision |-> "PENDING"]]
      /\ Refreshed(p)
      /\ UNCHANGED <<windows, operated, feedback>>

\* The index allows one row for a window: the call that comes second fails.
CreateRecord(p) ==
  LET w == reviewer[p].window
  IN  /\ IsAt(p, "create")
      /\ IF record[w].made THEN Finish(p) /\ UNCHANGED record
         ELSE /\ record' = [record EXCEPT ![w] =
                   [made |-> TRUE, ids |-> reviewer[p].ids,
                    decision |-> "PENDING"]]
              /\ Refreshed(p)
      /\ UNCHANGED <<windows, operated, feedback>>

update_evidence(p) ==
  /\ IsAt(p, "update")
  /\ record' = [record EXCEPT ![reviewer[p].window].ids = reviewer[p].ids]
  /\ Refreshed(p)
  /\ UNCHANGED <<windows, operated, feedback>>

WriteDecision(p) ==
  /\ IsAt(p, "decide")
  /\ record' =
       [record EXCEPT ![reviewer[p].window].decision = reviewer[p].decision]
  /\ Finish(p)
  /\ UNCHANGED <<windows, operated, feedback>>

(***************************************************************************)
(* The process dies, or a statement raises; the scheduler runs.            *)
(***************************************************************************)
Die(p) ==
  /\ ~IsAt(p, "rest")
  /\ failures < MaxFailures /\ failures' = failures + 1
  /\ reviewer' = [reviewer EXCEPT ![p] = [pc |-> "rest"]]
  /\ UNCHANGED <<windows, operated, feedback, record, overlapped, rivalled>>

Operate(w) ==
  /\ w \in DOMAIN windows \ operated /\ w <= MaxReviewed
  /\ operated' = operated \cup {w}
  /\ UNCHANGED <<windows, feedback, record, reviewer, failures, overlapped, rivalled>>

ReviewNext ==
  \/ \E w \in WindowId : Operate(w)
  \/ \E p \in Reviewers :
       \/ BeginOpen(p) \/ OpenWindow(p) \/ CloseWindow(p)
       \/ \E w \in WindowId :
            \/ BeginClose(p, w)
            \/ refresh_review(p, w) \/ record_feedback(p, w)
            \/ \E d \in ALLOWED_DECISIONS : record_decision(p, w, d)
       \/ CreateFeedback(p) \/ Review(p) \/ ListFeedback(p) \/ FindRecord(p)
       \/ CreateRecord(p) \/ update_evidence(p) \/ WriteDecision(p)
       \/ Die(p)

ReviewSpec == ReviewInit /\ [][ReviewNext]_reviewVars

(***************************************************************************)
(* Properties                                                              *)
(***************************************************************************)
\* The calls of open that have looked and not yet inserted.
Openers == {p \in Reviewers : IsAt(p, "open")}

\* Windows are open next to each other only because calls of open raced: each
\* of them looked before another one inserted, so there is at most one window
\* for each process. It does not last: once the windows of the race have been
\* closed, and open is called without a race, one is open at a time again,
\* whatever other calls overlap with it or die.
ExtraWindowsAreRaces ==
  Cardinality(Active) + Cardinality(Openers)
    <= IF rivalled THEN Cardinality(Reviewers) ELSE 1

\* Feedback that no record names.
Unlinked ==
  {i \in DOMAIN feedback :
     ~record[feedback[i]].made \/ i \notin record[feedback[i]].ids}

\* The record names all feedback of its window, however the calls that refresh
\* it were cut short: unless they overlap, what is missing is that of the
\* calls that died, and of the one that is under way. (Overlapping calls may
\* write an older list over a newer one.)
FeedbackIsLinked ==
  overlapped \/
    Cardinality(Unlinked)
      <= failures + Cardinality({p \in Reviewers : ~IsAt(p, "rest")})

\* A decision that is final rests on evidence of that very window, however
\* calls interleave.
FinalNeedsEvidence ==
  \A w \in WindowId : record[w].made /\ record[w].decision \in Verdicts =>
    w \in operated

\* What a person decided is changed by a person alone: never by a refresh or
\* by feedback that found no record and comes to create it too late.
OnlyPeopleDecide ==
  [][\A w \in WindowId :
       record[w].made =>
         /\ record'[w].made
         /\ record'[w].decision # record[w].decision =>
              \E p \in Reviewers :
                /\ IsAt(p, "decide") /\ reviewer[p].window = w
                /\ record'[w].decision = reviewer[p].decision]_reviewVars
=============================================================================
