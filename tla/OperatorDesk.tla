----------------------------- MODULE OperatorDesk -----------------------------
(***************************************************************************)
(* The commands with which an operator decides: the approval of briefs     *)
(* (BriefApproval), the decision journal with its risk gate (RiskLedger),  *)
(* the observation windows with their final review (FinalReview), and the  *)
(* installation of the schema they work on (SchemaMigrations).             *)
(*                                                                         *)
(* No two of them write the same table. All that passes between them are   *)
(* the evidence of a review, which FinalReview abstracts, and the briefs   *)
(* of an approval, which BriefApproval takes with any status, so that      *)
(* nothing is lost by exploring them one at a time: the desk at work is    *)
(* chosen once, and the others rest. Init, Next and vars are those of      *)
(* BriefApproval.                                                          *)
(***************************************************************************)
EXTENDS BriefApproval, RiskLedger, FinalReview, SchemaMigrations,
        WatchlistScan

VARIABLE desk

deskVars == <<desk, vars, ledgerVars, reviewVars, migrationVars,
              scanVars>>

DeskInit ==
  /\ desk \in {"approval", "journal", "review", "schema", "scan"}
  /\ Init /\ LedgerInit /\ ReviewInit /\ MigrationInit /\ ScanInit

DeskNext ==
  /\ UNCHANGED desk
  /\ \/ desk = "approval" /\ Next
        /\ UNCHANGED <<ledgerVars, reviewVars, migrationVars, scanVars>>
     \/ desk = "journal" /\ LedgerNext
        /\ UNCHANGED <<vars, reviewVars, migrationVars, scanVars>>
     \/ desk = "review" /\ ReviewNext
        /\ UNCHANGED <<vars, ledgerVars, migrationVars, scanVars>>
     \/ desk = "schema" /\ MigrationNext
        /\ UNCHANGED <<vars, ledgerVars, reviewVars, scanVars>>
     \/ desk = "scan" /\ ScanNext
        /\ UNCHANGED <<vars, ledgerVars, reviewVars, migrationVars>>

DeskSpec == DeskInit /\ [][DeskNext]_deskVars

\* The tables of the desks are well typed: there is one row of limits,
\* and a record lists feedback of its own window only, all of it but that of
\* the calls that died or are under way.
DeskTablesOK ==
  /\ TypeOK /\ LedgerTypeOK /\ ReviewTypeOK /\ MigrationTypeOK /\ ScanTypeOK
  /\ FeedbackIsLinked
=============================================================================
