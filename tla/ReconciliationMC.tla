-------------------------- MODULE ReconciliationMC --------------------------
(***************************************************************************)
(* The instances of PaperTradingMC, audited.                               *)
(***************************************************************************)
EXTENDS PaperTradingMC, Performance

\* The requests of SequentialRequests and one more SELL, for a symbol that is
\* closed twice, and on the forex account a short position that is opened and
\* covered, by too much in one request, and a long one that is merged at another
\* price.
AuditRequests ==
  SequentialRequests
    \cup {Idx("k9", "SELL", 2, 5, {}),
          Fx("f1", "SELL", 1, 4, 5), Fx("f2", "BUY", 1, 3, 5),
          Fx("f3", "BUY", 1, 4, 3), Fx("f4", "BUY", 1, 6, 3),
          Fx("f5", "BUY", 2, 3, 5)}

\* Nothing reads the approval rows and the notifications.
WithoutBestEffort == <<orders, trades, positions, cash, keys, job, bounds, history>>
=============================================================================
