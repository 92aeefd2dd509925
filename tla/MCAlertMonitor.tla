---------------------------- MODULE MCAlertMonitor ----------------------------
(* An instance of AlertMonitor for TLC.                                    *)
EXTENDS AlertMonitor

\* The first alert sells; the others buy, under the daily-loss check.
MCAction == [a \in Alerts |-> IF a = 1 THEN "SELL" ELSE "BUY"]
=============================================================================
