---------------------------- MODULE MCOrderTracker ----------------------------
(* Instances of OrderTracker for TLC.                                      *)
EXTENDS OrderTracker
=============================================================================
