---------------------------- MODULE MCSafeAdapter ----------------------------
(* Instances of SafeAdapter for TLC.                                       *)
EXTENDS SafeAdapter
=============================================================================
