--------------------------- MODULE MCSingleFlight ---------------------------
(* Callers, keys and results are model values, given in the cfg files. *)
EXTENDS SingleFlight
=============================================================================
