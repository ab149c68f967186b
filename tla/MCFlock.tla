------------------------------- MODULE MCFlock -------------------------------
(* Policies of a Flock's queue for TLC. *)
EXTENDS Flock

MCPolicies == {[DefaultPolicy EXCEPT !.dedup_window_secs = 1]}

MCNoDedup == {DefaultPolicy}
=============================================================================
