----------------------------- MODULE MCEventLog -----------------------------
(* Model checking EventLog: one follower, a fork of a parent with two       *)
(* events, and more events than a page holds.                               *)
EXTENDS EventLog

=============================================================================
