---------------------------- MODULE MCEventFeed ----------------------------
(* Model checking EventFeed: two publishers, two connections that come and  *)
(* go, and queues that one frame fills.                                     *)
EXTENDS EventFeed

=============================================================================
