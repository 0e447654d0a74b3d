--------------------------- MODULE MCShellNotice ---------------------------
(* One shell call over three lives of the service and one of another server. *)
EXTENDS ShellNotice
=============================================================================
