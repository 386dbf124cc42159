---------------------------- MODULE MCA2AExecutor ----------------------------
(* The instance of A2AExecutor for TLC. *)
EXTENDS A2AExecutor
=============================================================================
