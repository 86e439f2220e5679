-------------------------- MODULE MCCredentialSlot --------------------------
(* CredentialSlot on a small instance: two tasks and counters small enough   *)
(* to overflow.  Liveness is checked, so the tasks are not made symmetric.   *)
EXTENDS CredentialSlot
=============================================================================
