-------------------------- MODULE MCSelfRecursion --------------------------
(* One credential whose provider sends with it.  It is not Seen, for each  *)
(* of two reasons: a protected request prepares it, and provider.invalidate *)
(* sends with it under another id than acquire.                            *)
EXTENDS AuthRecursion, TLC

CONSTANTS self, token, revoke

SelfSends == self :> {[key |-> token, credential |-> self]}
RevokeSends == {[key |-> revoke, credential |-> self]}
=============================================================================
