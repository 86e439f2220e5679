-------------------------- MODULE MCAuthRecursion --------------------------
(* `leaf` is acquired without authentication and `mid` with leaf; the      *)
(* provider of `self` sends with its own credential, under one id.         *)
EXTENDS AuthRecursion, TLC

CONSTANTS leaf, mid, self, leafKey, midKey, selfKey

With(k, c) == [key |-> k, credential |-> c]

NestedSends == (leaf :> {}) @@ (mid :> {With(leafKey, leaf)}) @@ (self :> {With(selfKey, self)})
NestedInvalidates == {With(midKey, mid), With(selfKey, self)}

ASSUME Hypotheses == CyclesSeen /\ NeedsAcyclic /\ KeysIdentify
=============================================================================
