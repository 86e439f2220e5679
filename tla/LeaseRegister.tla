---------------------------- MODULE LeaseRegister ----------------------------
(***************************************************************************)
(* What a credential slot promises to the requests that lease from it,     *)
(* without tasks, attempts, locks or wake-ups: a register whose contents   *)
(* are stamped with a generation, and in which a generation is filled at   *)
(* most once.  A lease is a copy of the register, so a generation alone    *)
(* tells which credential a request carried.                               *)
(***************************************************************************)
EXTENDS Naturals

VARIABLES
    gen,    \* the current generation
    cell,   \* the credential held under gen, 0 when there is none
    leases  \* every copy handed out

registerVars == <<gen, cell, leases>>

Init ==
    /\ gen = 0
    /\ cell = 0
    /\ leases = {}

\* A newer generation supersedes the register's contents, with a credential
\* or without one.
Supersede ==
    /\ gen' \in Nat /\ gen' > gen
    /\ cell' \in Nat
    /\ UNCHANGED leases

\* A generation that has no credential yet receives it, and the filler may
\* take the first lease.
Fill ==
    /\ cell = 0
    /\ cell' \in Nat \ {0}
    /\ leases' \in {leases, leases \cup {[value |-> cell', gen |-> gen]}}
    /\ UNCHANGED gen

Copy ==
    /\ cell # 0
    /\ leases' = leases \cup {[value |-> cell, gen |-> gen]}
    /\ UNCHANGED <<gen, cell>>

Next == Supersede \/ Fill \/ Copy

Spec == Init /\ [][Next]_registerVars

\* Two leases of one generation hold the same credential.
OneCredentialPerGeneration ==
    \A k, l \in leases : k.gen = l.gen => k.value = l.value
=============================================================================
