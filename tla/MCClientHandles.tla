--------------------------- MODULE MCClientHandles ---------------------------
(***************************************************************************)
(* Three tasks.  One budget is for the configuration of clones, the other   *)
(* for secrets that race with logins and with requests under every retry    *)
(* mode.                                                                    *)
(***************************************************************************)
EXTENDS ClientHandles, TLC

MCModes == {[t |-> "ProtocolRecovery"], [t |-> "Disabled"],
            [t |-> "Status", max |-> 2, statuses |-> {"503"}],
            [t |-> "Status", max |-> 3, statuses |-> {"503"}],
            [t |-> "Status", max |-> 1, statuses |-> {}]}
MCOrigins == {[t |-> "FixedSingle", scheme |-> "https", sound |-> TRUE],
              [t |-> "FixedSingle", scheme |-> "http", sound |-> FALSE],
              [t |-> "Dynamic", scheme |-> "https"]}
MCBudgets == {[configs |-> 3, sets |-> 0, logins |-> 0, requests |-> 0],
              [configs |-> 0, sets |-> 2, logins |-> 1, requests |-> 1]}
Symmetric == Permutations(Tasks)
==============================================================================
