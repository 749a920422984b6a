------------------------------ MODULE MCAccounts ------------------------------
(* Accounts and organizations on small instances, for TLC.                   *)
EXTENDS Accounts, TLC

CONSTANTS u1, u2, u3, o1, o2, p1, p2

Limits == "small" :> 2 @@ "large" :> 3

(* Long runs of requests about accounts, long runs about an organization,    *)
(* and short ones of both.                                                   *)
Mixes == {[account |-> 4, tenant |-> 0], [account |-> 0, tenant |-> 4],
          [account |-> 2, tenant |-> 1], [account |-> 1, tenant |-> 3]}

Symmetry == Permutations(User) \cup Permutations(Org) \cup Permutations(Process)
===============================================================================
