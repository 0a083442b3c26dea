---------------------------- MODULE AccountMutex ----------------------------
(***************************************************************************)
(* What a login needs of an account lock, whatever implements it: callers   *)
(* claim an account, at most one holds it, and a caller may withdraw.       *)
(***************************************************************************)
CONSTANTS Callers, Accounts, NoAccount

VARIABLE claim      \* each caller: its phase and the account it claims

NoClaim == [phase |-> "idle", account |-> NoAccount]

Init == claim = [c \in Callers |-> NoClaim]

Held(a) == \E c \in Callers :
    claim[c] = [phase |-> "holding", account |-> a]

Ask(c, a) ==
    /\ claim[c] = NoClaim
    /\ claim' = [claim EXCEPT ![c] = [phase |-> "waiting", account |-> a]]

Grant(c, a) ==
    /\ claim[c] = [phase |-> "waiting", account |-> a]
    /\ ~Held(a)
    /\ claim' = [claim EXCEPT ![c] = [phase |-> "holding", account |-> a]]

(* Release, or a withdrawn claim. *)
Quit(c) ==
    /\ claim[c] # NoClaim
    /\ claim' = [claim EXCEPT ![c] = NoClaim]

Next == \E c \in Callers :
    \/ Quit(c)
    \/ \E a \in Accounts : Ask(c, a) \/ Grant(c, a)

Spec == Init /\ [][Next]_claim

=============================================================================
