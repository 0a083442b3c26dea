----------------------------- MODULE MCOTPLogin -----------------------------
(* Model-checking instances of OTPLogin: in process p1 a client with the
   shared store and one that may have it, in process p2 a client with it. *)
EXTENDS OTPLogin

CONSTANTS p1, p2, s1, x1, s2

MCProcesses == {p1, p2}
MCClients == {s1, x1, s2}
MCProcessOf == [c \in MCClients |-> IF c = s2 THEN p2 ELSE p1]
=============================================================================
