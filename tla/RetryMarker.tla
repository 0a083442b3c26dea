----------------------------- MODULE RetryMarker -----------------------------
(***************************************************************************)
(* What logins need of the record that holds the retry deadline of an      *)
(* account (account_retry.go): it only moves later, except that a failure  *)
(* of the machine may undo what no save has reported yet.                  *)
(***************************************************************************)
EXTENDS Integers

VARIABLES
    deadline,   \* what a load of the record returns, 0 when there is none
    reported    \* the latest deadline whose save returned nil

Init == deadline = 0 /\ reported = 0

Raise == deadline' > deadline /\ UNCHANGED reported

Report == reported' > reported /\ reported' <= deadline /\ UNCHANGED deadline

Forget == reported <= deadline' /\ deadline' < deadline /\ UNCHANGED reported

Next == Raise \/ Report \/ Forget

Spec == Init /\ [][Next]_<<deadline, reported>>

=============================================================================
