---------------------------- MODULE MCTrackedJar ----------------------------
(* Model-checking instance of TrackedJar: the session cookie and the CSRF
   token, and the answers that treat them differently. *)
EXTENDS TrackedJar, TLC

CONSTANTS session, csrf

Line(kind) == <<[kind |-> kind, age |-> IF kind = "lasting" THEN 1 ELSE 0]>>

Answer(s, c) == [k \in Keys |-> IF k = session THEN s ELSE c]

MCAnswers == {
    Answer(Line("session"), Line("session")),
    Answer(Line("session"), Line("lasting")),
    Answer(Line("delete") \o Line("lasting"), << >>),
    Answer(Line("session") \o Line("delete"), << >>),
    Answer(Line("delete"), Line("session")),
    Answer(Line("huge"), << >>),
    Answer(<< >>, Line("session"))}

Symmetry == Permutations(Goroutines)
=============================================================================
