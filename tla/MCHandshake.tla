---------------------------- MODULE MCHandshake ----------------------------
(* Model-checking instance of Handshake: one answer of each kind. *)
EXTENDS Handshake

Api(status, says, after) ==
    [cause |-> "api", status |-> status, says |-> says, after |-> after]

MCAnswers == {
    Api(200, "nothing", 0),
    Api(400, "nothing", 0),
    Api(401, "nothing", 0),
    Api(401, "wait_a_minute", 0),
    Api(403, "too_many", 0),
    Api(403, "nothing", 0),
    Api(429, "nothing", 5),
    Api(500, "nothing", 3),
    [cause |-> "transport", status |-> 0, says |-> "nothing", after |-> 0]}
=============================================================================
