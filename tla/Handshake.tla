----------------------------- MODULE Handshake -----------------------------
(***************************************************************************)
(* refresher.login and authenticator.handshake (session.go) with the       *)
(* classification of errors (errors.go) and the events (auth.go): password,*)
(* OTP, next window, impersonation; rate limits, Retry-After, backoff and  *)
(* the deadline a login leaves for the next one.  The account lock and the *)
(* accepted OTP steps, which login uses too, are in OTPLogin.              *)
(***************************************************************************)
EXTENDS Integers, FiniteSets

CONSTANTS
    Answers,        \* what a request may meet
    Impersonates,   \* is an impersonation target configured
    MaxAttempts, BaseDelay, MaxDelay, Cooldown,     \* newRefresher
    LockoutWait,    \* accountLockoutWait
    Window,         \* length of a TOTP window
    MaxLogins       \* bound: logins of one client

(* An HTTP answer with its status, what the body says about a limit, and the
   parsed Retry-After; or no readable answer. *)
AnswerTypes ==
    [cause : {"api"}, status : 200 .. 599,
     says : {"nothing", "too_many", "wait_a_minute"}, after : Nat]
        \cup [cause : {"transport"}, status : {0}, says : {"nothing"}, after : {0}]

ASSUME HandshakeAssumption ==
    /\ Answers \subseteq AnswerTypes
    /\ Impersonates \in BOOLEAN
    /\ MaxAttempts \in Nat \ {0} /\ MaxLogins \in Nat
    /\ BaseDelay \in Nat \ {0} /\ MaxDelay \in Nat \ {0}
    /\ Cooldown \in Nat /\ LockoutWait \in Nat \ {0} /\ Window \in Nat \ {0}

VARIABLES
    pc,         \* where login is
    attempt,    \* the loop variable of login
    second,     \* was the first code of this handshake rejected
    clock,
    notBefore,  \* refresher.notBefore
    err,        \* the AuthError of the last handshake, then of login
    failedAt,   \* lastFailureAt
    owed,       \* history: events that are due, less those emitted, by type
    asked,      \* history: until when the server asked for silence
    codes,      \* history: windows of the codes rejected in this handshake
    logins      \* history: logins begun

vars == <<pc, attempt, second, clock, notBefore, err, failedAt,
          owed, asked, codes, logins>>

EventTypes == {"handshake_result", "attempt_result"}

Local(cause) == [cause |-> cause, status |-> 0, says |-> "nothing", after |-> 0]
NoError == [stage |-> "none", kind |-> "none", after |-> 0, of |-> Local("none")]

Init ==
    /\ pc = "start" /\ attempt = 0 /\ second = FALSE
    /\ clock = 0 /\ notBefore = 0 /\ failedAt = 0
    /\ err = NoError
    /\ owed = [t \in EventTypes |-> 0]
    /\ asked = 0 /\ codes = {} /\ logins = 1

----------------------------------------------------------------------------
(* Classification. *)

isRateLimited(e) == e.cause = "api" /\ (e.status = 429 \/ e.says # "nothing")

Accepted(a) == a.cause = "api" /\ a.status \in 200 .. 299

Rejected(a) == a.cause = "api" /\ a.status \in {400, 401}

(* Faulty: the lockout, which sends no Retry-After, is not recognised. *)
authRetryAfter_headerOnly(e) == e.after

authRetryAfter(e) ==
    IF e.after = 0 /\ e.says = "wait_a_minute" THEN LockoutWait ELSE e.after

KindOf(stage, e) ==
    CASE e.cause = "storage" -> "storage_failure"
      [] isRateLimited(e) -> "rate_limited"
      [] stage = "login" /\ Rejected(e) /\ ~isRateLimited(e) -> "rejected_credentials"
      [] stage = "otp_verification" /\ Rejected(e) /\ ~isRateLimited(e) -> "rejected_otp"
      [] e.cause = "api" /\ ~isRateLimited(e) /\
            (e.status = 403 \/ (stage = "impersonation" /\ e.status = 401)) ->
                "permission_denied"
      [] OTHER -> "transport_failure"

classifyAuthError(stage, e) ==
    [stage |-> stage, kind |-> KindOf(stage, e), after |-> authRetryAfter(e), of |-> e]

(* backoff: the shifted delay, capped also when the shift left the range, less
   up to a quarter of it. *)
Capped(n) ==
    LET d == BaseDelay * 2 ^ n IN IF d \in 1 .. MaxDelay THEN d ELSE MaxDelay

backoff(n) == {Capped(n) - j : j \in 0 .. Capped(n) \div 4}

Delays == IF err.after > 0 THEN {err.after} ELSE backoff(attempt)

----------------------------------------------------------------------------
(* handshake *)

One(t, S) == IF t \in S THEN 1 ELSE 0

(* A started handshake owes its result, a login or OTP request its own. *)
Emits(due, emitted) ==
    owed' = [t \in EventTypes |-> owed[t] + One(t, due) - One(t, emitted)]

finishHandshake(stage, e) ==
    /\ err' = classifyAuthError(stage, e)
    /\ pc' = "failed"

(* The server's word on when it may be asked again. *)
Hears(a) ==
    asked' = IF Accepted(a) \/ ~isRateLimited(a) THEN asked
             ELSE clock + CASE a.after > 0 -> a.after
                            [] a.after = 0 /\ a.says = "wait_a_minute" -> LockoutWait
                            [] OTHER -> (3 * Capped(attempt)) \div 4

(* beforeHandshake: a spent OTP step may be waited for. *)
Prepare ==
    /\ pc = "start"
    /\ \E wait \in {0, Window} : clock' = clock + wait
    /\ Emits({"handshake_result"}, {})
    /\ pc' = "password" /\ second' = FALSE /\ codes' = {}
    /\ UNCHANGED <<attempt, notBefore, err, failedAt, asked, logins>>

PrepareFails(cause) ==
    /\ pc = "start"
    /\ Emits({"handshake_result"}, {"handshake_result"})
    /\ finishHandshake("login", Local(cause))
    /\ second' = FALSE /\ codes' = {}
    /\ UNCHANGED <<attempt, clock, notBefore, failedAt, asked, logins>>

Password(a) ==
    /\ pc = "password"
    /\ Hears(a)
    /\ \/ Accepted(a) /\ Emits({"attempt_result"}, {"attempt_result"}) /\ pc' = "verify" /\ UNCHANGED err
       \/ /\ ~Accepted(a) /\ Emits({"attempt_result"}, {"attempt_result", "handshake_result"})
          /\ finishHandshake("login", a)
    /\ UNCHANGED <<attempt, second, clock, notBefore, failedAt, codes, logins>>

(* TOTP cannot decode the secret: no request is sent. *)
SecretUnusable ==
    /\ pc = "verify" /\ ~second
    /\ Emits({}, {"handshake_result"})
    /\ finishHandshake("otp_verification", Local("secret"))
    /\ UNCHANGED <<attempt, second, clock, notBefore, failedAt, asked, codes, logins>>

(* A first 401 that is no rate limit may be a replay: see NextWindow. *)
MayBeReplay(a) == ~second /\ ~isRateLimited(a) /\ a.status = 401

VerifyRefused(a) ==
    /\ pc = "verify" /\ ~Accepted(a)
    /\ Hears(a)
    /\ codes' = IF Rejected(a) THEN codes \cup {clock \div Window} ELSE codes
    /\ \/ MayBeReplay(a) /\ Emits({"attempt_result"}, {"attempt_result"}) /\ pc' = "window" /\ UNCHANGED err
       \/ /\ ~MayBeReplay(a) /\ Emits({"attempt_result"}, {"attempt_result", "handshake_result"})
          /\ finishHandshake("otp_verification", a)
    /\ UNCHANGED <<attempt, second, clock, notBefore, failedAt, logins>>

VerifyOK ==
    /\ pc = "verify"
    /\ pc' = IF Impersonates THEN "impersonate" ELSE "succeeded"
    /\ Emits({"attempt_result"}, {"attempt_result"} \cup IF Impersonates THEN {} ELSE {"handshake_result"})
    /\ UNCHANGED <<attempt, second, clock, notBefore, err, failedAt, asked, codes, logins>>

(* Faulty: the early return of a failed acceptOTPStep reports no attempt. *)
AcceptFails_silent(cause) ==
    /\ pc = "verify"
    /\ Emits({"attempt_result"}, {"handshake_result"})
    /\ finishHandshake("otp_verification", Local(cause))
    /\ UNCHANGED <<attempt, second, clock, notBefore, failedAt, asked, codes, logins>>

(* The server accepted the code, acceptOTPStep did not succeed. *)
AcceptFails(cause) ==
    /\ pc = "verify"
    /\ Emits({"attempt_result"}, {"attempt_result", "handshake_result"})
    /\ finishHandshake("otp_verification", Local(cause))
    /\ UNCHANGED <<attempt, second, clock, notBefore, failedAt, asked, codes, logins>>

(* Faulty: sleeps until the window has one second left. *)
NextWindow_early ==
    /\ pc = "window"
    /\ clock' = clock + Window - 1 - (clock % Window)
    /\ second' = TRUE /\ pc' = "verify"
    /\ UNCHANGED <<attempt, notBefore, err, failedAt, owed, asked, codes, logins>>

(* waitForNextWindow, one second into it. *)
NextWindow ==
    /\ pc = "window"
    /\ clock' = (clock \div Window + 1) * Window + 1
    /\ second' = TRUE /\ pc' = "verify"
    /\ UNCHANGED <<attempt, notBefore, err, failedAt, owed, asked, codes, logins>>

WindowCanceled ==
    /\ pc = "window"
    /\ Emits({}, {"handshake_result"})
    /\ finishHandshake("otp_verification", Local("context"))
    /\ UNCHANGED <<attempt, second, clock, notBefore, failedAt, asked, codes, logins>>

(* Impersonation does not go through doJSON: no attempt_result. *)
Impersonate(a) ==
    /\ pc = "impersonate"
    /\ Hears(a)
    /\ Emits({}, {"handshake_result"})
    /\ \/ Accepted(a) /\ pc' = "succeeded" /\ UNCHANGED err
       \/ ~Accepted(a) /\ finishHandshake("impersonation", a)
    /\ UNCHANGED <<attempt, second, clock, notBefore, failedAt, codes, logins>>

----------------------------------------------------------------------------
(* login *)

Returns ==
    /\ pc' = "returned"
    /\ UNCHANGED <<attempt, second, asked, codes, logins>>

Succeed ==
    /\ pc = "succeeded" /\ Returns
    /\ notBefore' = 0 /\ err' = NoError
    /\ UNCHANGED <<clock, failedAt, owed>>

GiveUp ==
    /\ pc = "failed" /\ ~isRateLimited(err.of) /\ Returns
    /\ failedAt' = clock
    /\ UNCHANGED <<clock, notBefore, err, owed>>

(* Faulty: the last answer's Retry-After is forgotten. *)
LastAttempt_backoffOnly ==
    /\ pc = "failed" /\ isRateLimited(err.of) /\ attempt = MaxAttempts - 1 /\ Returns
    /\ \E d \in backoff(attempt) : notBefore' = clock + d
    /\ failedAt' = clock
    /\ UNCHANGED <<clock, err, owed>>

LastAttempt ==
    /\ pc = "failed" /\ isRateLimited(err.of) /\ attempt = MaxAttempts - 1 /\ Returns
    /\ \E d \in Delays : notBefore' = clock + d
    /\ failedAt' = clock
    /\ UNCHANGED <<clock, err, owed>>

Retry ==
    /\ pc = "failed" /\ isRateLimited(err.of) /\ attempt < MaxAttempts - 1
    /\ \E d \in Delays : notBefore' = clock + d
    /\ pc' = "sleep"
    /\ UNCHANGED <<attempt, second, clock, err, failedAt, owed, asked, codes, logins>>

SleepEnds ==
    /\ pc = "sleep"
    /\ clock' = notBefore
    /\ attempt' = attempt + 1
    /\ pc' = "start"
    /\ UNCHANGED <<second, notBefore, err, failedAt, owed, asked, codes, logins>>

(* The context ends in the sleep: the error carries the whole delay. *)
SleepFails ==
    /\ pc = "sleep" /\ Returns
    /\ \E t \in {clock, notBefore - 1} : clock' = t /\ failedAt' = t
    /\ err' = [err EXCEPT !.kind = "rate_limited", !.after = notBefore - clock]
    /\ UNCHANGED <<notBefore, owed>>

(* The sleep returns before its deadline by this clock: no other attempt. *)
WakesEarly ==
    /\ pc = "sleep" /\ Returns
    /\ notBefore - 1 > clock
    /\ clock' \in {clock + 1, notBefore - 1} /\ failedAt' = clock'
    /\ err' = [err EXCEPT !.kind = "rate_limited", !.after = notBefore - clock']
    /\ UNCHANGED <<notBefore, owed>>

----------------------------------------------------------------------------
(* refresh, between two logins: the deadline, then the cooldown. *)
RefreshAllowed ==
    /\ clock >= notBefore
    /\ err # NoError => clock >= failedAt + Cooldown

Login ==
    /\ pc = "returned" /\ logins < MaxLogins
    /\ RefreshAllowed
    /\ pc' = "start" /\ attempt' = 0 /\ logins' = logins + 1
    /\ UNCHANGED <<second, clock, notBefore, err, failedAt, owed, asked, codes>>

(* Time passes while refresh refuses. *)
Refused ==
    /\ pc = "returned" /\ logins < MaxLogins
    /\ ~RefreshAllowed
    /\ clock' = clock + 1
    /\ UNCHANGED <<pc, attempt, second, notBefore, err, failedAt,
                   owed, asked, codes, logins>>

Next ==
    \/ Prepare \/ SecretUnusable \/ VerifyOK \/ NextWindow \/ WindowCanceled
    \/ \E cause \in {"storage", "context"} : PrepareFails(cause) \/ AcceptFails(cause)
    \/ \E a \in Answers : Password(a) \/ VerifyRefused(a) \/ Impersonate(a)
    \/ Succeed \/ GiveUp \/ LastAttempt
    \/ Retry \/ SleepEnds \/ SleepFails \/ WakesEarly
    \/ Login \/ Refused

Spec == Init /\ [][Next]_vars

----------------------------------------------------------------------------
Kinds == {"none", "storage_failure", "rate_limited", "rejected_credentials",
          "rejected_otp", "permission_denied", "transport_failure"}

TypeOK ==
    /\ pc \in {"start", "password", "verify", "window", "impersonate",
               "succeeded", "failed", "sleep", "returned"}
    /\ attempt \in 0 .. MaxAttempts - 1
    /\ second \in BOOLEAN
    /\ clock \in Nat /\ notBefore \in Nat /\ failedAt \in Nat /\ asked \in Nat
    /\ err.kind \in Kinds /\ err.after \in Nat
    /\ owed \in [EventTypes -> 0 .. 1]
    /\ codes \subseteq Nat /\ logins \in Nat

(* "Never spend another login before it has": a password is never sent before
   the time the server last asked for, within a login or in the next one, and
   an attempt follows another only after a rate limit. *)
WaitsAsAsked ==
    [][pc = "password" /\ pc' # pc =>
            /\ clock >= asked
            /\ attempt > 0 => err.kind = "rate_limited"]_vars

(* A login that ends in a rate limit leaves a deadline no earlier than the
   server asked for, and the RetryAfter of its error, if it has one, reaches
   that deadline: a caller that waits as long is not refused. *)
HintReachesDeadline ==
    pc = "returned" /\ err.kind = "rate_limited" =>
        /\ notBefore >= asked
        /\ err.after > 0 => failedAt + err.after >= notBefore

(* "An OTP rejection can wait for one new TOTP window": an OTP is reported as
   rejected with a 401 only when the codes of two windows were. *)
RejectedOTPIsFresh ==
    err.kind = "rejected_otp" /\ err.of.status = 401 /\ pc = "returned" =>
        Cardinality(codes) = 2

(* "Each attempted login and OTP request emits one attempt_result event";
   each handshake that started has one result. *)
EventsTellRequests ==
    /\ owed["attempt_result"] = 0
    /\ pc \in {"start", "failed", "succeeded", "sleep", "returned"} =>
            owed["handshake_result"] = 0

=============================================================================
