-------------------------- MODULE HandshakeProofs --------------------------
(***************************************************************************)
(* What Handshake guarantees for all answers, delays, windows and numbers  *)
(* of attempts and logins: the types, the events, and the deadlines.       *)
(***************************************************************************)
EXTENDS Handshake, FiniteSetTheorems, TLAPS

Causes == {"api", "transport", "storage", "context", "secret", "none"}

Raw == [cause : Causes, status : Nat,
        says : {"nothing", "too_many", "wait_a_minute"}, after : Nat]

Stages == {"none", "login", "otp_verification", "impersonation"}

Errs == [stage : Stages, kind : Kinds, after : Nat, of : Raw]

TypeInv == TypeOK /\ err \in Errs

(* A handshake that runs owes its result. *)
OwedInv ==
    /\ owed["attempt_result"] = 0
    /\ owed["handshake_result"] =
            IF pc \in {"password", "verify", "window", "impersonate"} THEN 1 ELSE 0

(* The time the server named is over, or it is in the error, and then in the
   deadline. *)
DeadlineInv ==
    /\ pc \in {"start", "password", "verify", "window", "impersonate", "succeeded"} =>
            clock >= asked
    /\ pc \in {"start", "password"} /\ attempt > 0 => err.kind = "rate_limited"
    /\ pc = "failed" =>
        /\ err.kind = "rate_limited" <=> isRateLimited(err.of)
        /\ err.kind # "rate_limited" => clock >= asked
        /\ err.kind = "rate_limited" =>
            asked = clock + IF err.after > 0 THEN err.after
                            ELSE (3 * Capped(attempt)) \div 4
    /\ pc = "sleep" =>
        /\ notBefore > clock /\ notBefore >= asked /\ err.kind = "rate_limited"
        /\ attempt < MaxAttempts - 1
    /\ pc = "returned" =>
        /\ clock >= asked \/ notBefore >= asked
        /\ err.kind = "rate_limited" =>
            notBefore >= asked /\ (err.after > 0 => failedAt + err.after >= notBefore)

IInv == TypeInv /\ OwedInv /\ DeadlineInv

----------------------------------------------------------------------------
(* The delays of backoff() are positive, at most the cap, and at least three
   quarters of the capped delay. *)
LEMMA BackoffBounds ==
    ASSUME NEW n \in Nat
    PROVE  /\ Capped(n) \in Nat \ {0}
           /\ \A d \in backoff(n) :
                d \in Nat \ {0} /\ d >= (3 * Capped(n)) \div 4
<1>1. Capped(n) \in Nat \ {0}
  <2> DEFINE d == BaseDelay * 2 ^ n
  <2>1. d \in 1 .. MaxDelay => d \in Nat \ {0}
    BY HandshakeAssumption
  <2>2. MaxDelay \in Nat \ {0}
    BY HandshakeAssumption
  <2>3. Capped(n) = IF d \in 1 .. MaxDelay THEN d ELSE MaxDelay
    BY DEF Capped
  <2> QED BY <2>1, <2>2, <2>3
<1>2. ASSUME NEW d \in backoff(n)
      PROVE  d \in Nat \ {0} /\ d >= (3 * Capped(n)) \div 4
  <2>1. PICK j \in 0 .. Capped(n) \div 4 : d = Capped(n) - j
    BY DEF backoff
  <2> QED BY <1>1, <2>1
<1> QED BY <1>1, <1>2

(* classifyAuthError keeps the cause and the server's delay, and says
   rate_limited exactly of what isRateLimited recognises. *)
LEMMA Classification ==
    ASSUME NEW stage \in Stages, NEW e \in Raw
    PROVE  /\ classifyAuthError(stage, e) \in Errs
           /\ classifyAuthError(stage, e).of = e
           /\ classifyAuthError(stage, e).after = authRetryAfter(e)
           /\ classifyAuthError(stage, e).kind = "rate_limited" <=> isRateLimited(e)
<1>1. KindOf(stage, e) \in Kinds
  BY DEF KindOf, Kinds
<1>2. KindOf(stage, e) = "rate_limited" <=> isRateLimited(e)
  BY DEF KindOf, isRateLimited, Raw
<1>3. authRetryAfter(e) \in Nat
  BY HandshakeAssumption DEF authRetryAfter, Raw
<1> QED BY <1>1, <1>2, <1>3 DEF classifyAuthError, Errs

LEMMA AnswersAreRaw == Answers \subseteq Raw
<1> SUFFICES ASSUME NEW a \in Answers
             PROVE  a \in Raw
  OBVIOUS
<1>1. a \in AnswerTypes
  BY HandshakeAssumption
<1>2. CASE a \in [cause : {"api"}, status : 200 .. 599,
                  says : {"nothing", "too_many", "wait_a_minute"}, after : Nat]
  BY <1>2 DEF Raw, Causes
<1>3. CASE a \in [cause : {"transport"}, status : {0}, says : {"nothing"}, after : {0}]
  BY <1>3 DEF Raw, Causes
<1> QED BY <1>1, <1>2, <1>3 DEF AnswerTypes

LEMMA LocalIsRaw ==
    ASSUME NEW cause \in Causes, cause # "api"
    PROVE  Local(cause) \in Raw /\ ~isRateLimited(Local(cause))
BY DEF Local, Raw, Causes, isRateLimited

(* A refusal, or a failure on this side, leaves the error that knows how long
   the server asked to wait. *)
LEMMA FinishStep ==
    ASSUME TypeInv, clock >= asked,
           NEW stage \in Stages, NEW e \in Raw,
           finishHandshake(stage, e),
           clock' = clock, attempt' = attempt,
           (Hears(e) /\ ~Accepted(e)) \/ (asked' = asked /\ ~isRateLimited(e))
    PROVE  err' \in Errs /\ asked' \in Nat /\ DeadlineInv'
<1> DEFINE c == classifyAuthError(stage, e)
<1>1. pc' = "failed" /\ err' = c
  BY DEF finishHandshake
<1>2. c \in Errs /\ c.of = e /\ c.after = authRetryAfter(e)
      /\ (c.kind = "rate_limited" <=> isRateLimited(e))
  BY Classification
<1>3. attempt \in Nat /\ clock \in Nat /\ asked \in Nat
  BY HandshakeAssumption DEF TypeInv, TypeOK
<1>4. Capped(attempt) \in Nat
  BY <1>3, BackoffBounds
<1>5. CASE ~isRateLimited(e)
  <2>1. asked' = asked
    BY <1>5 DEF Hears
  <2>2. isRateLimited(err.of)' <=> isRateLimited(e)
    BY <1>1, <1>2 DEF isRateLimited
  <2> QED BY <1>1, <1>2, <1>3, <1>5, <2>1, <2>2 DEF DeadlineInv
<1>6. CASE isRateLimited(e)
  <2>1. Hears(e) /\ ~Accepted(e)
    BY <1>6
  <2>2. isRateLimited(err.of)' <=> isRateLimited(e)
    BY <1>1, <1>2 DEF isRateLimited
  <2>3. e.after \in Nat /\ LockoutWait \in Nat \ {0}
    BY HandshakeAssumption DEF Raw
  <2>4. Capped(attempt)' = Capped(attempt)
    BY DEF Capped
  <2>5. asked' = clock + IF c.after > 0 THEN c.after ELSE (3 * Capped(attempt)) \div 4
    BY <1>2, <1>4, <1>6, <2>1, <2>3 DEF Hears, authRetryAfter
  <2>6. asked' \in Nat
    BY <1>2, <1>3, <1>4, <2>5 DEF Errs
  <2> QED BY <1>1, <1>2, <1>3, <1>6, <2>2, <2>4, <2>5, <2>6 DEF DeadlineInv
<1> QED BY <1>5, <1>6

(* The deadline after a rate limit is not before the time the server named. *)
LEMMA DelayBounds ==
    ASSUME IInv, pc = "failed", err.kind = "rate_limited", NEW d \in Delays
    PROVE  /\ d \in Nat \ {0}
           /\ clock + d >= asked
           /\ err.after > 0 => d = err.after
<1>1. attempt \in Nat /\ clock \in Nat /\ err.after \in Nat
  BY HandshakeAssumption DEF IInv, TypeInv, TypeOK
<1>2. asked = clock + IF err.after > 0 THEN err.after
                      ELSE (3 * Capped(attempt)) \div 4
  BY DEF IInv, DeadlineInv
<1>3. CASE err.after > 0
  BY <1>1, <1>2, <1>3 DEF Delays
<1>4. CASE ~(err.after > 0)
  <2>1. d \in backoff(attempt)
    BY <1>4 DEF Delays
  <2>2. d \in Nat \ {0} /\ d >= (3 * Capped(attempt)) \div 4 /\ Capped(attempt) \in Nat
    BY <1>1, <2>1, BackoffBounds
  <2> QED BY <1>1, <1>2, <1>4, <2>2
<1> QED BY <1>3, <1>4

LEMMA InitOK == Init => IInv
<1> SUFFICES ASSUME Init PROVE IInv
  OBVIOUS
<1>1. TypeInv
  <2>1. err \in Errs
    BY DEF Init, NoError, Local, Errs, Stages, Kinds, Raw, Causes
  <2>2. attempt \in 0 .. MaxAttempts - 1
    BY HandshakeAssumption DEF Init
  <2>3. owed \in [EventTypes -> 0 .. 1]
    BY DEF Init, EventTypes
  <2> QED BY <2>1, <2>2, <2>3 DEF Init, TypeInv, TypeOK, Errs
<1>2. OwedInv /\ DeadlineInv
  BY DEF Init, OwedInv, DeadlineInv, EventTypes
<1> QED BY <1>1, <1>2 DEF IInv

(* Events: what is owed after an action that emits what it must. *)
LEMMA EmitsStep ==
    ASSUME TypeInv, OwedInv, NEW due, NEW emitted, Emits(due, emitted),
           "attempt_result" \in due <=> "attempt_result" \in emitted,
           One("handshake_result", due) - One("handshake_result", emitted) =
                (IF pc' \in {"password", "verify", "window", "impersonate"} THEN 1 ELSE 0)
                - (IF pc \in {"password", "verify", "window", "impersonate"} THEN 1 ELSE 0)
    PROVE  OwedInv' /\ owed' \in [EventTypes -> 0 .. 1]
<1> DEFINE R == {"password", "verify", "window", "impersonate"}
<1>1. owed["attempt_result"] = 0
      /\ owed["handshake_result"] = IF pc \in R THEN 1 ELSE 0
  BY DEF OwedInv
<1>2. owed' = [t \in EventTypes |-> owed[t] + One(t, due) - One(t, emitted)]
  BY DEF Emits
<1>3. owed'["attempt_result"] = 0
  BY <1>1, <1>2 DEF EventTypes, One
<1>4. owed'["handshake_result"]
        = owed["handshake_result"] + One("handshake_result", due)
                                   - One("handshake_result", emitted)
  BY <1>2 DEF EventTypes
<1>5. One("handshake_result", due) \in Int /\ One("handshake_result", emitted) \in Int
  BY DEF One
<1>6. owed'["handshake_result"] = IF pc' \in R THEN 1 ELSE 0
  <2>1. CASE pc \in R
    BY <1>1, <1>4, <1>5, <2>1
  <2>2. CASE pc \notin R
    BY <1>1, <1>4, <1>5, <2>2
  <2> QED BY <2>1, <2>2
<1>7. \A t \in EventTypes : owed'[t] \in 0 .. 1
  BY <1>3, <1>6 DEF EventTypes
<1> QED BY <1>2, <1>3, <1>6, <1>7 DEF OwedInv

(* The next window lies ahead. *)
LEMMA WindowAhead ==
    ASSUME NEW t \in Nat
    PROVE  (t \div Window + 1) * Window + 1 \in Nat /\ (t \div Window + 1) * Window + 1 >= t
<1> DEFINE q == t \div Window
<1>1. Window \in Nat \ {0}
  BY HandshakeAssumption
<1>2. q \in Nat /\ t = Window * q + (t % Window) /\ t % Window \in 0 .. Window - 1
  BY <1>1
<1>3. (q + 1) * Window = Window * q + Window
  BY <1>1, <1>2
<1>4. Window * q \in Nat
  BY <1>1, <1>2
<1> QED BY <1>1, <1>2, <1>3, <1>4

(* One step per action; what it does to the types, the events, the deadline. *)
LEMMA NextOK == IInv /\ [Next]_vars => IInv'
<1> SUFFICES ASSUME IInv, [Next]_vars
             PROVE  IInv'
  OBVIOUS
<1> USE HandshakeAssumption
<1>0. TypeInv /\ OwedInv /\ DeadlineInv /\ TypeOK /\ err \in Errs
  BY DEF IInv, TypeInv
<1>a. /\ attempt \in 0 .. MaxAttempts - 1 /\ second \in BOOLEAN
      /\ clock \in Nat /\ notBefore \in Nat /\ failedAt \in Nat /\ asked \in Nat
      /\ owed \in [EventTypes -> 0 .. 1] /\ codes \subseteq Nat /\ logins \in Nat
      /\ err.kind \in Kinds /\ err.after \in Nat
  BY <1>0 DEF TypeOK
<1>1. CASE Prepare
  <2>1. OwedInv' /\ owed' \in [EventTypes -> 0 .. 1]
    BY <1>0, <1>1, EmitsStep DEF Prepare, One
  <2>2. clock' \in Nat /\ clock' >= clock
    BY <1>a, <1>1 DEF Prepare
  <2>3. TypeInv'
    BY <1>0, <1>a, <1>1, <2>1, <2>2 DEF Prepare, TypeInv, TypeOK
  <2>4. DeadlineInv'
    BY <1>0, <1>a, <1>1, <2>2 DEF Prepare, DeadlineInv
  <2> QED BY <2>1, <2>3, <2>4 DEF IInv
<1>2. ASSUME NEW cause \in {"storage", "context"}, PrepareFails(cause)
      PROVE  IInv'
  <2>1. err' \in Errs /\ asked' \in Nat /\ DeadlineInv'
    <3>1. Local(cause) \in Raw /\ ~isRateLimited(Local(cause))
      BY LocalIsRaw DEF Causes
    <3>2. clock >= asked
      BY <1>0, <1>2 DEF PrepareFails, DeadlineInv
    <3> QED BY <1>0, <1>2, <3>1, <3>2, FinishStep DEF PrepareFails, Stages
  <2>2. OwedInv' /\ owed' \in [EventTypes -> 0 .. 1]
    BY <1>0, <1>2, EmitsStep DEF PrepareFails, finishHandshake, One
  <2>3. TypeInv'
    BY <1>0, <1>a, <1>2, <2>1, <2>2
       DEF PrepareFails, finishHandshake, TypeInv, TypeOK, Errs
  <2> QED BY <2>1, <2>2, <2>3 DEF IInv
<1>3. ASSUME NEW a \in Answers, Password(a)
      PROVE  IInv'
  <2>0. a \in Raw /\ clock >= asked /\ pc = "password"
    BY <1>0, <1>3, AnswersAreRaw DEF Password, DeadlineInv
  <2>1. CASE Accepted(a) /\ pc' = "verify" /\ UNCHANGED err
             /\ Emits({"attempt_result"}, {"attempt_result"})
    <3>1. asked' = asked
      BY <1>3, <2>1 DEF Password, Hears
    <3>2. OwedInv' /\ owed' \in [EventTypes -> 0 .. 1]
      BY <1>0, <2>0, <2>1, EmitsStep DEF One
    <3>3. TypeInv'
      BY <1>0, <1>a, <1>3, <2>1, <3>1, <3>2 DEF Password, TypeInv, TypeOK
    <3>4. DeadlineInv'
      BY <1>0, <1>3, <2>0, <2>1, <3>1 DEF Password, DeadlineInv
    <3> QED BY <3>2, <3>3, <3>4 DEF IInv
  <2>2. CASE /\ ~Accepted(a) /\ finishHandshake("login", a)
             /\ Emits({"attempt_result"}, {"attempt_result", "handshake_result"})
    <3>1. err' \in Errs /\ asked' \in Nat /\ DeadlineInv'
      BY <1>0, <1>3, <2>0, <2>2, FinishStep DEF Password, Stages
    <3>2. OwedInv' /\ owed' \in [EventTypes -> 0 .. 1]
      BY <1>0, <2>0, <2>2, EmitsStep DEF finishHandshake, One
    <3>3. TypeInv'
      BY <1>0, <1>a, <1>3, <2>2, <3>1, <3>2
         DEF Password, finishHandshake, TypeInv, TypeOK, Errs
    <3> QED BY <3>1, <3>2, <3>3 DEF IInv
  <2> QED BY <1>3, <2>1, <2>2 DEF Password
<1>4. CASE SecretUnusable
  <2>1. err' \in Errs /\ asked' \in Nat /\ DeadlineInv'
    <3>1. Local("secret") \in Raw /\ ~isRateLimited(Local("secret"))
      BY LocalIsRaw DEF Causes
    <3>2. clock >= asked
      BY <1>0, <1>4 DEF SecretUnusable, DeadlineInv
    <3> QED BY <1>0, <1>4, <3>1, <3>2, FinishStep DEF SecretUnusable, Stages
  <2>2. OwedInv' /\ owed' \in [EventTypes -> 0 .. 1]
    BY <1>0, <1>4, EmitsStep DEF SecretUnusable, finishHandshake, One
  <2>3. TypeInv'
    BY <1>0, <1>a, <1>4, <2>1, <2>2
       DEF SecretUnusable, finishHandshake, TypeInv, TypeOK, Errs
  <2> QED BY <2>1, <2>2, <2>3 DEF IInv
<1>5. ASSUME NEW a \in Answers, VerifyRefused(a)
      PROVE  IInv'
  <2>0. a \in Raw /\ clock >= asked /\ pc = "verify" /\ ~Accepted(a)
    BY <1>0, <1>5, AnswersAreRaw DEF VerifyRefused, DeadlineInv
  <2>c. codes' \subseteq Nat
    <3>1. clock \div Window \in Nat
      BY <1>a
    <3> QED BY <1>a, <1>5, <3>1 DEF VerifyRefused
  <2>1. CASE MayBeReplay(a) /\ pc' = "window" /\ UNCHANGED err
             /\ Emits({"attempt_result"}, {"attempt_result"})
    <3>1. asked' = asked
      BY <1>5, <2>1 DEF VerifyRefused, Hears, MayBeReplay
    <3>2. OwedInv' /\ owed' \in [EventTypes -> 0 .. 1]
      BY <1>0, <2>0, <2>1, EmitsStep DEF One
    <3>3. TypeInv'
      BY <1>0, <1>a, <1>5, <2>1, <2>c, <3>1, <3>2 DEF VerifyRefused, TypeInv, TypeOK
    <3>4. DeadlineInv'
      BY <1>0, <1>5, <2>0, <2>1, <3>1 DEF VerifyRefused, DeadlineInv
    <3> QED BY <3>2, <3>3, <3>4 DEF IInv
  <2>2. CASE /\ ~MayBeReplay(a) /\ finishHandshake("otp_verification", a)
             /\ Emits({"attempt_result"}, {"attempt_result", "handshake_result"})
    <3>1. err' \in Errs /\ asked' \in Nat /\ DeadlineInv'
      BY <1>0, <1>5, <2>0, <2>2, FinishStep DEF VerifyRefused, Stages
    <3>2. OwedInv' /\ owed' \in [EventTypes -> 0 .. 1]
      BY <1>0, <2>0, <2>2, EmitsStep DEF finishHandshake, One
    <3>3. TypeInv'
      BY <1>0, <1>a, <1>5, <2>2, <2>c, <3>1, <3>2
         DEF VerifyRefused, finishHandshake, TypeInv, TypeOK, Errs
    <3> QED BY <3>1, <3>2, <3>3 DEF IInv
  <2> QED BY <1>5, <2>1, <2>2 DEF VerifyRefused
<1>6. CASE VerifyOK
  <2>1. OwedInv' /\ owed' \in [EventTypes -> 0 .. 1]
    BY <1>0, <1>a, <1>6, EmitsStep DEF VerifyOK, One
  <2>2. TypeInv'
    BY <1>0, <1>a, <1>6, <2>1 DEF VerifyOK, TypeInv, TypeOK
  <2>3. DeadlineInv'
    BY <1>0, <1>a, <1>6 DEF VerifyOK, DeadlineInv
  <2> QED BY <2>1, <2>2, <2>3 DEF IInv
<1>7. ASSUME NEW cause \in {"storage", "context"}, AcceptFails(cause)
      PROVE  IInv'
  <2>1. err' \in Errs /\ asked' \in Nat /\ DeadlineInv'
    <3>1. Local(cause) \in Raw /\ ~isRateLimited(Local(cause))
      BY <1>7, LocalIsRaw DEF Causes
    <3>2. clock >= asked
      BY <1>0, <1>7 DEF AcceptFails, DeadlineInv
    <3> QED BY <1>0, <1>7, <3>1, <3>2, FinishStep DEF AcceptFails, Stages
  <2>2. OwedInv' /\ owed' \in [EventTypes -> 0 .. 1]
    BY <1>0, <1>7, EmitsStep DEF AcceptFails, finishHandshake, One
  <2>3. TypeInv'
    BY <1>0, <1>a, <1>7, <2>1, <2>2
       DEF AcceptFails, finishHandshake, TypeInv, TypeOK, Errs
  <2> QED BY <2>1, <2>2, <2>3 DEF IInv
<1>8. CASE NextWindow
  <2>0. clock' \in Nat /\ clock' >= clock
    BY <1>a, <1>8, WindowAhead DEF NextWindow
  <2>1. OwedInv' /\ owed' \in [EventTypes -> 0 .. 1]
    BY <1>0, <1>a, <1>8 DEF NextWindow, OwedInv
  <2>2. TypeInv'
    BY <1>0, <1>a, <1>8, <2>1, <2>0 DEF NextWindow, TypeInv, TypeOK
  <2>3. DeadlineInv'
    BY <1>0, <1>a, <1>8, <2>0 DEF NextWindow, DeadlineInv
  <2> QED BY <2>1, <2>2, <2>3 DEF IInv
<1>9. CASE WindowCanceled
  <2>1. err' \in Errs /\ asked' \in Nat /\ DeadlineInv'
    <3>1. Local("context") \in Raw /\ ~isRateLimited(Local("context"))
      BY LocalIsRaw DEF Causes
    <3>2. clock >= asked
      BY <1>0, <1>9 DEF WindowCanceled, DeadlineInv
    <3> QED BY <1>0, <1>9, <3>1, <3>2, FinishStep DEF WindowCanceled, Stages
  <2>2. OwedInv' /\ owed' \in [EventTypes -> 0 .. 1]
    BY <1>0, <1>9, EmitsStep DEF WindowCanceled, finishHandshake, One
  <2>3. TypeInv'
    BY <1>0, <1>a, <1>9, <2>1, <2>2
       DEF WindowCanceled, finishHandshake, TypeInv, TypeOK, Errs
  <2> QED BY <2>1, <2>2, <2>3 DEF IInv
<1>10. ASSUME NEW a \in Answers, Impersonate(a)
       PROVE  IInv'
  <2>0. a \in Raw /\ clock >= asked /\ pc = "impersonate"
    BY <1>0, <1>10, AnswersAreRaw DEF Impersonate, DeadlineInv
  <2>1. OwedInv' /\ owed' \in [EventTypes -> 0 .. 1]
    BY <1>0, <1>10, <2>0, EmitsStep DEF Impersonate, finishHandshake, One
  <2>2. CASE Accepted(a) /\ pc' = "succeeded" /\ UNCHANGED err
    <3>1. asked' = asked
      BY <1>10, <2>2 DEF Impersonate, Hears
    <3>2. TypeInv'
      BY <1>0, <1>a, <1>10, <2>1, <2>2, <3>1 DEF Impersonate, TypeInv, TypeOK
    <3>3. DeadlineInv'
      BY <1>0, <1>10, <2>0, <2>2, <3>1 DEF Impersonate, DeadlineInv
    <3> QED BY <2>1, <3>2, <3>3 DEF IInv
  <2>3. CASE ~Accepted(a) /\ finishHandshake("impersonation", a)
    <3>1. err' \in Errs /\ asked' \in Nat /\ DeadlineInv'
      BY <1>0, <1>10, <2>0, <2>3, FinishStep DEF Impersonate, Stages
    <3>2. TypeInv'
      BY <1>0, <1>a, <1>10, <2>1, <2>3, <3>1
         DEF Impersonate, finishHandshake, TypeInv, TypeOK, Errs
    <3> QED BY <2>1, <3>1, <3>2 DEF IInv
  <2> QED BY <1>10, <2>2, <2>3 DEF Impersonate
<1>11. CASE Succeed
  <2>1. err' \in Errs
    BY <1>11 DEF Succeed, NoError, Local, Errs, Stages, Kinds, Raw, Causes
  <2>2. OwedInv' /\ owed' \in [EventTypes -> 0 .. 1]
    BY <1>0, <1>a, <1>11 DEF Succeed, Returns, OwedInv
  <2>3. TypeInv'
    BY <1>0, <1>a, <1>11, <2>1, <2>2 DEF Succeed, Returns, TypeInv, TypeOK, Errs
  <2>4. DeadlineInv'
    BY <1>0, <1>a, <1>11 DEF Succeed, Returns, NoError, DeadlineInv
  <2> QED BY <2>2, <2>3, <2>4 DEF IInv
<1>12. CASE GiveUp
  <2>1. OwedInv' /\ owed' \in [EventTypes -> 0 .. 1]
    BY <1>0, <1>a, <1>12 DEF GiveUp, OwedInv, Returns
  <2>2. TypeInv'
    BY <1>0, <1>a, <1>12, <2>1 DEF GiveUp, TypeInv, TypeOK, Returns
  <2>3. DeadlineInv'
    BY <1>0, <1>a, <1>12 DEF GiveUp, DeadlineInv, Returns
  <2> QED BY <2>1, <2>2, <2>3 DEF IInv
<1>13. CASE LastAttempt
  <2>0. PICK d \in Delays : notBefore' = clock + d
    BY <1>13 DEF LastAttempt
  <2>d. err.kind = "rate_limited" /\ d \in Nat \ {0} /\ clock + d >= asked
        /\ (err.after > 0 => d = err.after)
    <3>1. err.kind = "rate_limited" /\ pc = "failed"
      BY <1>0, <1>13 DEF LastAttempt, DeadlineInv
    <3> QED BY <2>0, <3>1, DelayBounds
  <2>1. OwedInv' /\ owed' \in [EventTypes -> 0 .. 1]
    BY <1>0, <1>a, <1>13 DEF LastAttempt, OwedInv, Returns
  <2>2. TypeInv'
    BY <1>0, <1>a, <1>13, <2>1, <2>0, <2>d DEF LastAttempt, TypeInv, TypeOK, Returns
  <2>3. DeadlineInv'
    BY <1>0, <1>a, <1>13, <2>0, <2>d DEF LastAttempt, DeadlineInv, Returns
  <2> QED BY <2>1, <2>2, <2>3 DEF IInv
<1>14. CASE Retry
  <2>0. PICK d \in Delays : notBefore' = clock + d
    BY <1>14 DEF Retry
  <2>d. err.kind = "rate_limited" /\ d \in Nat \ {0} /\ clock + d >= asked
        /\ (err.after > 0 => d = err.after)
    <3>1. err.kind = "rate_limited" /\ pc = "failed"
      BY <1>0, <1>14 DEF Retry, DeadlineInv
    <3> QED BY <2>0, <3>1, DelayBounds
  <2>1. OwedInv' /\ owed' \in [EventTypes -> 0 .. 1]
    BY <1>0, <1>a, <1>14 DEF Retry, OwedInv
  <2>2. TypeInv'
    BY <1>0, <1>a, <1>14, <2>1, <2>0, <2>d DEF Retry, TypeInv, TypeOK
  <2>3. DeadlineInv'
    BY <1>0, <1>a, <1>14, <2>0, <2>d DEF Retry, DeadlineInv
  <2> QED BY <2>1, <2>2, <2>3 DEF IInv
<1>15. CASE SleepEnds
  <2>0. attempt' \in 0 .. MaxAttempts - 1
    BY <1>a, <1>0, <1>15 DEF SleepEnds, DeadlineInv
  <2>1. OwedInv' /\ owed' \in [EventTypes -> 0 .. 1]
    BY <1>0, <1>a, <1>15 DEF SleepEnds, OwedInv
  <2>2. TypeInv'
    BY <1>0, <1>a, <1>15, <2>1, <2>0 DEF SleepEnds, TypeInv, TypeOK
  <2>3. DeadlineInv'
    BY <1>0, <1>a, <1>15 DEF SleepEnds, DeadlineInv
  <2> QED BY <2>1, <2>2, <2>3 DEF IInv
<1>16. CASE SleepFails
  <2>a. notBefore > clock /\ notBefore >= asked
    BY <1>0, <1>16 DEF SleepFails, DeadlineInv
  <2>b. clock' \in Nat /\ clock' >= clock /\ clock' < notBefore /\ failedAt' = clock'
    BY <1>a, <1>16, <2>a DEF SleepFails
  <2>c. err' = [err EXCEPT !.kind = "rate_limited", !.after = notBefore - clock]
        /\ notBefore - clock \in Nat
    BY <1>a, <1>16, <2>a, <2>b DEF SleepFails
  <2>d. err' \in Errs /\ err'.kind = "rate_limited" /\ err'.after = notBefore - clock
        /\ err'.kind \in Kinds
    BY <1>0, <2>c DEF Errs, Kinds
  <2>0. /\ clock' \in Nat /\ clock' >= clock /\ failedAt' = clock'
        /\ notBefore' = notBefore /\ notBefore >= asked
        /\ err' \in Errs /\ err'.kind = "rate_limited" /\ err'.after \in Nat
        /\ err'.kind \in Kinds /\ clock' + err'.after >= notBefore
    BY <1>a, <1>16, <2>a, <2>b, <2>c, <2>d DEF SleepFails, Returns
  <2>1. OwedInv' /\ owed' \in [EventTypes -> 0 .. 1]
    BY <1>0, <1>a, <1>16 DEF SleepFails, OwedInv, Returns
  <2>2. TypeInv'
    BY <1>0, <1>a, <1>16, <2>1, <2>0 DEF SleepFails, TypeInv, TypeOK, Returns
  <2>3. DeadlineInv'
    BY <1>0, <1>a, <1>16, <2>0 DEF SleepFails, DeadlineInv, Returns
  <2> QED BY <2>1, <2>2, <2>3 DEF IInv
<1>17. CASE WakesEarly
  <2>a. notBefore > clock /\ notBefore >= asked
    BY <1>0, <1>17 DEF WakesEarly, DeadlineInv
  <2>b. clock' \in Nat /\ clock' >= clock /\ clock' < notBefore /\ failedAt' = clock'
    BY <1>a, <1>17, <2>a DEF WakesEarly
  <2>c. err' = [err EXCEPT !.kind = "rate_limited", !.after = notBefore - clock']
        /\ notBefore - clock' \in Nat
    BY <1>a, <1>17, <2>a, <2>b DEF WakesEarly
  <2>d. err' \in Errs /\ err'.kind = "rate_limited" /\ err'.after = notBefore - clock'
        /\ err'.kind \in Kinds
    BY <1>0, <2>c DEF Errs, Kinds
  <2>0. /\ clock' \in Nat /\ clock' >= clock /\ failedAt' = clock'
        /\ notBefore' = notBefore /\ notBefore >= asked
        /\ err' \in Errs /\ err'.kind = "rate_limited" /\ err'.after \in Nat
        /\ err'.kind \in Kinds /\ clock' + err'.after >= notBefore
    BY <1>a, <1>17, <2>a, <2>b, <2>c, <2>d DEF WakesEarly, Returns
  <2>1. OwedInv' /\ owed' \in [EventTypes -> 0 .. 1]
    BY <1>0, <1>a, <1>17 DEF WakesEarly, OwedInv, Returns
  <2>2. TypeInv'
    BY <1>0, <1>a, <1>17, <2>1, <2>0 DEF WakesEarly, TypeInv, TypeOK, Returns
  <2>3. DeadlineInv'
    BY <1>0, <1>a, <1>17, <2>0 DEF WakesEarly, DeadlineInv, Returns
  <2> QED BY <2>1, <2>2, <2>3 DEF IInv
<1>18. CASE Login
  <2>1. OwedInv' /\ owed' \in [EventTypes -> 0 .. 1]
    BY <1>0, <1>a, <1>18 DEF Login, OwedInv, RefreshAllowed
  <2>2. TypeInv'
    BY <1>0, <1>a, <1>18, <2>1 DEF Login, TypeInv, TypeOK, RefreshAllowed
  <2>3. DeadlineInv'
    BY <1>0, <1>a, <1>18 DEF Login, DeadlineInv, RefreshAllowed
  <2> QED BY <2>1, <2>2, <2>3 DEF IInv
<1>19. CASE Refused
  <2>1. OwedInv' /\ owed' \in [EventTypes -> 0 .. 1]
    BY <1>0, <1>a, <1>19 DEF Refused, OwedInv
  <2>2. TypeInv'
    BY <1>0, <1>a, <1>19, <2>1 DEF Refused, TypeInv, TypeOK
  <2>3. DeadlineInv'
    BY <1>0, <1>a, <1>19 DEF Refused, DeadlineInv
  <2> QED BY <2>1, <2>2, <2>3 DEF IInv
<1>20. CASE UNCHANGED vars
  <2>1. OwedInv'
    BY <1>0, <1>20 DEF vars, OwedInv
  <2>2. TypeInv'
    BY <1>0, <1>20 DEF vars, TypeInv, TypeOK
  <2>3. DeadlineInv'
    BY <1>0, <1>20 DEF vars, DeadlineInv, isRateLimited, Capped
  <2> QED BY <2>1, <2>2, <2>3 DEF IInv
<1> QED
  BY <1>1, <1>2, <1>3, <1>4, <1>5, <1>6, <1>7, <1>8, <1>9, <1>10, <1>11, <1>12,
     <1>13, <1>14, <1>15, <1>16, <1>17, <1>18, <1>19, <1>20 DEF Next

(* The invariant holds from the first login on. *)
THEOREM Invariance == Spec => []IInv
<1>1. Init => IInv
  BY InitOK
<1>2. IInv /\ [Next]_vars => IInv'
  BY NextOK
<1> QED BY <1>1, <1>2, PTL DEF Spec

(* Every variable keeps its type. *)
THEOREM TypeCorrectness == Spec => []TypeOK
<1>1. IInv => TypeOK
  BY DEF IInv, TypeInv
<1> QED BY <1>1, Invariance, PTL

(* A login that fails with a rate limit (session.go 863-899) leaves a deadline
   and an error that a caller can wait by. *)
THEOREM HintTheorem == Spec => []HintReachesDeadline
<1>1. IInv => HintReachesDeadline
  BY DEF IInv, DeadlineInv, HintReachesDeadline
<1> QED BY <1>1, Invariance, PTL

(* Each request and each handshake is reported once (session.go 315-333 and
   369-413). *)
THEOREM EventsTheorem == Spec => []EventsTellRequests
<1>1. IInv => EventsTellRequests
  BY DEF IInv, OwedInv, EventsTellRequests
<1> QED BY <1>1, Invariance, PTL

(* No password is sent before the time the server named (session.go 863-899
   and 692-699). *)
THEOREM WaitsTheorem == Spec => WaitsAsAsked
<1> DEFINE Waits == pc = "password" /\ pc' # pc =>
                        /\ clock >= asked
                        /\ attempt > 0 => err.kind = "rate_limited"
<1>1. IInv => [Waits]_vars
  BY DEF IInv, DeadlineInv
<1> QED BY <1>1, Invariance, PTL DEF WaitsAsAsked

----------------------------------------------------------------------------
(* An answer with an error status has been read. *)
LEMMA AnswersAreApi == \A a \in Answers : a.status # 0 => a.cause = "api"
BY HandshakeAssumption DEF AnswerTypes

(* The codes that were rejected in this handshake, and their windows. *)
CodesInv ==
    /\ pc = "password" => second = FALSE /\ codes = {}
    /\ pc = "verify" /\ second = FALSE => codes = {}
    /\ pc = "window" => \E w \in Nat : codes = {w} /\ w <= clock \div Window
    /\ pc = "verify" /\ second = TRUE =>
        \E w \in Nat : codes = {w} /\ w < clock \div Window
    /\ pc \in {"failed", "returned"} /\ err.kind = "rejected_otp"
            /\ err.of.status = 401 =>
        \E v, w \in Nat : codes = {v, w} /\ v # w

(* A wait into the next window ends in a later window. *)
LEMMA NextWindowIsLater ==
    ASSUME NEW t \in Nat
    PROVE  ((t \div Window + 1) * Window + 1) \div Window > t \div Window
<1> DEFINE q == t \div Window
           u == (q + 1) * Window + 1
           r == u \div Window
<1>1. Window \in Nat \ {0}
  BY HandshakeAssumption
<1>2. q \in Nat
  BY <1>1
<1>3. u \in Nat /\ u = Window * q + Window + 1
  BY <1>1, <1>2
<1>4. r \in Nat /\ u = Window * r + (u % Window) /\ u % Window \in 0 .. Window - 1
  BY <1>1, <1>3
<1> HIDE DEF u, r, q
<1>5. SUFFICES ASSUME r <= q PROVE FALSE
  BY <1>2, <1>4 DEF u, r, q
<1>6. Window * r <= Window * q
  BY <1>1, <1>2, <1>4, <1>5
<1> QED BY <1>1, <1>2, <1>3, <1>4, <1>6

LEMMA CodesStart == Init => CodesInv
BY DEF Init, CodesInv

(* Only a second rejection by 401, of a code from a later window, or a 400
   makes the error rejected_otp. *)
LEMMA CodesStep == IInv /\ CodesInv /\ [Next]_vars => CodesInv'
<1> SUFFICES ASSUME IInv, CodesInv, [Next]_vars
             PROVE  CodesInv'
  OBVIOUS
<1>0. /\ clock \in Nat /\ second \in BOOLEAN /\ clock \div Window \in Nat
      /\ DeadlineInv /\ err \in Errs
  BY HandshakeAssumption DEF IInv, TypeInv, TypeOK
<1>c. \A stage \in Stages, e \in Raw : finishHandshake(stage, e) =>
        /\ pc' = "failed" /\ err'.of = e
        /\ err'.kind = "rejected_otp" =>
            stage = "otp_verification" /\ Rejected(e) /\ ~isRateLimited(e)
  BY DEF finishHandshake, classifyAuthError, KindOf, Rejected, isRateLimited, Stages, Raw
<1>1. CASE Prepare
  BY <1>1 DEF Prepare, CodesInv
<1>2. ASSUME NEW cause \in {"storage", "context"}, PrepareFails(cause) \/ AcceptFails(cause)
      PROVE  CodesInv'
  <2>1. Local(cause) \in Raw /\ ~Rejected(Local(cause))
    BY DEF Local, Raw, Causes, Rejected
  <2> QED BY <1>2, <1>c, <2>1 DEF PrepareFails, AcceptFails, Stages, CodesInv
<1>3. ASSUME NEW a \in Answers, Password(a) \/ Impersonate(a)
      PROVE  CodesInv'
  BY <1>3, <1>c, AnswersAreRaw DEF Password, Impersonate, Stages, CodesInv
<1>4. CASE SecretUnusable \/ WindowCanceled
  <2>1. ASSUME NEW cause \in {"secret", "context"}
        PROVE  Local(cause) \in Raw /\ ~Rejected(Local(cause))
    BY DEF Local, Raw, Causes, Rejected
  <2> QED BY <1>4, <1>c, <2>1 DEF SecretUnusable, WindowCanceled, Stages, CodesInv
<1>5. ASSUME NEW a \in Answers, VerifyRefused(a)
      PROVE  CodesInv'
  <2>0. a \in Raw /\ pc = "verify" /\ clock' = clock /\ second' = second
        /\ codes' = IF Rejected(a) THEN codes \cup {clock \div Window} ELSE codes
    BY <1>5, AnswersAreRaw DEF VerifyRefused
  <2>1. CASE MayBeReplay(a) /\ pc' = "window"
    <3>1. second = FALSE /\ codes = {}
      BY <1>0, <2>0, <2>1 DEF MayBeReplay, CodesInv
    <3>2. codes' = {clock \div Window} \/ codes' = {}
      BY <2>0, <3>1
    <3>3. Rejected(a)
      BY <1>5, <2>0, <2>1, AnswersAreApi DEF MayBeReplay, Rejected
    <3>4. codes' = {clock \div Window}
      BY <2>0, <3>1, <3>3
    <3> QED BY <1>0, <2>0, <2>1, <3>4 DEF CodesInv
  <2>2. CASE ~MayBeReplay(a) /\ finishHandshake("otp_verification", a)
    <3>1. ASSUME err'.kind = "rejected_otp", err'.of.status = 401
          PROVE  \E v, w \in Nat : codes' = {v, w} /\ v # w
      <4>1. Rejected(a) /\ ~isRateLimited(a) /\ a.status = 401
        BY <1>c, <2>0, <2>2, <3>1 DEF Stages
      <4>2. second = TRUE
        BY <1>0, <2>2, <4>1 DEF MayBeReplay
      <4>3. PICK w \in Nat : codes = {w} /\ w < clock \div Window
        BY <2>0, <4>2 DEF CodesInv
      <4>4. codes' = {w, clock \div Window}
        BY <2>0, <4>1, <4>3
      <4> QED BY <1>0, <4>3, <4>4
    <3> QED BY <1>c, <2>0, <2>2, <3>1 DEF Stages, CodesInv
  <2> QED BY <1>5, <2>1, <2>2 DEF VerifyRefused
<1>6. CASE VerifyOK
  BY <1>6 DEF VerifyOK, CodesInv
<1>7. CASE NextWindow
  <2>1. PICK w \in Nat : codes = {w} /\ w <= clock \div Window
    BY <1>7 DEF NextWindow, CodesInv
  <2>2. clock' \div Window > clock \div Window /\ clock' \div Window \in Nat
    <3>1. clock' \in Nat
      BY <1>0, <1>7, WindowAhead DEF NextWindow
    <3>a. \A t \in Nat : t \div Window \in Nat
      BY HandshakeAssumption
    <3>2. clock' \div Window \in Nat
      BY <3>1, <3>a
    <3> QED BY <1>0, <1>7, <3>2, NextWindowIsLater DEF NextWindow
  <2>3. codes' = {w} /\ w < clock' \div Window
    BY <1>0, <1>7, <2>1, <2>2 DEF NextWindow
  <2> QED BY <1>7, <2>3 DEF NextWindow, CodesInv
<1>8. CASE Succeed
  BY <1>8 DEF Succeed, Returns, NoError, CodesInv
<1>9. CASE GiveUp \/ LastAttempt
  BY <1>9 DEF GiveUp, LastAttempt, Returns, CodesInv
<1>10. CASE Retry \/ SleepEnds \/ Login
  BY <1>10 DEF Retry, SleepEnds, Login, CodesInv
<1>11. CASE SleepFails \/ WakesEarly
  <2>1. err'.kind = "rate_limited"
    BY <1>0, <1>11 DEF SleepFails, WakesEarly, Errs
  <2> QED BY <1>11, <2>1 DEF SleepFails, WakesEarly, Returns, CodesInv
<1>12. CASE Refused
  BY <1>12 DEF Refused, CodesInv
<1>13. CASE UNCHANGED vars
  BY <1>13 DEF vars, CodesInv
<1> QED
  BY <1>1, <1>2, <1>3, <1>4, <1>5, <1>6, <1>7, <1>8, <1>9, <1>10, <1>11, <1>12, <1>13
     DEF Next

(* An OTP is reported as rejected by a 401 only after the codes of two windows
   were (session.go 263-278). *)
THEOREM RejectedOTPTheorem == Spec => []RejectedOTPIsFresh
<1>1. Init => CodesInv
  BY CodesStart
<1>2. IInv /\ CodesInv /\ [Next]_vars => CodesInv'
  BY CodesStep
<1>3. CodesInv => RejectedOTPIsFresh
  <2> SUFFICES ASSUME CodesInv, err.kind = "rejected_otp", err.of.status = 401,
                      pc = "returned"
               PROVE  Cardinality(codes) = 2
    BY DEF RejectedOTPIsFresh
  <2>1. PICK v, w \in Nat : codes = {v, w} /\ v # w
    BY DEF CodesInv
  <2>2. IsFiniteSet({v}) /\ Cardinality({v}) = 1
    BY FS_Singleton
  <2>3. Cardinality({v} \cup {w}) = 2
    <3>1. Cardinality({v} \cup {w})
            = IF w \in {v} THEN Cardinality({v}) ELSE Cardinality({v}) + 1
      BY <2>2, FS_AddElement
    <3> QED BY <2>1, <2>2, <3>1
  <2>4. codes = {v} \cup {w}
    BY <2>1
  <2> QED BY <2>3, <2>4
<1> QED BY <1>1, <1>2, <1>3, Invariance, PTL DEF Spec

============================================================================
