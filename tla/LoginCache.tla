----------------------------- MODULE LoginCache -----------------------------
(***************************************************************************)
(* The package-level session cache of LoginWithOptions (session.go): per   *)
(* credential set one cached client, and one call in flight whose owner    *)
(* logs in while the others wait.  One step is one critical section of     *)
(* sessionMu, the owner's login, or the cancellation of one caller.        *)
(***************************************************************************)
EXTENDS Integers, FiniteSets

CONSTANTS
    Callers,        \* goroutines that call Login with cacheable options
    Keys,           \* credential sets (sha256 of the arguments)
    Calls,          \* *sessionCacheCall objects
    Clients,        \* *http.Client values
    NoKey, NoCall, NoClient

ASSUME LoginCacheAssumption ==
    /\ NoKey \notin Keys
    /\ NoCall \notin Calls
    /\ NoClient \notin Clients

VARIABLES
    sessionCache,       \* the cached client of each key
    sessionCacheCalls,  \* the pending call of each key
    call,               \* each call object: done, err, ownerContextErr
    caller,             \* each caller: pc, key, call, client, err
    canceled            \* is the context of its current Login canceled

vars == <<sessionCache, sessionCacheCalls, call, caller, canceled>>

(* What a login ends with: no error, its own caller's cancellation, an
   exchange that timed out, anything else.  errors.Is sees the same context
   errors in the second and the third. *)
Errors == {"nil", "canceled", "timeout", "other"}
IsContextError(err) == err \in {"canceled", "timeout"}

Idle == [pc |-> "idle", key |-> NoKey, call |-> NoCall, client |-> NoClient,
         err |-> "nil"]

Fresh == [done |-> FALSE, err |-> "nil", ownerContextErr |-> FALSE]

Init ==
    /\ sessionCache = [k \in Keys |-> NoClient]
    /\ sessionCacheCalls = [k \in Keys |-> NoCall]
    /\ call = [p \in Calls |-> Fresh]
    /\ caller = [c \in Callers |-> Idle]
    /\ canceled = [c \in Callers |-> FALSE]

Unused(p) ==
    /\ \A k \in Keys : sessionCacheCalls[k] # p
    /\ \A c \in Callers : caller[c].call # p

GoesTo(c, pc) == caller' = [caller EXCEPT ![c].pc = pc]

(* Login is called; its context may be canceled at once (Cancel). *)
Login(c, k) ==
    /\ caller[c].pc = "idle"
    /\ caller' = [caller EXCEPT ![c] = [Idle EXCEPT !.pc = "looking", !.key = k]]
    /\ UNCHANGED <<sessionCache, sessionCacheCalls, call, canceled>>

CacheHit(c) ==
    /\ caller[c].pc = "looking"
    /\ sessionCache[caller[c].key] # NoClient
    /\ caller' = [caller EXCEPT ![c].pc = "returned",
                                ![c].client = sessionCache[caller[c].key]]
    /\ UNCHANGED <<sessionCache, sessionCacheCalls, call, canceled>>

(* Faulty: joins whether or not a call is pending. *)
MayJoin_uncalled(c) == sessionCache[caller[c].key] = NoClient

MayJoin(c) ==
    /\ sessionCache[caller[c].key] = NoClient
    /\ sessionCacheCalls[caller[c].key] # NoCall

JoinCall(c) ==
    /\ caller[c].pc = "looking"
    /\ MayJoin(c)
    /\ caller' = [caller EXCEPT ![c].pc = "waiting",
                                ![c].call = sessionCacheCalls[caller[c].key]]
    /\ UNCHANGED <<sessionCache, sessionCacheCalls, call, canceled>>

(* Faulty: the cache is not looked at again. *)
MayLead_uncached(c) == sessionCacheCalls[caller[c].key] = NoCall

(* Faulty: the pending call is not looked at. *)
MayLead_always(c) == sessionCache[caller[c].key] = NoClient

MayLead(c) ==
    /\ sessionCache[caller[c].key] = NoClient
    /\ sessionCacheCalls[caller[c].key] = NoCall

Lead(c, p) ==
    /\ caller[c].pc = "looking"
    /\ MayLead(c)
    /\ Unused(p)
    /\ sessionCacheCalls' = [sessionCacheCalls EXCEPT ![caller[c].key] = p]
    /\ call' = [call EXCEPT ![p] = Fresh]
    /\ caller' = [caller EXCEPT ![c].pc = "leading", ![c].call = p]
    /\ UNCHANGED <<sessionCache, canceled>>

(* The owner's login: newAuthenticator, configureStore, initialize. *)
LoginOK(c, h) ==
    /\ caller[c].pc = "leading"
    /\ \A d \in Callers : caller[d].client # h
    /\ \A k \in Keys : sessionCache[k] # h
    /\ caller' = [caller EXCEPT ![c].pc = "publishing", ![c].client = h]
    /\ UNCHANGED <<sessionCache, sessionCacheCalls, call, canceled>>

LoginFails(c, err) ==
    /\ caller[c].pc = "leading"
    /\ err # "nil"
    /\ err = "canceled" => canceled[c]
    /\ caller' = [caller EXCEPT ![c].pc = "publishing", ![c].err = err]
    /\ UNCHANGED <<sessionCache, sessionCacheCalls, call, canceled>>

Cached(c) ==
    IF caller[c].client # NoClient
    THEN [sessionCache EXCEPT ![caller[c].key] = caller[c].client]
    ELSE sessionCache

(* Faulty: the ended call stays pending. *)
Publish_keepsCall(c) ==
    /\ caller[c].pc = "publishing"
    /\ sessionCache' = Cached(c)
    /\ call' = [call EXCEPT ![caller[c].call] =
            [done |-> TRUE, err |-> caller[c].err,
             ownerContextErr |-> canceled[c]]]
    /\ caller' = [caller EXCEPT ![c].pc = "returned", ![c].call = NoCall]
    /\ UNCHANGED <<canceled, sessionCacheCalls>>

(* The deferred function that ends the call, and the owner's return. *)
Publish(c) ==
    /\ caller[c].pc = "publishing"
    /\ sessionCache' = Cached(c)
    /\ call' = [call EXCEPT ![caller[c].call] =
            [done |-> TRUE, err |-> caller[c].err,
             ownerContextErr |-> canceled[c]]]
    /\ sessionCacheCalls' = [sessionCacheCalls EXCEPT ![caller[c].key] = NoCall]
    /\ caller' = [caller EXCEPT ![c].pc = "returned", ![c].call = NoCall]
    /\ UNCHANGED canceled

(* Faulty: every error of the owner is shared. *)
OwnerWasCanceled_ignored(p) == FALSE

(* An owner that failed because it was canceled speaks only for itself. *)
OwnerWasCanceled(p) == call[p].ownerContextErr /\ IsContextError(call[p].err)

(* <-pending.done: the waiter's own cancellation, the owner's error, or
   another turn of the loop. *)
WaiterCanceled(c) ==
    /\ caller[c].pc = "waiting"
    /\ canceled[c]
    /\ caller' = [caller EXCEPT ![c].pc = "returned", ![c].err = "canceled",
                                ![c].call = NoCall]
    /\ UNCHANGED <<sessionCache, sessionCacheCalls, call, canceled>>

WaiterFails(c) ==
    /\ caller[c].pc = "waiting"
    /\ call[caller[c].call].done /\ ~canceled[c]
    /\ call[caller[c].call].err # "nil" /\ ~OwnerWasCanceled(caller[c].call)
    /\ caller' = [caller EXCEPT ![c].pc = "returned", ![c].call = NoCall,
                                ![c].err = call[caller[c].call].err]
    /\ UNCHANGED <<sessionCache, sessionCacheCalls, call, canceled>>

WaiterRetries(c) ==
    /\ caller[c].pc = "waiting"
    /\ call[caller[c].call].done /\ ~canceled[c]
    /\ call[caller[c].call].err = "nil" \/ OwnerWasCanceled(caller[c].call)
    /\ caller' = [caller EXCEPT ![c].pc = "looking", ![c].call = NoCall]
    /\ UNCHANGED <<sessionCache, sessionCacheCalls, call, canceled>>

(* The caller goes on with what it got, and may call Login again. *)
Done(c) ==
    /\ caller[c].pc = "returned"
    /\ caller' = [caller EXCEPT ![c] = Idle]
    /\ canceled' = [canceled EXCEPT ![c] = FALSE]
    /\ UNCHANGED <<sessionCache, sessionCacheCalls, call>>

Cancel(c) ==
    /\ caller[c].pc \notin {"idle", "returned"}
    /\ ~canceled[c]
    /\ canceled' = [canceled EXCEPT ![c] = TRUE]
    /\ UNCHANGED <<sessionCache, sessionCacheCalls, call, caller>>

OwnerSteps(c) ==
    \/ \E h \in Clients : LoginOK(c, h)
    \/ \E err \in Errors : LoginFails(c, err)
    \/ Publish(c)

LookSteps(c) == CacheHit(c) \/ JoinCall(c) \/ \E p \in Calls : Lead(c, p)

WaitSteps(c) == WaiterCanceled(c) \/ WaiterFails(c) \/ WaiterRetries(c)

Next == \E c \in Callers :
    \/ \E k \in Keys : Login(c, k)
    \/ LookSteps(c) \/ OwnerSteps(c) \/ WaitSteps(c) \/ Done(c) \/ Cancel(c)

Spec == Init /\ [][Next]_vars

(* Goroutines run and logins end (every exchange has a timeout); nobody has
   to call Login, to cancel, or to go on after it returned. *)
FairSpec ==
    /\ Spec
    /\ \A c \in Callers :
        WF_vars(LookSteps(c)) /\ WF_vars(OwnerSteps(c)) /\ WF_vars(WaitSteps(c))

----------------------------------------------------------------------------
PCs == {"idle", "looking", "waiting", "leading", "publishing", "returned"}

TypeOK ==
    /\ sessionCache \in [Keys -> Clients \cup {NoClient}]
    /\ sessionCacheCalls \in [Keys -> Calls \cup {NoCall}]
    /\ call \in [Calls -> [done : BOOLEAN, err : Errors,
                            ownerContextErr : BOOLEAN]]
    /\ caller \in [Callers -> [pc : PCs, key : Keys \cup {NoKey},
                               call : Calls \cup {NoCall},
                               client : Clients \cup {NoClient},
                               err : Errors]]
    /\ canceled \in [Callers -> BOOLEAN]
    /\ \A c \in Callers : caller[c].call # NoCall <=>
            caller[c].pc \in {"waiting", "leading", "publishing"}

Leads(c) == caller[c].pc \in {"leading", "publishing"}

(* "The API rejects a TOTP code that has already been spent - the second
   login would fail every time": a credential set has one login at a time,
   known to everybody who comes later, and none once it has a client. *)
OneLoginPerKey ==
    \A c \in Callers : Leads(c) =>
        /\ sessionCache[caller[c].key] = NoClient
        /\ sessionCacheCalls[caller[c].key] = caller[c].call
        /\ \A d \in Callers : Leads(d) /\ caller[d].key = caller[c].key => d = c

(* Everybody who logs in with one credential set gets the same client, so one
   refresher owns the session; a cached client is never replaced. *)
OneClientPerKey ==
    \A c \in Callers : caller[c].pc = "returned" /\ caller[c].err = "nil" =>
        caller[c].client # NoClient /\ caller[c].client = sessionCache[caller[c].key]

(* "A canceled leader must not poison active callers that were sharing its
   initialization": who is told of a cancellation was canceled itself. *)
NotPoisoned ==
    \A c \in Callers :
        caller[c].pc = "returned" /\ caller[c].err = "canceled" => canceled[c]

(* Liveness: once callers stop canceling, every Login returns. *)
LoginReturns ==
    <>[][~\E c \in Callers : Cancel(c)]_vars =>
        \A c \in Callers : caller[c].pc = "looking" ~> caller[c].pc = "returned"

=============================================================================
