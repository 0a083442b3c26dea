-------------------------- MODULE LoginCacheProofs --------------------------
(***************************************************************************)
(* Proofs about LoginCache, for any callers, credential sets, calls and    *)
(* clients.                                                                *)
(***************************************************************************)
EXTENDS LoginCache, TLAPS

(* What a caller's local variables say at each point of LoginWithOptions:
   a result or an error exists only from the end of the login on. *)
LocalInv ==
    \A c \in Callers :
        /\ caller[c].pc # "idle" => caller[c].key \in Keys
        /\ caller[c].pc \in {"looking", "waiting", "leading"} =>
              caller[c].client = NoClient /\ caller[c].err = "nil"
        /\ caller[c].pc = "publishing" =>
              (caller[c].client # NoClient <=> caller[c].err = "nil")

(* An ended call that reports a cancellation says that its owner's context
   was canceled; an owner reports one only if it was. *)
CancelInv ==
    /\ \A p \in Calls : call[p].err = "canceled" => call[p].ownerContextErr
    /\ \A c \in Callers :
        caller[c].pc \in {"publishing", "returned"}
            /\ caller[c].err = "canceled" => canceled[c]

IInv == TypeOK /\ LocalInv /\ OneLoginPerKey /\ OneClientPerKey /\ CancelInv

(* The steps that change nothing but the caller's own variables. *)
OwnSteps(c) ==
    \/ CacheHit(c) \/ JoinCall(c) \/ WaiterCanceled(c) \/ WaiterFails(c)
    \/ WaiterRetries(c)
    \/ \E k \in Keys : Login(c, k)
    \/ \E h \in Clients : LoginOK(c, h)
    \/ \E err \in Errors : LoginFails(c, err)

(* The part of TypeOK that is about the callers. *)
CallerTypes ==
    [pc : PCs, key : Keys \cup {NoKey}, call : Calls \cup {NoCall},
     client : Clients \cup {NoClient}, err : Errors]

CallerOK ==
    /\ caller \in [Callers -> CallerTypes]
    /\ \A c \in Callers : caller[c].call # NoCall <=>
            caller[c].pc \in {"waiting", "leading", "publishing"}

(* A caller's record keeps its type when two of its fields are assigned. *)
LEMMA AssignClient ==
    ASSUME NEW f \in [Callers -> CallerTypes], NEW c \in Callers, NEW pc \in PCs,
           NEW h \in Clients \cup {NoClient}
    PROVE  [f EXCEPT ![c].pc = pc, ![c].client = h] \in [Callers -> CallerTypes]
    BY DEF CallerTypes

LEMMA AssignErr ==
    ASSUME NEW f \in [Callers -> CallerTypes], NEW c \in Callers, NEW pc \in PCs,
           NEW err \in Errors
    PROVE  [f EXCEPT ![c].pc = pc, ![c].err = err] \in [Callers -> CallerTypes]
    BY DEF CallerTypes

USE LoginCacheAssumption DEF Errors, PCs, Idle, Fresh

(* Before the first Login nothing is cached and nothing is pending. *)
LEMMA InitInv == Init => IInv
    BY DEF Init, IInv, TypeOK, LocalInv, OneLoginPerKey, OneClientPerKey,
           CancelInv, Leads

(* The steps of Next, sorted by what they write. *)
LEMMA StepCases ==
    ASSUME [Next]_vars
    PROVE  \/ UNCHANGED vars
           \/ \E c \in Callers :
                \/ OwnSteps(c) \/ Publish(c) \/ Done(c) \/ Cancel(c)
                \/ \E p \in Calls : Lead(c, p)
    BY DEF Next, OwnSteps, LookSteps, OwnerSteps, WaitSteps

(* A step that writes nothing but its caller's variables keeps their types. *)
LEMMA OwnType ==
    ASSUME TypeOK, LocalInv, NEW c \in Callers, OwnSteps(c)
    PROVE  CallerOK' /\ UNCHANGED <<sessionCache, sessionCacheCalls, call, canceled>>
<1>a. CallerOK
    BY DEF TypeOK, CallerOK, CallerTypes
<1>b. /\ \A k \in Keys : /\ sessionCache[k] \in Clients \cup {NoClient}
                         /\ sessionCacheCalls[k] \in Calls \cup {NoCall}
      /\ \A p \in Calls : call[p].err \in Errors
    BY DEF TypeOK
<1>d. caller[c].pc = "looking" => caller[c].key \in Keys
    BY DEF LocalInv
<1>0. /\ CallerOK
      /\ \A k \in Keys : /\ sessionCache[k] \in Clients \cup {NoClient}
                         /\ sessionCacheCalls[k] \in Calls \cup {NoCall}
      /\ \A p \in Calls : call[p].err \in Errors
      /\ caller[c].pc = "looking" => caller[c].key \in Keys
    BY <1>a, <1>b, <1>d
<1>1. CASE CacheHit(c)
    <2>1. /\ caller[c].pc = "looking" /\ c \in Callers
          /\ sessionCache[caller[c].key] \in Clients \cup {NoClient}
          /\ caller' = [caller EXCEPT ![c].pc = "returned",
                                      ![c].client = sessionCache[caller[c].key]]
          /\ UNCHANGED <<sessionCache, sessionCacheCalls, call, canceled>>
        BY <1>0, <1>1 DEF CacheHit
    <2>2. caller' \in [Callers -> CallerTypes]
        BY <1>0, <2>1, AssignClient DEF CallerOK
    <2>3. \A d \in Callers : /\ caller'[d].call = caller[d].call
                             /\ caller'[d].pc = IF d = c THEN "returned" ELSE caller[d].pc
        BY <1>0, <2>1 DEF CallerOK, CallerTypes
    <2> QED
        BY <1>0, <2>1, <2>2, <2>3 DEF CallerOK, CallerTypes
<1>2. CASE JoinCall(c)
    BY <1>0, <1>2 DEF JoinCall, MayJoin, CallerOK, CallerTypes
<1>3. CASE WaiterCanceled(c)
    BY <1>0, <1>3 DEF WaiterCanceled, CallerOK, CallerTypes
<1>4. CASE WaiterFails(c)
    BY <1>0, <1>4 DEF WaiterFails, CallerOK, CallerTypes
<1>5. CASE WaiterRetries(c)
    BY <1>0, <1>5 DEF WaiterRetries, CallerOK, CallerTypes
<1>6. ASSUME NEW k \in Keys, Login(c, k)
      PROVE  CallerOK' /\ UNCHANGED <<sessionCache, sessionCacheCalls, call, canceled>>
    BY <1>0, <1>6 DEF Login, Idle, CallerOK, CallerTypes
<1>7. ASSUME NEW h \in Clients, LoginOK(c, h)
      PROVE  CallerOK' /\ UNCHANGED <<sessionCache, sessionCacheCalls, call, canceled>>
    BY <1>0, <1>7 DEF LoginOK, CallerOK, CallerTypes
<1>8. ASSUME NEW err \in Errors, LoginFails(c, err)
      PROVE  CallerOK' /\ UNCHANGED <<sessionCache, sessionCacheCalls, call, canceled>>
    <2>1. /\ caller[c].pc = "leading" /\ c \in Callers
          /\ caller' = [caller EXCEPT ![c].pc = "publishing", ![c].err = err]
          /\ UNCHANGED <<sessionCache, sessionCacheCalls, call, canceled>>
        BY <1>8 DEF LoginFails
    <2>2. caller' \in [Callers -> CallerTypes]
        BY <1>0, <2>1, AssignErr DEF CallerOK
    <2>3. \A d \in Callers :
              /\ caller'[d].call = caller[d].call
              /\ caller'[d].pc = IF d = c THEN "publishing" ELSE caller[d].pc
        BY <1>0, <2>1 DEF CallerOK, CallerTypes
    <2> QED
        BY <1>0, <2>1, <2>2, <2>3 DEF CallerOK, CallerTypes
<1> QED
    BY <1>1, <1>2, <1>3, <1>4, <1>5, <1>6, <1>7, <1>8 DEF OwnSteps

(* Every value keeps its type, and a caller refers to a call exactly while it
   waits for it or owns it. *)
LEMMA TypeStep == IInv /\ [Next]_vars => TypeOK'
<1> SUFFICES ASSUME IInv, [Next]_vars PROVE TypeOK'
    OBVIOUS
<1>0. TypeOK /\ LocalInv
    BY DEF IInv
<1>1. CASE UNCHANGED vars
    BY <1>0, <1>1 DEF vars, TypeOK
<1>2. ASSUME NEW c \in Callers, OwnSteps(c) PROVE TypeOK'
    <2>1. CallerOK' /\ UNCHANGED <<sessionCache, sessionCacheCalls, call, canceled>>
        BY <1>0, <1>2, OwnType
    <2> QED
        BY <1>0, <2>1 DEF TypeOK, CallerOK, CallerTypes
<1>3. ASSUME NEW c \in Callers, Publish(c) PROVE TypeOK'
    <2>1. CallerOK'
        BY <1>0, <1>3 DEF Publish, TypeOK, CallerOK, CallerTypes
    <2>2. Cached(c) \in [Keys -> Clients \cup {NoClient}]
        BY <1>0 DEF Cached, TypeOK
    <2>3. /\ sessionCacheCalls' \in [Keys -> Calls \cup {NoCall}]
          /\ call' \in [Calls -> [done : BOOLEAN, err : Errors,
                                  ownerContextErr : BOOLEAN]]
        BY <1>0, <1>3 DEF Publish, TypeOK
    <2> QED
        BY <1>0, <1>3, <2>1, <2>2, <2>3 DEF Publish, TypeOK, CallerOK, CallerTypes
<1>4. ASSUME NEW c \in Callers, Done(c) PROVE TypeOK'
    <2>1. CallerOK'
        BY <1>0, <1>4 DEF Done, Idle, TypeOK, CallerOK, CallerTypes
    <2>2. canceled' \in [Callers -> BOOLEAN]
        BY <1>0, <1>4 DEF Done, TypeOK
    <2> QED
        BY <1>0, <1>4, <2>1, <2>2 DEF Done, TypeOK, CallerOK, CallerTypes
<1>5. ASSUME NEW c \in Callers, Cancel(c) PROVE TypeOK'
    <2>1. canceled' \in [Callers -> BOOLEAN]
        BY <1>0, <1>5 DEF Cancel, TypeOK
    <2> QED
        BY <1>0, <1>5, <2>1 DEF Cancel, TypeOK
<1>6. ASSUME NEW c \in Callers, NEW p \in Calls, Lead(c, p) PROVE TypeOK'
    <2>1. CallerOK'
        BY <1>0, <1>6 DEF Lead, TypeOK, CallerOK, CallerTypes
    <2>2. /\ sessionCacheCalls' \in [Keys -> Calls \cup {NoCall}]
          /\ call' \in [Calls -> [done : BOOLEAN, err : Errors,
                                  ownerContextErr : BOOLEAN]]
        BY <1>0, <1>6 DEF Lead, Fresh, TypeOK
    <2> QED
        BY <1>0, <1>6, <2>1, <2>2 DEF Lead, TypeOK, CallerOK, CallerTypes
<1> QED
    BY <1>1, <1>2, <1>3, <1>4, <1>5, <1>6, StepCases

(* What such a step makes of its caller: it goes on looking or waits, its
   login has ended, or Login returns with the cached client, with its own
   cancellation, or with an error that is none. *)
Proceeds(c) ==
    /\ caller[c].pc \notin {"leading", "publishing"}
    /\ caller'[c].pc \in {"looking", "waiting"}
    /\ caller'[c].client = NoClient /\ caller'[c].err = "nil"

EndsLogin(c) ==
    /\ caller[c].pc = "leading" /\ caller'[c].pc = "publishing"
    /\ caller'[c].key = caller[c].key /\ caller'[c].call = caller[c].call
    /\ caller'[c].client # NoClient <=> caller'[c].err = "nil"
    /\ caller'[c].err = "canceled" => canceled[c]

ReturnsTo(c) ==
    /\ caller[c].pc \notin {"leading", "publishing"}
    /\ caller'[c].pc = "returned"
    /\ \/ /\ caller'[c].err = "nil" /\ caller'[c].client # NoClient
          /\ caller'[c].client = sessionCache[caller'[c].key]
       \/ caller'[c].err = "canceled" /\ canceled[c]
       \/ caller'[c].err \notin {"nil", "canceled"}

LEMMA OwnEffect ==
    ASSUME TypeOK, LocalInv, CancelInv, NEW c \in Callers, OwnSteps(c)
    PROVE  /\ UNCHANGED <<sessionCache, sessionCacheCalls, call, canceled>>
           /\ \A d \in Callers \ {c} : caller'[d] = caller[d]
           /\ caller'[c].key \in Keys
           /\ Proceeds(c) \/ EndsLogin(c) \/ ReturnsTo(c)
<1> USE DEF TypeOK, LocalInv, Proceeds, EndsLogin, ReturnsTo
<1>1. CASE CacheHit(c)
    BY <1>1 DEF CacheHit
<1>2. CASE JoinCall(c)
    BY <1>2 DEF JoinCall
<1>3. CASE WaiterCanceled(c)
    BY <1>3 DEF WaiterCanceled
<1>4. CASE WaiterFails(c)
    <2>1. /\ caller[c].pc = "waiting" /\ caller[c].call \in Calls
          /\ call[caller[c].call].err \in Errors \ {"nil"}
          /\ caller' = [caller EXCEPT ![c].pc = "returned", ![c].call = NoCall,
                                      ![c].err = call[caller[c].call].err]
          /\ UNCHANGED <<sessionCache, sessionCacheCalls, call, canceled>>
        BY <1>4 DEF WaiterFails
    <2>2. call[caller[c].call].err # "canceled"
        BY <1>4, <2>1 DEF WaiterFails, OwnerWasCanceled, IsContextError,
            CancelInv
    <2> QED
        BY <2>1, <2>2
<1>5. CASE WaiterRetries(c)
    BY <1>5 DEF WaiterRetries
<1>6. ASSUME NEW k \in Keys, Login(c, k)
      PROVE  /\ UNCHANGED <<sessionCache, sessionCacheCalls, call, canceled>>
             /\ \A d \in Callers \ {c} : caller'[d] = caller[d]
             /\ caller'[c].key \in Keys /\ Proceeds(c)
    BY <1>6 DEF Login
<1>7. ASSUME NEW h \in Clients, LoginOK(c, h)
      PROVE  /\ UNCHANGED <<sessionCache, sessionCacheCalls, call, canceled>>
             /\ \A d \in Callers \ {c} : caller'[d] = caller[d]
             /\ caller'[c].key \in Keys /\ EndsLogin(c)
    BY <1>7 DEF LoginOK
<1>8. ASSUME NEW err \in Errors, LoginFails(c, err)
      PROVE  /\ UNCHANGED <<sessionCache, sessionCacheCalls, call, canceled>>
             /\ \A d \in Callers \ {c} : caller'[d] = caller[d]
             /\ caller'[c].key \in Keys /\ EndsLogin(c)
    BY <1>8 DEF LoginFails
<1> QED
    BY <1>1, <1>2, <1>3, <1>4, <1>5, <1>6, <1>7, <1>8 DEF OwnSteps

(* Results and errors appear only where the login ends. *)
LEMMA LocalStep == IInv /\ [Next]_vars => LocalInv'
<1> SUFFICES ASSUME IInv, [Next]_vars PROVE LocalInv'
    OBVIOUS
<1> USE DEF TypeOK, LocalInv
<1>0. TypeOK /\ LocalInv /\ CancelInv
    BY DEF IInv
<1>1. CASE UNCHANGED vars
    BY <1>0, <1>1 DEF vars
<1>2. ASSUME NEW c \in Callers, OwnSteps(c) PROVE LocalInv'
    BY <1>0, <1>2, OwnEffect DEF Proceeds, EndsLogin, ReturnsTo
<1>3. ASSUME NEW c \in Callers, Publish(c) PROVE LocalInv'
    BY <1>0, <1>3 DEF Publish
<1>4. ASSUME NEW c \in Callers, Done(c) \/ Cancel(c) PROVE LocalInv'
    <2>1. CASE Done(c)
        BY <1>0, <2>1 DEF Done
    <2>2. CASE Cancel(c)
        BY <1>0, <2>2 DEF Cancel
    <2> QED
        BY <1>4, <2>1, <2>2
<1>5. ASSUME NEW c \in Callers, NEW p \in Calls, Lead(c, p) PROVE LocalInv'
    BY <1>0, <1>5 DEF Lead
<1> QED
    BY <1>1, <1>2, <1>3, <1>4, <1>5, StepCases

(* A second login of a credential set cannot start: its owner's call is in
   the table until the owner publishes. *)
LEMMA OneLoginStep == IInv /\ [Next]_vars => OneLoginPerKey'
<1> SUFFICES ASSUME IInv, [Next]_vars PROVE OneLoginPerKey'
    OBVIOUS
<1> USE DEF TypeOK, LocalInv, OneLoginPerKey, Leads
<1>0. TypeOK /\ LocalInv /\ OneLoginPerKey /\ CancelInv
    BY DEF IInv
<1>1. CASE UNCHANGED vars
    BY <1>0, <1>1 DEF vars
<1>2. ASSUME NEW c \in Callers, OwnSteps(c) PROVE OneLoginPerKey'
    BY <1>0, <1>2, OwnEffect DEF Proceeds, EndsLogin, ReturnsTo
<1>3. ASSUME NEW c \in Callers, Publish(c) PROVE OneLoginPerKey'
    BY <1>0, <1>3 DEF Publish, Cached
<1>4. ASSUME NEW c \in Callers, Done(c) \/ Cancel(c) PROVE OneLoginPerKey'
    <2>1. CASE Done(c)
        BY <1>0, <2>1 DEF Done
    <2>2. CASE Cancel(c)
        BY <1>0, <2>2 DEF Cancel
    <2> QED
        BY <1>4, <2>1, <2>2
<1>5. ASSUME NEW c \in Callers, NEW p \in Calls, Lead(c, p)
      PROVE  OneLoginPerKey'
    BY <1>0, <1>5 DEF Lead, MayLead
<1> QED
    BY <1>1, <1>2, <1>3, <1>4, <1>5, StepCases

(* A cached client is never replaced, because nobody logs in for a key that
   has one. *)
LEMMA OneClientStep == IInv /\ [Next]_vars => OneClientPerKey'
<1> SUFFICES ASSUME IInv, [Next]_vars PROVE OneClientPerKey'
    OBVIOUS
<1> USE DEF TypeOK, LocalInv, OneClientPerKey
<1>0. TypeOK /\ LocalInv /\ OneLoginPerKey /\ OneClientPerKey /\ CancelInv
    BY DEF IInv
<1>1. CASE UNCHANGED vars
    BY <1>0, <1>1 DEF vars
<1>2. ASSUME NEW c \in Callers, OwnSteps(c) PROVE OneClientPerKey'
    BY <1>0, <1>2, OwnEffect DEF Proceeds, EndsLogin, ReturnsTo
<1>3. ASSUME NEW c \in Callers, Publish(c) PROVE OneClientPerKey'
    BY <1>0, <1>3 DEF Publish, Cached, OneLoginPerKey, Leads
<1>4. ASSUME NEW c \in Callers, Done(c) \/ Cancel(c) PROVE OneClientPerKey'
    BY <1>0, <1>4 DEF Done, Cancel
<1>5. ASSUME NEW c \in Callers, NEW p \in Calls, Lead(c, p)
      PROVE  OneClientPerKey'
    BY <1>0, <1>5 DEF Lead
<1> QED
    BY <1>1, <1>2, <1>3, <1>4, <1>5, StepCases

(* A waiter takes over the error of its owner only if the owner was not
   canceled, and an owner that reports a cancellation was. *)
LEMMA CancelStep == IInv /\ [Next]_vars => CancelInv'
<1> SUFFICES ASSUME IInv, [Next]_vars PROVE CancelInv'
    OBVIOUS
<1> USE DEF TypeOK, LocalInv, CancelInv
<1>0. TypeOK /\ LocalInv /\ CancelInv
    BY DEF IInv
<1>1. CASE UNCHANGED vars
    BY <1>0, <1>1 DEF vars
<1>2. ASSUME NEW c \in Callers, OwnSteps(c) PROVE CancelInv'
    BY <1>0, <1>2, OwnEffect DEF Proceeds, EndsLogin, ReturnsTo
<1>3. ASSUME NEW c \in Callers, Publish(c) PROVE CancelInv'
    BY <1>0, <1>3 DEF Publish
<1>4. ASSUME NEW c \in Callers, Done(c) \/ Cancel(c) PROVE CancelInv'
    BY <1>0, <1>4 DEF Done, Cancel
<1>5. ASSUME NEW c \in Callers, NEW p \in Calls, Lead(c, p) PROVE CancelInv'
    BY <1>0, <1>5 DEF Lead
<1> QED
    BY <1>1, <1>2, <1>3, <1>4, <1>5, StepCases

(* The inductive invariant of the cache. *)
THEOREM Invariance == Spec => []IInv
<1>1. Init => IInv
    BY InitInv
<1>2. IInv /\ [Next]_vars => IInv'
    BY TypeStep, LocalStep, OneLoginStep, OneClientStep, CancelStep DEF IInv
<1> QED
    BY <1>1, <1>2, PTL DEF Spec

(* Every variable keeps its type; a caller refers to a pending call exactly
   while it waits for it or owns it. *)
THEOREM TypeCorrectness == Spec => []TypeOK
<1>1. IInv => TypeOK
    BY DEF IInv
<1> QED
    BY <1>1, Invariance, PTL

(* However many goroutines call Login with the same credentials, one
   handshake runs, and none once a client is cached. *)
THEOREM OneLoginTheorem == Spec => []OneLoginPerKey
<1>1. IInv => OneLoginPerKey
    BY DEF IInv
<1> QED
    BY <1>1, Invariance, PTL

(* All of them get the same client. *)
THEOREM OneClientTheorem == Spec => []OneClientPerKey
<1>1. IInv => OneClientPerKey
    BY DEF IInv
<1> QED
    BY <1>1, Invariance, PTL

(* Whoever is told of a cancellation was canceled itself. *)
THEOREM NotPoisonedTheorem == Spec => []NotPoisoned
<1>1. IInv => NotPoisoned
    BY DEF IInv, CancelInv, NotPoisoned
<1> QED
    BY <1>1, Invariance, PTL

=============================================================================
