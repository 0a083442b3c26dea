------------------------------ MODULE OTPLogin ------------------------------
(***************************************************************************)
(* Logins of one account with one OTP secret, from several clients in      *)
(* several processes (session.go: login, handshake, doJSON;                *)
(* otp_coordination.go; account_retry.go: accepted OTP step).              *)
(*                                                                         *)
(* A TOTP code is good for one 30 second window and for one use.  A client *)
(* submits it under the locks of its account: the in-process mutex and,    *)
(* with a session store, before it the lock file of the account.  The last *)
(* accepted window is remembered in the process and in the store.  The     *)
(* server, the network and the file system may fail at every exchange, and *)
(* processes crash.                                                        *)
(***************************************************************************)
EXTENDS Integers, FiniteSets

CONSTANTS
    Clients,        \* refreshers of the account
    Processes,
    ProcessOf,      \* the process of each client
    StoredClients,  \* the clients configured with the shared store
    NoClient,
    MaxAttempts,    \* refresher.maxAttempts
    Faults,         \* what may go wrong, see below
    MaxDisturbances,    \* bound: how many faults other than canceled waits
    MaxStep         \* bound: how far the clock runs, in windows

(* lost        an exchange fails in transport or with a server error, whether
               or not the server already acted on the code;
   limited     429, likewise;
   unreadable  the body of a 2xx cannot be read or is too large;
   storage     a read or write of the accepted step fails;
   cancel      the context of a login ends while it waits;
   lateCancel  it ends just before the accepted step is written with it;
   crash       a process dies.                                             *)
FaultKinds == 
    {"lost", "limited", "unreadable", "storage", "cancel", "lateCancel", "crash"}

ASSUME OTPLoginAssumption ==
    /\ NoClient \notin Clients
    /\ ProcessOf \in [Clients -> Processes]
    /\ StoredClients \subseteq Clients
    /\ MaxAttempts \in Nat \ {0}
    /\ Faults \subseteq FaultKinds
    /\ MaxDisturbances \in Nat
    /\ MaxStep \in Nat \ {0}

VARIABLES
    step,       \* the current window: now().Unix()/30
    memory,     \* otpCoordination.accepted of each process, 0 when unknown
    disk,       \* the accepted step in the store, 0 when there is none
    mutex,      \* who holds the account's lock inside each process
    flock,      \* who holds the account's lock file
    client,     \* each client: pc, attempt, the window used, second verify
    spent,      \* the server: who it accepted the code of each window from
    answered,   \* history: last window each client read a 2xx for
    disturbed   \* history: how many faults other than canceled waits

vars == <<step, memory, disk, mutex, flock, client, spent, answered, disturbed>>

MaxOf(a, b) == IF a > b THEN a ELSE b

P(c) == ProcessOf[c]

NoLogin == [pc |-> "idle", attempt |-> 0, used |-> 0, second |-> FALSE]

Init ==
    /\ step = 1
    /\ memory = [p \in Processes |-> 0]
    /\ disk = 0
    /\ mutex = [p \in Processes |-> NoClient]
    /\ flock = NoClient
    /\ client = [c \in Clients |-> NoLogin]
    /\ spent = [w \in 1 .. MaxStep |-> NoClient]
    /\ answered = [c \in Clients |-> 0]
    /\ disturbed = 0

(* A fault of this kind happens now. *)
Disturbs(kind) ==
    /\ kind \in Faults
    /\ disturbed < MaxDisturbances
    /\ disturbed' = disturbed + 1

GoesTo(c, pc) == client' = [client EXCEPT ![c].pc = pc]

(* login() returns, with a session or an error: its deferred release of the
   mutex, after which a stored client still has its lock file to close. *)
Returns(c) ==
    /\ mutex' = [mutex EXCEPT ![P(c)] = NoClient]
    /\ client' = [client EXCEPT ![c] =
            [NoLogin EXCEPT !.pc = IF c \in StoredClients THEN "unlock" ELSE "idle"]]

----------------------------------------------------------------------------
(* Locks. *)

(* A client needs a session: New, Login, or a recovery. *)
Start(c) ==
    /\ client[c].pc = "idle"
    /\ GoesTo(c, IF c \in StoredClients THEN "flock" ELSE "mutex")
    /\ UNCHANGED <<step, memory, disk, mutex, flock, spent, answered, disturbed>>

(* Faulty: the lock file does not exclude. *)
FlockFree_shared(c) == TRUE

FlockFree(c) == flock = NoClient

(* LockAccount, around recover() and initialize(). *)
LockAccount(c) ==
    /\ client[c].pc = "flock"
    /\ FlockFree(c)
    /\ flock' = c
    /\ GoesTo(c, "mutex")
    /\ UNCHANGED <<step, memory, disk, mutex, spent, answered, disturbed>>

MutexFree(c) == mutex[P(c)] = NoClient

(* acquireOTPAccount *)
AcquireOTPAccount(c) ==
    /\ client[c].pc = "mutex"
    /\ MutexFree(c)
    /\ mutex' = [mutex EXCEPT ![P(c)] = c]
    /\ GoesTo(c, "check")
    /\ UNCHANGED <<step, memory, disk, flock, spent, answered, disturbed>>

(* The context ends while waiting for a lock. *)
GivesUpLock(c) ==
    /\ "cancel" \in Faults
    /\ client[c].pc \in {"flock", "mutex"}
    /\ client' = [client EXCEPT ![c] =
            [NoLogin EXCEPT !.pc = IF flock = c THEN "unlock" ELSE "idle"]]
    /\ UNCHANGED <<step, memory, disk, mutex, flock, spent, answered, disturbed>>

CloseLock(c) ==
    /\ client[c].pc = "unlock"
    /\ flock' = NoClient
    /\ GoesTo(c, "idle")
    /\ UNCHANGED <<step, memory, disk, mutex, spent, answered, disturbed>>

----------------------------------------------------------------------------
(* One handshake. *)

(* Faulty: the store is asked only by a process that knows nothing. *)
Accepted_memoryFirst(c) ==
    IF memory[P(c)] # 0 \/ c \notin StoredClients THEN memory[P(c)] ELSE disk

(* beforeHandshake: the newer of what the process and the store know. *)
Accepted(c) ==
    IF c \in StoredClients THEN MaxOf(memory[P(c)], disk) ELSE memory[P(c)]

WindowSpent(c) == step <= Accepted(c)

BeforeHandshake(c) ==
    /\ client[c].pc = "check"
    /\ memory' = [memory EXCEPT ![P(c)] = Accepted(c)]
    /\ client' = [client EXCEPT
            ![c].pc = IF WindowSpent(c) THEN "waitAccepted" ELSE "password",
            ![c].used = Accepted(c), ![c].second = FALSE]
    /\ UNCHANGED <<step, disk, mutex, flock, spent, answered, disturbed>>

(* waitForAcceptedOTPStep, waitForNextWindow: until a later window. *)
NextWindow(c) ==
    /\ client[c].pc \in {"waitAccepted", "nextWindow"}
    /\ step > client[c].used
    /\ client' = [client EXCEPT
            ![c].pc = IF @ = "nextWindow" THEN "otp" ELSE "password"]
    /\ UNCHANGED <<step, memory, disk, mutex, flock, spent, answered, disturbed>>

PasswordOK(c) ==
    /\ client[c].pc = "password"
    /\ GoesTo(c, "otp")
    /\ UNCHANGED <<step, memory, disk, mutex, flock, spent, answered, disturbed>>

(* verify(): the code of the window it is now. *)
SubmitOTP(c) ==
    /\ client[c].pc = "otp"
    /\ client' = [client EXCEPT ![c].pc = "sent", ![c].used = step]
    /\ UNCHANGED <<step, memory, disk, mutex, flock, spent, answered, disturbed>>

CodeGood(c) == spent[client[c].used] = NoClient

Spends(c) == CodeGood(c) /\ spent' = [spent EXCEPT ![client[c].used] = c]

(* The exchange ended badly, but the server may have accepted the code. *)
MaySpend(c) ==
    \/ spent' = spent
    \/ client[c].pc = "sent" /\ Spends(c)

(* Faulty: with a store, the process relies on it alone. *)
Remembers_notStored(c) ==
    memory' = [memory EXCEPT ![P(c)] =
        IF c \in StoredClients THEN @ ELSE MaxOf(@, client[c].used)]

(* Faulty: the window it is now, not the one of the code. *)
Remembers_clock(c) == memory' = [memory EXCEPT ![P(c)] = MaxOf(@, step)]

Remembers(c) ==
    memory' = [memory EXCEPT ![P(c)] = MaxOf(@, client[c].used)]

(* 2xx: acceptOTPStep remembers the window in the process first. *)
OTPAccepted(c) ==
    /\ client[c].pc = "sent"
    /\ Spends(c)
    /\ answered' = [answered EXCEPT ![c] = client[c].used]
    /\ Remembers(c)
    /\ GoesTo(c, IF c \in StoredClients THEN "persist" ELSE "impersonate")
    /\ UNCHANGED <<step, disk, mutex, flock, disturbed>>

(* 2xx, but doJSON returns the error of reading the body. *)
OTPUnreadable(c) ==
    /\ Disturbs("unreadable")
    /\ client[c].pc = "sent"
    /\ Spends(c)
    /\ Returns(c)
    /\ UNCHANGED <<step, memory, disk, flock, answered>>

(* 401, of a spent code or because of the server's clock: the first time,
   wait for the next window. *)
OTPRejected(c) ==
    /\ client[c].pc = "sent" /\ ~client[c].second
    /\ client' = [client EXCEPT ![c].pc = "nextWindow", ![c].second = TRUE]
    /\ UNCHANGED <<step, memory, disk, mutex, flock, spent, answered, disturbed>>

OTPRejectedAgain(c) ==
    /\ client[c].pc = "sent" /\ client[c].second
    /\ Returns(c)
    /\ UNCHANGED <<step, memory, disk, flock, spent, answered, disturbed>>

(* Faulty: nothing is written. *)
Persisted_dropped(c) == disk

Persisted(c) == MaxOf(disk, client[c].used)

(* saveAcceptedOTPStep *)
PersistStep(c) ==
    /\ client[c].pc = "persist"
    /\ disk' = Persisted(c)
    /\ GoesTo(c, "impersonate")
    /\ UNCHANGED <<step, memory, mutex, flock, spent, answered, disturbed>>

(* ErrOTPStateStorage: a read or a write failed; a write that fails in its
   last step, the sync of the directory, has already replaced the file. *)
StorageFails(c) ==
    /\ Disturbs("storage")
    /\ c \in StoredClients
    /\ \/ client[c].pc = "check" /\ disk' = disk
       \/ client[c].pc = "persist" /\ disk' \in {disk, Persisted(c)}
    /\ Returns(c)
    /\ UNCHANGED <<step, memory, flock, spent, answered>>

(* The optional impersonation, then login() returns the new session. *)
HandshakeDone(c) ==
    /\ client[c].pc = "impersonate"
    /\ Returns(c)
    /\ UNCHANGED <<step, memory, disk, flock, spent, answered, disturbed>>

Exchanging == {"password", "sent", "impersonate"}

(* An exchange fails for good; the server may have spent the code. *)
ExchangeFails(c) ==
    /\ Disturbs("lost")
    /\ client[c].pc \in Exchanging
    /\ Returns(c)
    /\ MaySpend(c)
    /\ UNCHANGED <<step, memory, disk, flock, answered>>

Retries(c) ==
    IF client[c].attempt < MaxAttempts - 1
    THEN /\ client' = [client EXCEPT ![c].pc = "sleep", ![c].attempt = @ + 1]
         /\ UNCHANGED mutex
    ELSE Returns(c)

(* 429: login() sleeps and starts the handshake again, or gives up. *)
ExchangeLimited(c) ==
    /\ Disturbs("limited")
    /\ client[c].pc \in Exchanging
    /\ Retries(c)
    /\ MaySpend(c)
    /\ UNCHANGED <<step, memory, disk, flock, answered>>

SleepReturns(c) ==
    /\ client[c].pc = "sleep"
    /\ GoesTo(c, "check")
    /\ UNCHANGED <<step, memory, disk, mutex, flock, spent, answered, disturbed>>

(* The context ends during a wait, between two exchanges, or just before the
   accepted window is written with the same context. *)
Waiting == {"check", "waitAccepted", "nextWindow", "sleep"}

(* Faulty: no deferred release. *)
LoginCanceled_keepsLock(c) ==
    /\ "cancel" \in Faults /\ client[c].pc \in Waiting
    /\ client' = [client EXCEPT ![c] = NoLogin]
    /\ UNCHANGED <<step, memory, disk, mutex, flock, spent, answered, disturbed>>

LoginCanceled(c) ==
    /\ \/ "cancel" \in Faults /\ client[c].pc \in Waiting /\ UNCHANGED disturbed
       \/ client[c].pc = "persist" /\ Disturbs("lateCancel")
    /\ Returns(c)
    /\ UNCHANGED <<step, memory, disk, flock, spent, answered>>

----------------------------------------------------------------------------
(* The environment. *)

Tick ==
    /\ step < MaxStep
    /\ step' = step + 1
    /\ UNCHANGED <<memory, disk, mutex, flock, client, spent, answered, disturbed>>

(* A process dies: the kernel drops its lock, the server may still accept
   the code that was under way. *)
Crash(p) ==
    /\ Disturbs("crash")
    /\ client' = [c \in Clients |-> IF P(c) = p THEN NoLogin ELSE client[c]]
    /\ memory' = [memory EXCEPT ![p] = 0]
    /\ answered' = [c \in Clients |-> IF P(c) = p THEN 0 ELSE answered[c]]
    /\ mutex' = [mutex EXCEPT ![p] = NoClient]
    /\ flock' = IF \E c \in Clients : flock = c /\ P(c) = p
                THEN NoClient ELSE flock
    /\ \/ spent' = spent
       \/ \E c \in Clients : P(c) = p /\ client[c].pc = "sent" /\ Spends(c)
    /\ UNCHANGED <<step, disk>>

HandshakeSteps(c) ==
    \/ BeforeHandshake(c) \/ NextWindow(c) \/ PasswordOK(c) \/ SubmitOTP(c)
    \/ OTPAccepted(c) \/ OTPUnreadable(c) \/ OTPRejected(c)
    \/ OTPRejectedAgain(c) \/ PersistStep(c) \/ StorageFails(c)
    \/ HandshakeDone(c) \/ ExchangeFails(c) \/ ExchangeLimited(c)
    \/ SleepReturns(c) \/ LoginCanceled(c)

LockSteps(c) ==
    LockAccount(c) \/ AcquireOTPAccount(c) \/ GivesUpLock(c) \/ CloseLock(c)

Next ==
    \/ \E c \in Clients : Start(c) \/ LockSteps(c) \/ HandshakeSteps(c)
    \/ Tick
    \/ \E p \in Processes : Crash(p)

Spec == Init /\ [][Next]_vars

(* Exchanges time out and sleeps end (or the context of the login does); the
   mutex is a channel, which serves its receivers in order.  Lock files are
   polled, so no client is promised the lock file. *)
FairSpec ==
    /\ Spec
    /\ \A c \in Clients : WF_vars(HandshakeSteps(c)) /\ WF_vars(CloseLock(c))
                           /\ SF_vars(AcquireOTPAccount(c))

----------------------------------------------------------------------------
PCs == {"idle", "flock", "mutex", "check", "waitAccepted", "password", "otp",
        "sent", "nextWindow", "persist", "impersonate", "sleep", "unlock"}

TypeOK ==
    /\ step \in Nat \ {0}
    /\ memory \in [Processes -> Nat]
    /\ disk \in Nat
    /\ mutex \in [Processes -> Clients \cup {NoClient}]
    /\ flock \in StoredClients \cup {NoClient}
    /\ client \in [Clients -> [pc : PCs, attempt : 0 .. MaxAttempts - 1,
                               used : Nat, second : BOOLEAN]]
    /\ spent \in [1 .. MaxStep -> Clients \cup {NoClient}]
    /\ answered \in [Clients -> Nat]
    /\ disturbed \in 0 .. MaxDisturbances

(* "Skips a known-spent step": a code that is at the server belongs to a
   later window than any this process, or the shared store, knows accepted,
   whatever other clients did since the window was checked. *)
NoKnownReplay ==
    \A c \in Clients : client[c].pc = "sent" =>
        /\ client[c].used > memory[P(c)]
        /\ c \in StoredClients => client[c].used > disk

(* No false memory: a window is remembered, in a process or in the store,
   only if the server accepted its code, so nobody waits for nothing. *)
Spent(w) == spent[w] # NoClient

StepsAreSpent ==
    /\ \A p \in Processes : memory[p] # 0 => Spent(memory[p])
    /\ disk # 0 => Spent(disk)

(* Do two clients share what they know of the account? *)
Shares(c, d) == P(c) = P(d) \/ {c, d} \subseteq StoredClients

Submits(c) == client[c].pc # "sent" /\ client'[c].pc = "sent"

(* Before the first fault, a client never submits a code that the server
   already accepted from a client it shares a process or the store with,
   however waits are canceled: no login costs a 401 and a window. *)
NoSpentStepSubmitted ==
    [][\A c \in Clients : disturbed = 0 /\ Submits(c) =>
        \A d \in Clients : spent[client'[c].used] = d => ~Shares(c, d)]_vars

(* A process remembers every window it read a 2xx for, whatever failed after
   that: the store, the impersonation, the context of the login. *)
AcceptedStepRemembered ==
    \A c \in Clients : mutex[P(c)] = NoClient => memory[P(c)] >= answered[c]

(* "After the server accepts an OTP, the SDK remembers the TOTP step". *)
SpentStepRemembered ==
    \A c \in Clients, w \in 1 .. MaxStep :
        spent[w] = c /\ mutex[P(c)] = NoClient => memory[P(c)] >= w

(* "With SessionCacheDir, it also survives restarts": while no stored client
   logs in, the store misses no more windows that were answered 2xx than
   there were faults. *)
AcceptedStepPersisted ==
    flock = NoClient =>
        Cardinality({w \in 1 .. MaxStep : \E c \in StoredClients :
                        answered[c] = w /\ disk < w}) <= disturbed

(* Liveness: the locks of an account are given back, also when a client that
   holds the lock file waits for the mutex of its process. *)
AccountFreed ==
    /\ flock # NoClient ~> flock = NoClient
    /\ \A p \in Processes : mutex[p] # NoClient ~> mutex[p] = NoClient

=============================================================================
