--------------------------- MODULE OTPAccountLock ---------------------------
(***************************************************************************)
(* The in-process lock of one account (otp_coordination.go:                *)
(* acquireOTPAccount and the release function it returns): a table of      *)
(* reference-counted one-token semaphores, an entry of which disappears    *)
(* with its last user.  One step is one critical section of                *)
(* otpCoordination, or one channel operation.                              *)
(***************************************************************************)
EXTENDS Integers, FiniteSets

CONSTANTS
    Callers,        \* goroutines that call acquireOTPAccount, in turn
    Accounts,       \* identities (otpAccountIdentity)
    Locks,          \* *otpAccountLock objects
    NoAccount, NoLock

ASSUME OTPAccountLockAssumption ==
    /\ IsFiniteSet(Callers)
    /\ NoAccount \notin Accounts
    /\ NoLock \notin Locks

VARIABLES
    locks,          \* otpCoordination.locks
    token,          \* is there a token in the lock's semaphore
    users,          \* otpAccountLock.users
    caller,         \* each caller: pc, identity, lock
    canceled        \* is the context of its current call canceled

vars == <<locks, token, users, caller, canceled>>

Idle == [pc |-> "idle", account |-> NoAccount, lock |-> NoLock]

(* Objects nothing refers to; a new lock is one of them. *)
Unused(l) ==
    /\ \A a \in Accounts : locks[a] # l
    /\ \A c \in Callers : caller[c].lock # l

Init ==
    /\ locks = [a \in Accounts |-> NoLock]
    /\ token = [l \in Locks |-> FALSE]
    /\ users = [l \in Locks |-> 0]
    /\ caller = [c \in Callers |-> Idle]
    /\ canceled = [c \in Callers |-> FALSE]

Enters(c, a, l) ==
    caller' = [caller EXCEPT ![c] = [pc |-> "waiting", account |-> a, lock |-> l]]

GoesTo(c, pc) == caller' = [caller EXCEPT ![c].pc = pc]

(* Faulty: a caller that joins is not counted. *)
JoinLock_uncounted(c, a) ==
    /\ caller[c] = Idle
    /\ locks[a] # NoLock
    /\ users' = users
    /\ Enters(c, a, locks[a])
    /\ UNCHANGED <<locks, token, canceled>>

(* A call starts and finds the account's lock in the table ... *)
JoinLock(c, a) ==
    /\ caller[c] = Idle
    /\ locks[a] # NoLock
    /\ users' = [users EXCEPT ![locks[a]] = @ + 1]
    /\ Enters(c, a, locks[a])
    /\ UNCHANGED <<locks, token, canceled>>

(* Faulty: the caller that made the lock is not counted. *)
MakeLock_uncounted(c, a, l) ==
    /\ caller[c] = Idle
    /\ locks[a] = NoLock
    /\ Unused(l)
    /\ locks' = [locks EXCEPT ![a] = l]
    /\ token' = [token EXCEPT ![l] = TRUE]
    /\ users' = [users EXCEPT ![l] = 0]
    /\ Enters(c, a, l)
    /\ UNCHANGED canceled

(* ... or makes it. *)
MakeLock(c, a, l) ==
    /\ caller[c] = Idle
    /\ locks[a] = NoLock
    /\ Unused(l)
    /\ locks' = [locks EXCEPT ![a] = l]
    /\ token' = [token EXCEPT ![l] = TRUE]
    /\ users' = [users EXCEPT ![l] = 1]
    /\ Enters(c, a, l)
    /\ UNCHANGED canceled

(* <-lock.semaphore *)
TakeToken(c) ==
    /\ caller[c].pc = "waiting"
    /\ token[caller[c].lock]
    /\ token' = [token EXCEPT ![caller[c].lock] = FALSE]
    /\ GoesTo(c, "taken")
    /\ UNCHANGED <<locks, users, canceled>>

(* <-ctx.Done() won the select: no token to give back. *)
StopWaiting(c) ==
    /\ caller[c].pc = "waiting"
    /\ canceled[c]
    /\ GoesTo(c, "leaving")
    /\ UNCHANGED <<locks, token, users, canceled>>

(* The context is looked at once more before the caller owns the account. *)
Own(c) ==
    /\ caller[c].pc = "taken"
    /\ ~canceled[c]
    /\ GoesTo(c, "holding")
    /\ UNCHANGED <<locks, token, users, canceled>>

(* The token goes back: after a late cancellation, or from release().  A
   second release() is a no-op (sync.Once). *)
MayGiveBack(c) ==
    \/ caller[c].pc = "holding"
    \/ caller[c].pc = "taken" /\ canceled[c]

(* Faulty: a late cancellation forgets the token it took. *)
GiveBack_onlyOwner(c) ==
    /\ MayGiveBack(c)
    /\ token' = IF caller[c].pc = "holding"
                THEN [token EXCEPT ![caller[c].lock] = TRUE] ELSE token
    /\ GoesTo(c, "leaving")
    /\ UNCHANGED <<locks, users, canceled>>

GiveBack(c) ==
    /\ MayGiveBack(c)
    /\ ~token[caller[c].lock]
    /\ token' = [token EXCEPT ![caller[c].lock] = TRUE]
    /\ GoesTo(c, "leaving")
    /\ UNCHANGED <<locks, users, canceled>>

(* Faulty: the table entry goes while somebody still uses it. *)
LastUser_offByOne(c) == users[caller[c].lock] <= 2

LastUser(c) == users[caller[c].lock] = 1

(* users--, and the last user deletes the table entry. *)
Leave(c) ==
    /\ caller[c].pc = "leaving"
    /\ users' = [users EXCEPT ![caller[c].lock] = @ - 1]
    /\ locks' = IF LastUser(c)
                THEN [locks EXCEPT ![caller[c].account] = NoLock] ELSE locks
    /\ caller' = [caller EXCEPT ![c] = Idle]
    /\ canceled' = [canceled EXCEPT ![c] = FALSE]
    /\ UNCHANGED token

Cancel(c) ==
    /\ caller[c] # Idle
    /\ ~canceled[c]
    /\ canceled' = [canceled EXCEPT ![c] = TRUE]
    /\ UNCHANGED <<locks, token, users, caller>>

Steps(c) ==
    \/ TakeToken(c) \/ StopWaiting(c) \/ Own(c) \/ GiveBack(c) \/ Leave(c)

Next == \E c \in Callers :
    \/ \E a \in Accounts : JoinLock(c, a) \/ \E l \in Locks : MakeLock(c, a, l)
    \/ Steps(c) \/ Cancel(c)

Spec == Init /\ [][Next]_vars

(* Owners release (login() defers it, and its exchanges have timeouts), and a
   channel serves its blocked receivers in order, so a waiter that keeps
   finding the token there is served. *)
FairSpec ==
    /\ Spec
    /\ \A c \in Callers : WF_vars(Steps(c)) /\ SF_vars(TakeToken(c))

----------------------------------------------------------------------------
PCs == {"idle", "waiting", "taken", "holding", "leaving"}

TypeOK ==
    /\ locks \in [Accounts -> Locks \cup {NoLock}]
    /\ token \in [Locks -> BOOLEAN]
    /\ users \in [Locks -> Nat]
    /\ caller \in [Callers -> [pc : PCs,
                               account : Accounts \cup {NoAccount},
                               lock : Locks \cup {NoLock}]]
    /\ canceled \in [Callers -> BOOLEAN]

HasToken(c) == caller[c].pc \in {"taken", "holding"}

Users(l) == {c \in Callers : caller[c].lock = l}

(* Two callers never own the same account, whatever lock objects came and
   went between their calls. *)
MutualExclusion ==
    \A c, d \in Callers :
        HasToken(c) /\ HasToken(d) /\ caller[c].account = caller[d].account
            => c = d

(* The token is in the semaphore or with exactly one of the lock's users:
   giving it back never blocks, and no waiter waits for a token that is gone. *)
TokenIsSomewhere ==
    \A l \in Locks : Users(l) # {} =>
        (token[l] <=> ~\E c \in Users(l) : HasToken(c))

(* The table holds a lock exactly as long as somebody uses it: no entry is
   leaked, and none is deleted under a user. *)
TableIsExact ==
    /\ \A a \in Accounts : locks[a] # NoLock => Users(locks[a]) # {}
    /\ \A c \in Callers :
        caller[c] # Idle => locks[caller[c].account] = caller[c].lock

(* Liveness: every waiter gets the account or gives up. *)
WaiterServed ==
    \A c \in Callers : caller[c].pc = "waiting" ~> caller[c].pc # "waiting"

(* The lock implements the mutex logins rely on. *)
Claim(c) ==
    CASE caller[c].pc = "waiting" ->
            [phase |-> "waiting", account |-> caller[c].account]
      [] HasToken(c) -> [phase |-> "holding", account |-> caller[c].account]
      [] OTHER -> [phase |-> "idle", account |-> NoAccount]

Mutex == INSTANCE AccountMutex WITH claim <- [c \in Callers |-> Claim(c)]

ImplementsMutex == Mutex!Spec

=============================================================================
