------------------------------ MODULE FileStore ------------------------------
(***************************************************************************)
(* The file session store (session_store.go) as its users see it on one    *)
(* entry: the retry deadline of an account (account_retry.go), which is    *)
(* loaded, raised and saved under the account's lock file.  One step is    *)
(* one system call.  Any step may fail, contexts end, processes die, and   *)
(* the machine may lose power: then a file keeps what was synced, and the  *)
(* directory one of the entries it had since it was synced.                *)
(***************************************************************************)
EXTENDS Integers, FiniteSets

CONSTANTS
    Users,          \* goroutines that save a deadline, each in its process
    NoUser,
    Deadlines,      \* the deadlines servers ask for
    MaxFailures     \* bound: how many crashes and power failures

ASSUME FileStoreAssumption ==
    /\ NoUser \notin Users
    /\ IsFiniteSet(Users)
    /\ Deadlines \subseteq Nat \ {0}
    /\ MaxFailures \in Nat

VARIABLES
    entry,      \* the file the entry's name refers to
    onDisk,     \* the files it may refer to after a power failure
    holder,     \* who has flock on the account's lock file
    user,       \* each user: pc, the deadline to save, its temporary file
    left,       \* how many temporary files nobody will remove any more
    failures,   \* history: crashes and power failures so far
    reported    \* history: the latest deadline whose save returned nil

vars == <<entry, onDisk, holder, user, left, failures, reported>>

MaxOf(a, b) == IF a > b THEN a ELSE b

(* A file: the deadline in it (0: no such file), and whether its content has
   reached the disk.  A file that had not may be anything afterwards. *)
Corrupt == -1
NoFile == [deadline |-> 0, synced |-> TRUE]

Idle == [pc |-> "idle", deadline |-> 0, tmp |-> "none"]

Init ==
    /\ entry = NoFile
    /\ onDisk = {NoFile}
    /\ holder = NoUser
    /\ user = [u \in Users |-> Idle]
    /\ left = 0
    /\ failures = 0
    /\ reported = 0

GoesTo(u, pc) == user' = [user EXCEPT ![u].pc = pc]

----------------------------------------------------------------------------
(* Lock: the lock file is opened and polled. *)

Call(u, d) ==
    /\ user[u].pc = "idle"
    /\ user' = [user EXCEPT ![u] = [Idle EXCEPT !.pc = "try", !.deadline = d]]
    /\ UNCHANGED <<entry, onDisk, holder, left, failures, reported>>

(* Faulty: LOCK_SH. *)
LockFree_shared == TRUE

LockFree == holder = NoUser

TryLock(u) ==
    /\ user[u].pc = "try"
    /\ LockFree
    /\ holder' = u
    /\ GoesTo(u, "load")
    /\ UNCHANGED <<entry, onDisk, left, failures, reported>>

(* EWOULDBLOCK: wait for lockPollInterval. *)
LockBusy(u) ==
    /\ user[u].pc = "try"
    /\ ~LockFree
    /\ GoesTo(u, "poll")
    /\ UNCHANGED <<entry, onDisk, holder, left, failures, reported>>

PollAgain(u) ==
    /\ user[u].pc = "poll"
    /\ GoesTo(u, "try")
    /\ UNCHANGED <<entry, onDisk, holder, left, failures, reported>>

(* The context ends before flock succeeded, or flock fails for good: the file
   is closed without a lock on it. *)
LockFails(u) ==
    /\ user[u].pc \in {"try", "poll"}
    /\ user' = [user EXCEPT ![u] = Idle]
    /\ UNCHANGED <<entry, onDisk, holder, left, failures, reported>>

(* SessionLock.Close *)
Close(u) ==
    /\ user[u].pc = "close"
    /\ holder' = NoUser
    /\ user' = [user EXCEPT ![u] = Idle]
    /\ UNCHANGED <<entry, onDisk, left, failures, reported>>

----------------------------------------------------------------------------
(* saveAccountRetry: Load, then Save, in the system calls that matter. *)

(* The later of the previous deadline and the new one. *)
Later(u) == MaxOf(entry.deadline, user[u].deadline)

Load(u) ==
    /\ user[u].pc = "load"
    /\ entry.deadline # Corrupt
    /\ user' = [user EXCEPT ![u].pc = "create", ![u].deadline = Later(u)]
    /\ UNCHANGED <<entry, onDisk, holder, left, failures, reported>>

(* os.CreateTemp and Chmod. *)
CreateTemp(u) ==
    /\ user[u].pc = "create"
    /\ user' = [user EXCEPT ![u].pc = "write", ![u].tmp = "empty"]
    /\ UNCHANGED <<entry, onDisk, holder, left, failures, reported>>

Write(u) ==
    /\ user[u].pc = "write"
    /\ user' = [user EXCEPT ![u].pc = "sync", ![u].tmp = "written"]
    /\ UNCHANGED <<entry, onDisk, holder, left, failures, reported>>

(* Faulty: the content is not synced before the rename. *)
Sync_skipped(u) ==
    /\ user[u].pc = "sync"
    /\ GoesTo(u, "rename")
    /\ UNCHANGED <<entry, onDisk, holder, left, failures, reported>>

(* Sync, Close and validateTempFile. *)
Sync(u) ==
    /\ user[u].pc = "sync"
    /\ user' = [user EXCEPT ![u].pc = "rename", ![u].tmp = "synced"]
    /\ UNCHANGED <<entry, onDisk, holder, left, failures, reported>>

(* os.Rename: at once for every process, at some time on the disk. *)
Rename(u) ==
    /\ user[u].pc = "rename"
    /\ entry' = [deadline |-> user[u].deadline, synced |-> user[u].tmp = "synced"]
    /\ onDisk' = onDisk \cup {entry'}
    /\ user' = [user EXCEPT ![u].pc = "syncdir", ![u].tmp = "none"]
    /\ UNCHANGED <<holder, left, failures, reported>>

(* syncDirectory: the save returns nil. *)
SyncDirectory(u) ==
    /\ user[u].pc = "syncdir"
    /\ onDisk' = {entry}
    /\ reported' = MaxOf(reported, user[u].deadline)
    /\ GoesTo(u, "close")
    /\ UNCHANGED <<entry, holder, left, failures>>

Saving == {"load", "create", "write", "sync", "rename", "syncdir"}

(* Faulty: the temporary file is removed only when all went well. *)
SaveFails_keepsTemp(u) ==
    /\ user[u].pc \in Saving
    /\ user' = [user EXCEPT ![u].pc = "close", ![u].tmp = "none"]
    /\ left' = left + IF user[u].tmp = "none" THEN 0 ELSE 1
    /\ UNCHANGED <<entry, onDisk, holder, failures, reported>>

(* Faulty: an error returns past the deferred Close of the lock. *)
SaveFails_keepsLock(u) ==
    /\ user[u].pc \in Saving
    /\ user' = [user EXCEPT ![u] = Idle]
    /\ UNCHANGED <<entry, onDisk, holder, left, failures, reported>>

(* Any of these calls fails, or the context ended: the deferred function
   removes the temporary file, the caller closes the lock. *)
SaveFails(u) ==
    /\ user[u].pc \in Saving
    /\ user' = [user EXCEPT ![u].pc = "close", ![u].tmp = "none"]
    /\ UNCHANGED <<entry, onDisk, holder, left, failures, reported>>

----------------------------------------------------------------------------
(* The environment. *)

(* A process dies: the kernel closes its files, nobody its temporary file. *)
Crash(u) ==
    /\ failures < MaxFailures
    /\ user[u].pc # "idle"
    /\ failures' = failures + 1
    /\ holder' = IF holder = u THEN NoUser ELSE holder
    /\ left' = left + IF user[u].tmp = "none" THEN 0 ELSE 1
    /\ user' = [user EXCEPT ![u] = Idle]
    /\ UNCHANGED <<entry, onDisk, reported>>

AfterPowerFailure(file) ==
    [deadline |-> IF file.synced THEN file.deadline ELSE Corrupt, synced |-> TRUE]

(* The machine stops, and all its processes with it; a temporary file may
   have reached the disk, and is counted as if it had. *)
PowerFailure ==
    /\ failures < MaxFailures
    /\ failures' = failures + 1
    /\ \E file \in onDisk : entry' = AfterPowerFailure(file)
    /\ onDisk' = {entry'}
    /\ holder' = NoUser
    /\ left' = left + IF \E u \in Users : user[u].tmp # "none" THEN 1 ELSE 0
    /\ user' = [u \in Users |-> Idle]
    /\ UNCHANGED reported

HolderSteps(u) ==
    \/ Load(u) \/ CreateTemp(u) \/ Write(u) \/ Sync(u) \/ Rename(u)
    \/ SyncDirectory(u) \/ SaveFails(u) \/ Close(u)

LockSteps(u) == TryLock(u) \/ LockBusy(u) \/ PollAgain(u) \/ LockFails(u)

Next ==
    \/ \E u \in Users :
        \/ \E d \in Deadlines : Call(u, d)
        \/ LockSteps(u) \/ HolderSteps(u) \/ Crash(u)
    \/ PowerFailure

Spec == Init /\ [][Next]_vars

(* System calls return.  Nothing is promised to those that poll. *)
FairSpec == Spec /\ \A u \in Users : WF_vars(HolderSteps(u))

----------------------------------------------------------------------------
PCs == {"idle", "try", "poll", "close"} \cup Saving

Files == [deadline : Deadlines \cup {0, Corrupt}, synced : BOOLEAN]

TypeOK ==
    /\ entry \in Files
    /\ onDisk \subseteq Files
    /\ holder \in Users \cup {NoUser}
    /\ user \in [Users -> [pc : PCs, deadline : Deadlines \cup {0},
                           tmp : {"none", "empty", "written", "synced"}]]
    /\ left \in Nat
    /\ failures \in Nat
    /\ reported \in Deadlines \cup {0}

(* "Atomically replaces an entry": whenever a process dies or the machine
   stops, the entry can be read, so no failure makes an account unusable. *)
EntryReadable ==
    /\ entry.deadline # Corrupt
    /\ \A file \in onDisk : AfterPowerFailure(file).deadline # Corrupt

(* The deadline of the account only moves later, from whatever processes and
   in whatever order it is saved, and what a save reported survives crashes
   and power failures. *)
Marker == INSTANCE RetryMarker WITH deadline <- entry.deadline
ImplementsMarker == Marker!Spec

(* Files left behind: no save that fails leaves its temporary file, so there
   is at most one for each failure and one for the save under way. *)
TemporariesBounded ==
    left + Cardinality({u \in Users : user[u].tmp # "none"})
        <= failures + IF holder = NoUser THEN 0 ELSE 1

(* Liveness: the account's lock file is unlocked again, whatever fails. *)
LockGivenBack == holder # NoUser ~> holder = NoUser

=============================================================================
