--------------------------- MODULE SharedSession ---------------------------
(***************************************************************************)
(* Processes that share one session of one account through a session store *)
(* (session.go: initialize, stillValid, recover, saveRecord, saveRateLimit, *)
(* persistIneffective; session_store.go and account_retry.go as far as     *)
(* these use them).  Each process has one client.  The account's lock file *)
(* serialises everything that reads or writes the entry and the retry      *)
(* marker; one step is one operation on the store, one exchange with the   *)
(* server, or one assignment to the client's own generation and jar.       *)
(***************************************************************************)
EXTENDS Integers, FiniteSets

CONSTANTS
    Processes,
    NoProcess,
    Cooldown,       \* refresher.cooldown
    Delays,         \* what a 429 may ask for
    Faults,         \* subset of {"storage", "crash"}
    MaxSession,     \* bound: sessions the server grants
    MaxClock        \* bound: how far the clock runs

ASSUME SharedSessionAssumption ==
    /\ NoProcess \notin Processes
    /\ Cooldown \in Nat \ {0}
    /\ Delays \subseteq Nat \ {0}
    /\ Faults \subseteq {"storage", "crash"}
    /\ MaxSession \in Nat
    /\ MaxClock \in Nat

VARIABLES
    now,        \* 0 is the zero time.Time
    flock,      \* who holds the account's lock file
    entry,      \* the SessionRecord in the store
    marker,     \* RetryNotBefore of the account retry record, 0 without one
    client,     \* each process: pc, generation, session, and work in progress
    issued,     \* the server: sessions granted so far, 1 .. issued
    alive,      \* the server: sessions it still honours
    promised    \* history: the server's last deadline, 0 when it was lost or
                \* a login succeeded

vars == <<now, flock, entry, marker, client, issued, alive, promised>>

(* Client states.  off: no client.  init, recover, note: initialize(),
   recover(), persistIneffective() before and after they got the lock;
   login, sleep, save, limited: inside login() and the saves that follow it;
   publish: recover() returned, refresh() has not assigned yet; up: idle.
   "work" is what the login is for, "got" the session and generation won;
   "recovered": its session came from a recovery, so requests may be replayed
   with it. *)
Off == [pc |-> "off", generation |-> 0, session |-> 0, recovered |-> FALSE,
        work |-> "none",
        gotGeneration |-> 0, gotSession |-> 0, deadline |-> 0]

NoEntry == [generation |-> 0, session |-> 0, cookies |-> "none", retry |-> 0]

(* cookies: "none" (an invalidated entry, or no entry at all when the
   generation is 0), "live", or "expired" (Load: ErrSessionExpired). *)
Init ==
    /\ now = 1
    /\ flock = NoProcess
    /\ entry = NoEntry
    /\ marker = 0
    /\ client = [p \in Processes |-> Off]
    /\ issued = 0 /\ alive = {}
    /\ promised = 0

MaxOf(a, b) == IF a > b THEN a ELSE b

GoesTo(p, pc) == client' = [client EXCEPT ![p].pc = pc]

Unlocks == flock' = NoProcess

(* Back to the client as it was: none, or one with its old session. *)
Resting(p) == [client[p] EXCEPT !.pc = IF client[p].generation = 0 THEN "off" ELSE "up",
                                !.work = "none", !.gotGeneration = 0,
                                !.gotSession = 0, !.deadline = 0]
Rests(p) == client' = [client EXCEPT ![p] = Resting(p)]

----------------------------------------------------------------------------
(* What makes a client work. *)

New(p) ==
    /\ client[p].pc = "off"
    /\ GoesTo(p, "init")
    /\ UNCHANGED <<now, flock, entry, marker, issued, alive, promised>>

(* RoundTrip: a request met session loss, or its replay did. *)
SessionLost(p, work) ==
    /\ client[p].pc = "up"
    /\ client[p].session \notin alive
    /\ work = "recover" \/ client[p].recovered
    /\ client' = [client EXCEPT ![p].pc = work, ![p].deadline = now + Cooldown]
    /\ UNCHANGED <<now, flock, entry, marker, issued, alive, promised>>

(* Faulty: the lock file does not exclude. *)
LockFree_shared(p) == TRUE

LockFree(p) == flock = NoProcess

LockAccount(p) ==
    /\ client[p].pc \in {"init", "recover", "note"}
    /\ flock # p
    /\ LockFree(p)
    /\ flock' = p
    /\ UNCHANGED <<now, entry, marker, client, issued, alive, promised>>

(* The context ends before the lock is there or before the entry is read, or
   the store cannot be read. *)
GivesUp(p) ==
    /\ client[p].pc \in {"init", "recover", "note"}
    /\ flock' = IF flock = p THEN NoProcess ELSE flock
    /\ Rests(p)
    /\ UNCHANGED <<now, entry, marker, issued, alive, promised>>

Locked(p, pc) == client[p].pc = pc /\ flock = p

----------------------------------------------------------------------------
(* initialize() *)

(* A cached session is probed first; only a definite session loss rejects
   it, a transport error does not. *)
InitAdopts(p) ==
    /\ Locked(p, "init")
    /\ entry.cookies = "live"
    /\ client' = [client EXCEPT ![p] = [Off EXCEPT !.pc = "up",
            !.generation = entry.generation, !.session = entry.session]]
    /\ Unlocks
    /\ UNCHANGED <<now, entry, marker, issued, alive, promised>>

Usable == entry.cookies = "live" /\ entry.session \in alive

DeadlinePending == now < entry.retry \/ now < marker

(* Faulty: a recovery always logs in. *)
CanAdopt_never(p) == FALSE

(* recover() goes on only when it cannot adopt a newer session. *)
CanAdopt(p) == entry.cookies = "live" /\ entry.generation > client[p].generation

MustLogin(p) ==
    \/ Locked(p, "init") /\ ~Usable
    \/ Locked(p, "recover") /\ ~CanAdopt(p)

Refused(p) ==
    /\ MustLogin(p)
    /\ DeadlinePending
    /\ Rests(p) /\ Unlocks
    /\ UNCHANGED <<now, entry, marker, issued, alive, promised>>

(* Faulty: the record's generation is not looked at. *)
NextGeneration_own(p) == client[p].generation + 1
(* Faulty: the generation is kept. *)
NextGeneration_kept(p) == MaxOf(client[p].generation, entry.generation)

(* The generation after the record's, as it was read before the login;
   recover() also counts from the one its client had. *)
NextGeneration(p) == MaxOf(client[p].generation, entry.generation) + 1

StartsLogin(p) ==
    /\ MustLogin(p)
    /\ ~DeadlinePending
    /\ client' = [client EXCEPT ![p].work = client[p].pc, ![p].pc = "login",
                                ![p].deadline = 0,
                                ![p].gotGeneration = NextGeneration(p)]
    /\ UNCHANGED <<now, flock, entry, marker, issued, alive, promised>>

(* recover() *)
RecoverAdopts(p) ==
    /\ Locked(p, "recover")
    /\ CanAdopt(p)
    /\ client' = [client EXCEPT ![p].pc = "publish",
            ![p].gotGeneration = entry.generation, ![p].gotSession = entry.session]
    /\ Unlocks
    /\ UNCHANGED <<now, entry, marker, issued, alive, promised>>

----------------------------------------------------------------------------
(* login(), seen from the store. *)

LoginOK(p) ==
    /\ client[p].pc = "login"
    /\ issued < MaxSession
    /\ issued' = issued + 1
    /\ alive' = alive \cup {issued'}
    /\ client' = [client EXCEPT ![p].pc = "save", ![p].gotSession = issued']
    /\ promised' = 0
    /\ UNCHANGED <<now, flock, entry, marker>>

LoginFails(p) ==
    /\ client[p].pc = "login"
    /\ Rests(p) /\ Unlocks
    /\ UNCHANGED <<now, entry, marker, issued, alive, promised>>

(* 429: sleep and retry under the lock, or (after the last attempt, or when
   the sleep is cut short) give up with the deadline still to be saved. *)
LoginLimited(p, d) ==
    /\ client[p].pc = "login"
    /\ \E pc \in {"sleep", "limited"} : client' =
            [client EXCEPT ![p].pc = pc, ![p].deadline = now + d]
    /\ promised' = now + d
    /\ UNCHANGED <<now, flock, entry, marker, issued, alive>>

SleepReturns(p) ==
    /\ client[p].pc = "sleep"
    /\ client' = [client EXCEPT
            ![p].pc = IF now >= client[p].deadline THEN "login" ELSE "limited"]
    /\ UNCHANGED <<now, flock, entry, marker, issued, alive, promised>>

(* Faulty: the new deadline is not written. *)
Deadline_dropped(p) == marker

Deadline(p) == MaxOf(marker, client[p].deadline)

(* saveRateLimit: only a deadline that is still ahead is worth saving. *)
SaveRateLimit(p) ==
    /\ client[p].pc = "limited"
    /\ marker' = IF now < client[p].deadline THEN Deadline(p) ELSE marker
    /\ Rests(p) /\ Unlocks
    /\ UNCHANGED <<now, entry, issued, alive, promised>>

(* The marker cannot be read or written: the deadline is lost. *)
SaveRateLimitFails(p) ==
    /\ "storage" \in Faults
    /\ client[p].pc = "limited"
    /\ promised' = 0
    /\ Rests(p) /\ Unlocks
    /\ UNCHANGED <<now, entry, marker, issued, alive>>

(* saveRecord: Save replaces the entry as a whole. *)
SavedEntry(p) ==
    [generation |-> client[p].gotGeneration, session |-> client[p].gotSession,
     cookies |-> "live", retry |-> 0]

(* initialize() assigns under the lock, recover() returns to refresh(). *)
Won(p) ==
    IF client[p].work = "init"
    THEN [Off EXCEPT !.pc = "up", !.generation = client[p].gotGeneration,
                     !.session = client[p].gotSession]
    ELSE [client[p] EXCEPT !.pc = "publish", !.work = "none"]

SaveRecord(p) ==
    /\ client[p].pc = "save"
    /\ entry' = SavedEntry(p)
    /\ client' = [client EXCEPT ![p] = Won(p)]
    /\ Unlocks
    /\ UNCHANGED <<now, marker, issued, alive, promised>>

(* The context ended during the login, or a write failed; a save that fails
   may have replaced the file all the same (the directory is synced after the
   rename).  The session that was won is dropped. *)
SaveFails(p) ==
    /\ client[p].pc = "save"
    /\ \/ entry' = entry
       \/ "storage" \in Faults /\ entry' = SavedEntry(p)
    /\ Rests(p) /\ Unlocks
    /\ UNCHANGED <<now, marker, issued, alive, promised>>

(* refresh() publishes what recover() returned. *)
Publish(p) ==
    /\ client[p].pc = "publish"
    /\ client' = [client EXCEPT ![p] = [Off EXCEPT !.pc = "up",
            !.generation = client[p].gotGeneration,
            !.session = client[p].gotSession, !.recovered = TRUE]]
    /\ UNCHANGED <<now, flock, entry, marker, issued, alive, promised>>

----------------------------------------------------------------------------
(* persistIneffective() *)

(* Faulty: the record is invalidated whatever its generation. *)
SameGeneration_ignored(p) == TRUE

SameGeneration(p) == entry.generation = client[p].generation

Invalidated(p) ==
    [entry EXCEPT !.cookies = "none", !.session = 0, !.retry = client[p].deadline]

MarksIneffective(p) ==
    /\ Locked(p, "note")
    /\ entry.cookies # "expired" /\ entry.generation # 0
    /\ SameGeneration(p)
    /\ \/ entry' = Invalidated(p)
       \/ "storage" \in Faults /\ entry' = entry
    /\ Rests(p) /\ Unlocks
    /\ UNCHANGED <<now, marker, issued, alive, promised>>

MarkSkipped(p) ==
    /\ Locked(p, "note")
    /\ entry.cookies = "expired" \/ entry.generation = 0 \/ ~SameGeneration(p)
    /\ Rests(p) /\ Unlocks
    /\ UNCHANGED <<now, entry, marker, issued, alive, promised>>

----------------------------------------------------------------------------
(* The environment. *)

Tick ==
    /\ now < MaxClock
    /\ now' = now + 1
    /\ UNCHANGED <<flock, entry, marker, client, issued, alive, promised>>

ServerForgets(s) ==
    /\ s \in alive
    /\ alive' = alive \ {s}
    /\ UNCHANGED <<now, flock, entry, marker, client, issued, promised>>

CookiesExpire ==
    /\ entry.cookies = "live"
    /\ entry' = [entry EXCEPT !.cookies = "expired"]
    /\ UNCHANGED <<now, flock, marker, client, issued, alive, promised>>

(* The process ends; a deadline it had not saved yet goes with it. *)
Crash(p) ==
    /\ "crash" \in Faults
    /\ client[p].pc # "off"
    /\ client' = [client EXCEPT ![p] = Off]
    /\ flock' = IF flock = p THEN NoProcess ELSE flock
    /\ promised' = IF client[p].pc \in {"sleep", "limited"} THEN 0 ELSE promised
    /\ UNCHANGED <<now, entry, marker, issued, alive>>

ClientSteps(p) ==
    \/ GivesUp(p) \/ InitAdopts(p) \/ Refused(p) \/ StartsLogin(p)
    \/ RecoverAdopts(p) \/ LoginOK(p) \/ LoginFails(p)
    \/ \E d \in Delays : LoginLimited(p, d)
    \/ SleepReturns(p) \/ SaveRateLimit(p) \/ SaveRateLimitFails(p)
    \/ SaveRecord(p) \/ SaveFails(p)
    \/ Publish(p) \/ MarksIneffective(p) \/ MarkSkipped(p)

Next ==
    \/ \E p \in Processes :
        \/ New(p) \/ LockAccount(p) \/ ClientSteps(p) \/ Crash(p)
        \/ \E work \in {"recover", "note"} : SessionLost(p, work)
    \/ Tick \/ CookiesExpire
    \/ \E s \in 1 .. MaxSession : ServerForgets(s)

Spec == Init /\ [][Next]_vars

----------------------------------------------------------------------------
PCs == {"off", "init", "recover", "note", "login", "sleep", "limited", "save",
        "publish", "up"}

TypeOK ==
    /\ now \in Nat \ {0} /\ marker \in Nat /\ promised \in Nat
    /\ flock \in Processes \cup {NoProcess}
    /\ entry \in [generation : Nat, session : Nat, retry : Nat,
                  cookies : {"none", "live", "expired"}]
    /\ client \in [Processes ->
            [pc : PCs, generation : Nat, session : Nat, deadline : Nat,
             recovered : BOOLEAN, work : {"none", "init", "recover"},
             gotGeneration : Nat, gotSession : Nat]]
    /\ issued \in Nat /\ alive \subseteq 1 .. issued
    /\ \A p \in Processes : client[p].pc = "up" =>
            client[p].generation # 0 /\ client[p].session \in 1 .. issued

(* A generation is the name of a session for every process, whichever of them
   won it and whatever crashed or failed to be saved in between: the tests
   "record.Generation > seen" and "record.Generation != generation" tell
   sessions apart only because of this. *)
GenerationNamesSession ==
    \A p \in Processes : client[p].generation # 0 =>
        /\ \A q \in Processes : client[q].generation = client[p].generation =>
              client[q].session = client[p].session
        /\ entry.cookies # "none" /\ entry.generation = client[p].generation =>
              entry.session = client[p].session

(* A login is spent only where no process left a session that still works:
   while one of them logs in (or sleeps between two attempts) the store has
   no session the server honours. *)
LoginOnlyWithoutSession ==
    \A p \in Processes : client[p].pc \in {"login", "sleep"} =>
        ~(entry.cookies = "live" /\ entry.session \in alive)

(* "Never invalidate or cool down that generation": persistIneffective takes
   only a session out of the store that the server has forgotten, however
   long ago the replay that failed was sent. *)
InvalidatesOnlyDeadSessions ==
    [][/\ entry.cookies = "live" /\ entry'.cookies = "none"
       => entry.session \notin alive]_vars

(* The generation in the store never goes back, also when a save fails after
   it replaced the entry, or a process dies with a session it did not save. *)
StoreGenerationGrows == [][entry'.generation >= entry.generation]_vars

(* "Persists and enforces a rate limit between processes": a deadline that
   the server gave any of the processes holds back the logins of all of them,
   unless the process that heard it died, or failed, before it was saved. *)
LogsIn(p) == client[p].pc # "login" /\ client'[p].pc = "login"

NoLoginBeforeSharedDeadline ==
    [][\A p \in Processes : LogsIn(p) => now >= promised]_vars

=============================================================================
