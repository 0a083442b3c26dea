# A verification project for cloudsigma-go

cloudsigma-go is a client library for the CloudSigma / T-Cloud API. An API
session is a cookie, won by a handshake (password, one-time code, optional
impersonation) that the server limits: a one-time code is accepted once, and
too many logins are answered 429. Most of the library's own logic exists to
spend as few logins as possible, from many goroutines and several processes,
while sessions die, requests fail and processes crash. These TLA+ modules model
that logic; TLC checks them on small instances and TLAPS proves the central
safety properties for all instances.

All line numbers refer to the files in `src/`. Comments marked *Faulty* in the
modules introduce variants `X_variant` of a definition `X`: plausible mistakes
that no specification uses, each of which a property must tell from `X`
(`mutants` in PROJECT.json).

## 1. The system

| Part | State it keeps | Operations | Talks to |
|---|---|---|---|
| Recovery inside a client (`session.go`: `refresher`, `refreshTransport`) | `generation`, `jar`, `inFlight` (channel), `lastErr`, `lastFailureAt`, `notBefore`, `lifetime`, all under `mu` | `RoundTrip`, `refresh`, `recover`, `login`, `noteIneffective`, `persistIneffective`, `close` | account locks, store, server |
| In-process account lock (`otp_coordination.go`) | table `locks` of reference-counted one-token semaphores | `acquireOTPAccount`, its release function | used by every `login` |
| Accepted one-time codes (`otp_coordination.go`, `account_retry.go`) | last accepted 30 s window per account and secret, in the process and in the store | `acceptedOTPStep`, `rememberAcceptedOTPStep`, `waitForAcceptedOTPStep`, `load/saveAcceptedOTPStep` | handshake |
| Handshake (`session.go`: `authenticator`) | none that outlives it | `handshake`, `doJSON`, callbacks `beforeHandshake`, `acceptOTPStep` | server |
| Package cache of `Login` (`session.go`) | `sessionCache`, `sessionCacheCalls` under `sessionMu` | `LoginWithOptions` | creates refreshers |
| File session store (`session_store.go`) | one file per entry, lock files | `Load`, `Save`, `Lock`, `LockAccount`, `LockEntry`, `Close` | shared by processes |
| Account retry marker (`account_retry.go`) | deadline of the last 429 of an account | `load/saveAccountRetry`, merge of legacy keys | `initialize`, `recover` |
| Tracked cookie jar (`tracked_cookie_jar.go`) | wrapped jar, map of tracked cookies | `SetCookies`, `Cookies`, `PersistentCookies`, `Restore` | every exchange |
| Error classification (`errors.go`) | none | `classifyAuthError`, `authRetryAfter`, `parseRetryAfter` | `login`, `RoundTrip` |
| JSON client (`client.go`, `endpoint.go`) | none after `New` | `New`, `Close`, `do` and its verbs | refresher |
| Events, options (`auth.go`), package comment (`doc.go`) | none | observation only | |

How they interact. A request goes through `RoundTrip`; session loss (401, login
redirect, closed impersonation) calls `refresh`, which starts one goroutine per
lost session. That goroutine runs `recover`: with a store it takes the lock
file of the account, adopts a newer session if another process saved one, else
logs in and saves. `login` takes the in-process account lock, runs handshakes,
sleeps after 429 and retries. The waiters then replay their request once; a
replay that is lost again reserves the same slot to record, locally and in the
store, that the session is of no use (`noteIneffective`).

What makes it hard: requests, the recovery goroutine, note goroutines, other
clients of the process and other processes run concurrently; results are read
in another critical section than they are written in; contexts end at any
point; the answer to a code may be lost after the server spent it; writes to
the store fail, sometimes after they took effect; processes die; deadlines of
different origin overwrite each other. The hazards are listed at their lines in
PROJECT.json.

What correctness means, per part:

* recovery: one recovery at a time, always for the current session; deadlines
  and cooldowns respected, but never those of a replaced session; nobody is told
  of the failure of an older session; nobody waits forever, also after `Close`;
* account lock: exclusion, no lost token, no leaked and no prematurely deleted
  table entry, every waiter served;
* accepted codes: no code is submitted that is known to be spent, none is
  remembered that was not accepted, none accepted is forgotten;
* `Login` cache: one login and one client per credential set; a canceled owner
  does not fail the others;
* handshake: the server is not asked again before the time it named, the
  deadline stored after a rate limit is no shorter than that, a rejected code
  is tried in a second window before it is called wrong, and every request and handshake is
  reported once;
* file store: after any crash the entry can be read, and what a save reported
  stays; the lock is given back; files left behind are accounted for;
* cookie jar: what is saved is what is sent, a saved record is no mixture of
  two responses, and restoring extends no lifetime;
* sharing: a generation number names one session in all processes, only dead
  sessions are invalidated, no login while a live session is stored, one
  process's 429 holds back all.

## 2. Modules

| Module | Models | Used by |
|---|---|---|
| `Refresher` | recovery inside one client | `MCRefresher`, `RefresherProofs` |
| `AccountMutex` | what logins need of an account lock (abstract) | `OTPAccountLock` |
| `OTPAccountLock` | `acquireOTPAccount`; implements `AccountMutex` | `OTPAccountLockProofs` |
| `LoginCache` | `LoginWithOptions` | `LoginCacheProofs` |
| `OTPLogin` | handshakes of several clients with one secret | `MCOTPLogin`, `OTPLoginProofs` |
| `Handshake` | one login in detail: answers, classes of errors, waits, events | `MCHandshake`, `HandshakeProofs` |
| `SharedSession` | processes sharing a session through the store | `MCSharedSession`, `SharedSessionProofs` |
| `RetryMarker` | what `saveAccountRetry` promises of a deadline (abstract) | `FileStore` |
| `FileStore` | `Lock`, `Load`, `Save`, `Close` system call by system call; implements `RetryMarker` | `FileStoreProofs` |
| `TrackedJar` | `SetCookies`, saves, restarts and restores of cookies | `MCTrackedJar`, `TrackedJarProofs` |

The `MC...` modules only add symmetry sets and the small topology of the
instance; runs without one instantiate the module itself.

The components compose by contract. `Refresher` treats the account lock, the
store and the handshake as steps with all their outcomes; `OTPAccountLock` shows that the in-process
lock is the mutex that `OTPLogin` uses; `OTPLogin` and `Handshake` open up the
login that is one step of `Refresher`, the first for several clients and the
windows of their codes, the second for one client and what it makes of each
answer; `SharedSession` opens up the store that `Refresher` sees only as "a
newer record", "a failed save" and "a skipped note"; `FileStore` opens up the
lock and the save that `SharedSession` and `OTPLogin` take as one step, and
shows with the smallest of their records, the retry deadline, that load, merge
and save under the lock are an atomic update; `TrackedJar` opens up the cookies
that are a session in all the others.

### Refresher

One step is one critical section of `refresher.mu`, one exchange, or one
operation on the store. `req[r]` is a goroutine inside `RoundTrip`: `sent` (the
first attempt with the generation of the first snapshot), `waiting` (in
`refresh`, on a channel), `again` (`refresh` returned nil), `replayed` (the
second attempt, with the second snapshot), `noting`. `cycle[ch]` is the
goroutine that will close channel `ch`, with its local variables: `seen`, the
result `next`, `attempt` and the deadline `at` it sleeps to. Channels are
objects of a finite pool and are reused once nobody can observe them (`Free`).

| Action | Code |
|---|---|
| `Send`, `Answered`, `Replay` | `RoundTrip` 1014-1067, the two snapshots and attempts |
| `RefreshSkips/Joins/Refused/Starts` | `refresh` 670-719, its early returns in order |
| `RefreshRetries`, `RefreshFails` | the read of `lastErr` after `<-done`, 682-690 and 745-754 |
| `Begin`, `Adopts`, `CycleFails`, `SaveFails` | `recover` 756-799 |
| `HandshakeOK`, `HandshakeRateLimited`, `SleepReturns` | `login` 820-900 |
| `Publishes`, `RecordsFailure` | the goroutine's critical section, 730-743 |
| `NoteSkips`, `NoteReserves`, `NoteReturns` | `noteIneffective` 926-945 |
| `MarksIneffective`, `MarkSkipped` | `persistIneffective` 947-997 |
| `Cancel`, `Close`, `Tick` | the request's context, `close`, the clock |

`failed` and `promised` are history variables: the last recorded failure and
the server's last deadline. The time a note carries is read at some instant
between its reservation and its critical section, so it is an arbitrary value
of that interval.

### OTPAccountLock, AccountMutex

`locks`, `token`, `users` are the table and the two fields of a lock object;
`caller[c].pc` is where a caller is: `waiting` in the select, `taken` between
the receive and the second look at the context (line 112), `holding`, `leaving`
before the deferred decrement. The refinement maps `waiting` to a claim,
`taken`/`holding` to the held mutex and everything else to none.

### LoginCache

`sessionCache` and `sessionCacheCalls` are the two maps; `call[p]` is a pending
call with its channel (`done`), error and `ownerContextErr`; `caller[c].pc` runs
through the loop of `LoginWithOptions`. The login itself succeeds with a new
client or fails with the caller's cancellation, a timeout of an exchange
(which looks the same to `errors.Is`) or another error.

### OTPLogin

`memory[p]` and `disk` are the last accepted windows of a process and of the
store; `mutex[p]` and `flock` the in-process lock and the lock file;
`client[c].pc` is the position in `login`/`handshake`; `spent` is the server:
from whom it accepted the code of each window; `answered` is history. Actions
follow the code's order: `BeforeHandshake` (814-841), `PasswordOK`,
`SubmitOTP` (the code of the window it is now), then the outcomes of the
exchange (`OTPAccepted`, `OTPUnreadable`, `OTPRejected`, `ExchangeFails`,
`ExchangeLimited`; whenever the client learns nothing the server may or may not
have spent the code), `PersistStep`, impersonation, `Returns` (the deferred
release). `StorageFails` may leave the window written: a `Save` that fails in
the sync of the directory has replaced the file (`session_store.go` 306-309). `Faults` selects what may go wrong, `MaxDisturbances` how often;
`disturbed` counts it, so that properties can say what holds until the first
fault and how much each fault may cost.

### Handshake

`pc` is the position in `login` and `handshake`, `attempt` and `second` their
loop and the second `verify()`, `err` the error of the last handshake with its
class and its wait (`classifyAuthError`), `notBefore` and `failedAt` what
`recover` and `refresh` see afterwards. An answer is a record: transport error or
status, `Retry-After` as the duration `parseRetryAfter` returns, and which of
the wordings `errors.go` looks for it has (`AnswerTypes`). `authRetryAfter`, `isRateLimited`, `KindOf` and
`backoff` are operators over it; the jitter of `backoff` is any of its values.
`asked` is history: the earliest time the server agreed to be asked again.
`codes` are the windows whose code was rejected, `owed` counts what has been
asked of the server and not yet been reported.

| Action | Code |
|---|---|
| `Prepare`, `PrepareFails` | `login` 819-856, `handshake` 232-243 |
| `Password`, `VerifyOK`, `VerifyRefused`, `AcceptFails`, `SecretUnusable`, `Impersonate` | `handshake` 244-313, `doJSON` 369-413 |
| `NextWindow`, `WindowCanceled` | `waitForNextWindow` and its error, 263-278 |
| `Succeed`, `GiveUp`, `LastAttempt`, `Retry` | what `login` makes of the outcome, 857-891 |
| `SleepEnds`, `SleepFails`, `WakesEarly` | the sleep and the second look at the clock, 892-899 |
| `RefreshAllowed`, `Login`, `Refused` | the next `refresh`, 692-713 |

### FileStore, RetryMarker

The file of one key with everything a process does to it: `user[u].pc` is a
call of `saveAccountRetry` (65-77), from the lock (`holder`) over the load to
each system call of `Save`. `entry` is the file the processes see under its
name, `onDisk` the files that name may refer to after the machine stops: a file
that was not synced may be without its content (`Corrupt`), a rename whose
directory was not synced may be undone. `left` counts the temporary files that
nobody will remove. Each call may fail where the code returns an error, a user
may crash anywhere, and `PowerFailure` stops everything. `RetryMarker` is one
deadline that only rises, and the latest one that was reported as saved; a
power failure may forget what was not reported. The refinement maps the
deadline to the content of the entry and has `reported` in common.

### TrackedJar

A cookie is the number of the response that set it and its expiry. `tracked`
and `jar` are the map and the wrapped jar, `stored` the saved record; a
response (`answer[g]`) changes the map in `Track`, the critical section of
`SetCookies`, and the jar in `Install`, after it. What one answer does to one
key is `TrackedAfter` (all removals, then all cookies) and `JarAfter` (line by
line). `Save`, `Restart` and `Restore` are the life of a session across
processes; `Restore` fills a jar that has just been made, as `restoreRecord`
does (499-506). `mixed` is history, per cookie: of the responses the map has seen,
the last one about the cookie is one the halves take differently (`Diverges`), or
since the map saw it a response about the cookie overtook another on the way to
the jar (`Overtakes`).

### SharedSession

`entry` is the `SessionRecord` (generation, session, kind of cookies,
`RetryNotBefore`), `marker` the account's retry record, `flock` the lock file;
`client[p]` is one client per process with its generation, session and the work
in progress; `alive` is the server's view. `initialize` (573-640), `recover`
(756-799), `login` as far as the store can see it, `saveRecord`,
`saveRateLimit` and `persistIneffective` are modelled with every early return
that their callers tell apart. `SaveFails` may leave the new entry in place:
the directory is synced after the rename (`session_store.go` 306-309).

## 3. Runs

Passing runs:

| Run | Instance | Shows |
|---|---|---|
| `refresher_memory` | 2 requests, 2 channels, no store, delays 1 and 3, 2 attempts, 3 sessions, clock 5 | `FlightOwnsGeneration`, `CooldownIsPerGeneration`, which a late note about a replaced session would break, and `ReplayOnFreshSession`, `FailureIsOwnOrLater`, `CooldownHolds`, which need a client without a store (with one, the first is violated, see section 4, and a note that cannot be saved leaves an error without a failure of the session) |
| `refresher_stored` | the same with a store, 2 sessions, clock 3, fair | `SingleFlight`, `RetryWaitsForDeadline`; liveness `RequestReturns` |
| `otp_account_lock` | 3 callers, 1 account, 2 lock objects, fair | tokens, table, refinement of `AccountMutex`, `WaiterServed` |
| `login_cache` | 3 callers, 1 credential set, 2 calls, 2 clients, fair | one login, one client, `NotPoisoned`, `LoginReturns` |
| `otp_login` | 2 processes; two stored clients in different processes and an unstored one beside the first; 3 windows; canceled waits and one other fault of any kind; fair | `NoKnownReplay`, `StepsAreSpent`, `AcceptedStepRemembered` whatever fails; `NoSpentStepSubmitted` until something does; `AcceptedStepPersisted`: a fault costs the store at most one window; liveness `AccountFreed` |
| `handshake` | 2 logins of 4 attempts, every class of answer at every request | `HintReachesDeadline`, `RejectedOTPIsFresh`, `EventsTellRequests`, `WaitsAsAsked` |
| `shared_session` | 3 processes, 3 sessions, clock 3, storage faults and crashes | generations, adoption, invalidation, deadlines across processes |
| `file_store` | 3 users, 2 deadlines, failing calls, crashes, power failures, fair | `EntryReadable`, `TemporariesBounded`, refinement of `RetryMarker`, liveness `LockGivenBack` |
| `tracked_jar` | 2 cookies, 2 parallel responses, 2 responses in all, restarts, clock 3 | types; `LifetimeKept`, `SnapshotWhole`, `SavedIsSent` |

Every safety property of these runs, invariant or action property, and both
refinements are also proved for all values of the constants (section 5). The
type invariants that a run does not list are proved only.

Why the bounds are enough. Two requests are what the races of `refresh` need
(one inside a cycle or a note, one that joins, waits late or comes with an old
generation); a third would be a second waiter on the same channel. Two
channels allow a late waiter of a closed channel beside an open one. Three
sessions are needed for a late note: its replay went out on the second, and
the third replaced that one. A cooldown of 2 with delays
of 1 and 3 covers a deadline of the server shorter and longer than the
cooldown; two attempts are a retry and a last attempt. Three callers of the
account lock are an owner, a waiter and one that comes when the entry is about
to go; accounts do not interact, so one is enough, and two lock objects let an entry be made
again while its predecessor is still referenced. Three windows are the one that
was spent, the one waited for, and one more for the second code of a handshake.
Three processes are one that wins a session, one that loses it and one that is
late; three sessions let a generation be lost and replaced twice. One fault in
`otp_login` beside any number of canceled waits is enough for every property
that speaks of what a single failure may cost; its proofs have no such bound.
`Handshake` has the four attempts of `newRefresher`; delays are small numbers
under a small cap, so that the doubling reaches the cap at the third attempt
and waits of the server fall on both sides of it; two logins are one that
leaves a deadline and one that meets it. In `file_store` two deadlines are an
earlier and a later one in either order, and three users are one that saves,
one that polls and one that comes after a crash. In `tracked_jar` two responses
are what meets between the two halves of `SetCookies`, about one cookie or about
two, in either order; the clock outlives the local bound of 2 by one. That a
third response ends what an overtaking of two began is proved, not run.

The bounded counters are `MaxGeneration`, `MaxClock`, `MaxStep`, `MaxSession`,
`MaxDisturbances`, `MaxFailures`, `MaxLogins` and `MaxSerial`: a behaviour that reaches one stops growing in that direction.
At the end of time no sleep returns; the liveness properties rely then on the
steps by which a wait ends early, `CycleFails` (the limit `recoveryCtx` sets on a
cycle) and `LoginCanceled` (the context of a login).
Only `handshake` is run without deadlock checking: after the last of its
`MaxLogins` logins nothing is left to do.

Fairness. Weak fairness of a goroutine's own steps: Go runs runnable
goroutines, every exchange has a timeout (`authenticator.timeout`), a cycle
is bounded by `recoveryCtx` (721-729) and a note by its own context (967).
Strong fairness of receiving from a semaphore: a Go channel serves blocked
receivers in order. Nothing is assumed of the environment: nobody must send,
cancel, close, tick or crash. The lock file is polled (`lockPollInterval`), so
no fairness is assumed for it and no property promises it; `AccountFreed` speaks
of those that hold a lock, not of those that wait for one.
`LoginReturns` is stated under the condition that callers stop canceling
eventually: each cancellation of an owner sends the waiters round the loop
again.

## 4. Disagreements the runs show

Each `violation` run ends in a behaviour of the code that contradicts a
sentence of its documentation:

* `refresher_deadline` (`session.go:956`): a note that arrives late assigns
  `notBefore = now + cooldown` and thereby shortens a longer deadline the server gave a
  cycle in between; the next refresh logs in before that deadline.
* `refresher_replay` (`session.go:986`): a note that finds another generation
  in the store ends with `lastErr = nil`; refreshes that joined its channel
  take this for a recovery and replay on the session they just lost.
* `otp_login_unreadable` (`session.go:390`): a 2xx answer to a code whose body
  cannot be read is an error before the status is looked at; the spent window
  is not remembered.

Two more that no sentence of the documentation contradicts: `lastErr` is read
after the channel was closed and the mutex released (`session.go:747`), so a
waiter can report the failure of a later session although its own recovery
succeeded (`FailureIsOwnOrLater` says how far this goes: never that of an older
session, and after a success only that of a later one); and
the accepted window is written with the context of the login
(`session.go:847`), so a login canceled at that moment leaves the store without
it, which `AcceptedStepPersisted` counts as a fault.

## 5. Proofs

The theorems of the eight `...Proofs` modules hold for all values of the
constants: every set of requests, channels, callers, accounts, lock objects,
credential sets, clients, processes, users, cookies and answers, every
cooldown, lifetime, set of delays, number of attempts, set of faults and bound.
They assume only the named assumptions of the modules (null values are not
elements, counts are naturals, some sets are finite), which the runs evaluate.

`Refresher`. None of the properties is inductive alone. The invariant is
`IInv == TypeOK /\ FlightInv /\ RequestInv /\ WaiterInv /\ FailureInv`:

* `FlightInv`: exactly the channel in `inFlight` is open (`SingleFlight`), what
  runs behind it was started for the current generation, a sleeping cycle knows
  the last deadline of the server and has an attempt left, and a result not yet
  published is newer than it;
* `RequestInv`: a request waits on a real channel and never saw a generation
  that does not exist yet;
* `WaiterInv` (without a store): somebody waits on a channel that was closed
  only if `lastErr` is still an error or the generation moved on, and on one
  whose cycle succeeded only if it moved on. This is what
  makes the late read of `lastErr` harmless for the replay: `lastErr` turns nil
  only in the step that replaces the generation;
* `FailureInv`: whatever makes `refresh` refuse (`lastErr` with its instant, or
  `notBefore`) was recorded against the current generation; without a store so
  was every `lastErr`, whenever it is read.

From it follow `TypeOK`, `SingleFlight`, `FlightOwnsGeneration`,
`CooldownIsPerGeneration`, for `Stored = FALSE` the replay property and
`FailureIsOwnOrLater`, and, with one more look at the actions that start a cycle
or a handshake, the action properties `CooldownHolds` (`Stored = FALSE`) and
`RetryWaitsForDeadline`. The restriction to `Stored = FALSE` is not one of the
proof: with a store the replay property is false (section 4).

`OTPAccountLock`. `IInv == TypeOK /\ CountInv /\ TableInv /\ TokenInv`: `users`
is the number of callers that refer to the lock (here the library's theorems on
cardinalities are needed), a caller's lock is the one the table has, no two
accounts share one, and the token is in one place. Exclusion and
the refinement follow: a `TakeToken` is a `Grant` because nobody with the same
account can have the token of another lock.

`LoginCache`. `IInv == TypeOK /\ LocalInv /\ OneLoginPerKey /\ OneClientPerKey /\
CancelInv`: results and errors exist only from the end of a login on
(`LocalInv`), and a call that reports a cancellation says that its owner was
canceled (`CancelInv`), so a waiter never takes that error for its own. One
login per key holds because the owner's call stays in the table until it
publishes; that in turn keeps a cached client from being replaced.
`OwnEffect` sums up the steps that touch only the caller itself.

`OTPLogin`. `IInv == Types /\ LockInv /\ FreshInv /\ SpentInv /\ RememberInv`.
`NoKnownReplay` speaks of the moment a code is at the server; what makes it
true is older: `LockInv` says that who is in `login` has the mutex of its
process and, with a store, the lock file, so nobody else can raise what they
remember; `FreshInv` says that the window that was checked is still later than
all of that, in every wait and exchange since. `Exclusion` is the step from the
first to the second. `SpentInv` and `RememberInv` give the truth of what is
remembered. For `NoSpentStepSubmitted` a second invariant, `KnownInv`, says
that until the first fault all that was accepted from a client is known to its
process, and to the store except while the client is about to write it; such a
client has the lock file, so nobody who shares the store submits.

`Handshake`. The invariant relates the deadline, the error and the debt of
events to the position in the code: `DeadlineInv` (what `login` leaves behind
reaches what the server asked), `OwedInv` (what is not yet reported at each
position) and that the second code comes from a later window. `WaitsAsAsked` is
an action property; its proof goes through the actions that send a password.

`FileStore`. The invariant says who has the lock, that temporary files belong
to the holder or to an earlier failure, and that whatever name or content a
power failure can bring back is whole. The refinement has one step per system
call: the rename is `Raise`, the sync of the directory `Report`, all others
stutter.

`SharedSession`. What makes it true that a generation names a session is that
numbers are given out only under the lock file, and beyond the one in the
store. The invariant is `IInv == TypeOK /\ LockInv /\ NameInv /\ FiledInv /\
LostInv /\ PromiseInv /\ LoginOnlyWithoutSession`:

* `LockInv`: who is between login and save has the lock file, and works for a
  generation later than the stored one;
* `NameInv`, `FiledInv`: what any client holds, or is about to publish, has a
  generation the store has reached, and two that hold one generation, or one
  that holds it and the store that has its cookies, mean the same session;
* `LostInv`: a client recovers, or notes a session as ineffective, only after
  the server forgot it. With `NameInv` this gives `InvalidatesOnlyDeadSessions`:
  the generation `persistIneffective` compares is the name of that session;
* `PromiseInv`: the server's last deadline has passed, is in the marker, or is
  kept by the process that was told of it, and that process has the lock file.
  `NoLoginBeforeSharedDeadline` follows, since whoever starts a login has the
  lock file and has read the marker.

`LoginOnlyWithoutSession` needs the rest: the store gets a session only from
the holder of the lock file, and then that one no longer logs in.

`OTPLogin`, once more: `AcceptedStepPersisted` counts the windows the store
misses. `PersistInv` bounds those that nobody is about to write (`Unwritten`)
by the number of faults; it is inductive because a step without a fault adds no
such window (`QuietPersist`), and a fault adds at most one, that of the client
it hits (`DisturbedPersist`, with the library's theorems on cardinalities).

`TrackedJar`. `IInv == Types /\ LimitInv /\ MapInv /\ SnapshotWhole /\ JarInv`:

* `LimitInv`: whatever the map or a record has of a cookie, and what the jar
  has of one from an earlier process, ends by the limit of the response that
  set it; the history of responses only grows (`KeptWithin`);
* `MapInv`: the map has nothing older than a response of this process that
  spoke of the same cookie. It is what `PersistentCookies` copies, hence
  `SnapshotWhole`, which needs it;
* `JarInv`: for a cookie that is not in `mixed`, the map agrees with what the
  jar will have once the newest response about it that is under way is installed
  (`Newest`, `Installed`); without one, with the jar itself. An older response
  that is installed before disturbs nothing, because the newest overwrites
  whatever it finds (`Overwrites`).

The lemmas about answers carry it: `MapAfterResponse` (the map takes the last
valid line, deletes, or keeps the cookie because no line speaks of it),
`Silent` and `TakenAlike` (a response with a line for the cookie, no oversized
age and no deletion after a cookie brings the map and the jar into agreement,
whatever they had).

Only model-checked: the liveness properties `RequestReturns`, `WaiterServed`,
`LoginReturns`, `AccountFreed` and `LockGivenBack`, because the prover has
neither fairness nor ENABLED; and, of course, the three violations of section 4.

## 6. What is not modelled, and abstractions

* Data: cookies, bodies, events, error texts, passwords. A session is a number, a code is its window, an
  error is nil or not, or the class its reader tells apart.
* Delays are members of a set in `Refresher`; `Handshake` has backoff, cap and
  jitter. The parsing of `Retry-After` (`parseRetryAfter`) is its result, a
  duration or none.
* `Handshake` leaves out the stage `session_recovery`: its errors end a request,
  not a login. The events of recovery, cooldown and rate limits, and what events
  contain, are left out too.
* `Handshake` leaves out the late note, which may overwrite `notBefore` between
  two logins (`session.go:956`, the run `refresher_deadline`): across logins,
  `WaitsAsAsked` says what holds while no such note comes.
* That no login starts after `Close` is no property here: the contexts derived
  from `lifetime`, which `recover` and `login` check before each wait and
  exchange, are the guards `~closed` of `Begin`, `Adopts` and `SleepReturns`.
* `Refresher` starts with generation 1 and no deadline, as after `New`; with a
  store the numbers may be larger, but only their order matters.
* `SharedSession` has one client per process, one account, one target and one
  set of credentials. It ignores the client's own `notBefore` and cooldown and
  the number of attempts, which only remove behaviours. Records that disappear
  or belong to other credentials let generation numbers start over
  (`session.go:628`); that is a listed hazard without a property.
* `Save` and `Load` are atomic in `SharedSession` and `OTPLogin`; `FileStore`
  has their protocol. The checks of paths, owners and permissions are one
  failure there, and the content of a record is a deadline. `LockEntry` has no
  caller.
* A key of `TrackedJar` stands for name, domain and path; the matching of
  cookies to URLs, the limit on their number and their size, and the wrapped
  jar (`net/http/cookiejar`, external) beyond what one answer does to one key
  are left out.
* The HMAC of TOTP, the migration from legacy retry keys, `do()` and the verbs
  of the JSON client, the options of `auth.go` and `doc.go` keep no state that
  another step reads.

## 7. Plan

Done: `Refresher`; `AccountMutex` and `OTPAccountLock`; `LoginCache`;
`OTPLogin`; `Handshake`; `RetryMarker` and `FileStore`; `SharedSession`;
`TrackedJar`, all checked, and every safety property of them proved.

Next, in order:

1. `SharedSession` with a second set of credentials, for the generation that
   starts over, and what is left of `GenerationNamesSession` then.
2. The merge of legacy retry keys, as several entries with one maximum.
3. An abstract session store, which `SharedSession` implements, as
   `FileStore` implements `RetryMarker`.

Each new module replaces or joins runs so that a run still answers one
question.
