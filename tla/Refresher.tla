------------------------------ MODULE Refresher ------------------------------
(***************************************************************************)
(* Session recovery inside one Client (session.go: refresher,              *)
(* refreshTransport).                                                      *)
(*                                                                         *)
(* API requests run in their own goroutines.  A request that meets session *)
(* loss joins, starts or is refused a recovery cycle; the cycle runs in a  *)
(* goroutine of the client, logs in with retries that honour the server's  *)
(* Retry-After, and publishes a new session generation.  A replay that is  *)
(* lost again reserves the same slot (inFlight) to record that the         *)
(* generation is ineffective.  One atomic step is one critical section of  *)
(* refresher.mu, or one exchange with the server or the session store.     *)
(***************************************************************************)
EXTENDS Integers, FiniteSets

CONSTANTS
    Requests,       \* goroutines inside refreshTransport.RoundTrip
    Channels,       \* the "done" channels; one is reused once nobody holds it
    NoChannel,      \* the nil channel
    Stored,         \* TRUE: the client shares its session through a store
    Cooldown,       \* refresher.cooldown, in clock units
    Delays,         \* what Retry-After or backoff may ask for
    MaxAttempts,    \* refresher.maxAttempts
    MaxGeneration,  \* bound: sessions published in a behaviour
    MaxClock        \* bound: how far the clock runs

ASSUME RefresherAssumption ==
    /\ NoChannel \notin Channels
    /\ Stored \in BOOLEAN
    /\ Cooldown \in Nat \ {0}
    /\ Delays \subseteq Nat \ {0}
    /\ MaxAttempts \in Nat \ {0}
    /\ MaxGeneration \in Nat
    /\ MaxClock \in Nat

VARIABLES
    now,            \* auth.now(); 0 is the zero time.Time
    generation,     \* refresher.generation
    inFlight,       \* refresher.inFlight
    lastErr,        \* refresher.lastErr: "nil" or "err"
    lastFailureAt,  \* refresher.lastFailureAt
    notBefore,      \* refresher.notBefore
    closed,         \* refresher.lifetime is canceled
    cycle,          \* the goroutine that will close each channel
    req,            \* each request: where it is, the generation it saw
    failed,         \* history: the last failure recorded, and against what
    promised        \* history: the deadline the server last asked for

vars == <<now, generation, inFlight, lastErr, lastFailureAt, notBefore,
          closed, cycle, req, failed, promised>>

----------------------------------------------------------------------------
(* A channel is closed when its goroutine ended; "done" and "failed" keep  *)
(* the goroutine's own result.  While it is open the goroutine is          *)
(*   begin     waiting for the account locks, reading the store,           *)
(*   handshake in a login exchange,   sleep  between two of them,          *)
(*   ok / err  holding the result of recover(), not yet published,         *)
(*   persist   in persistIneffective.                                      *)
Ended == {"done", "failed"}
Steps == Ended \cup {"begin", "handshake", "sleep", "ok", "err", "persist"}

Open(ch) == cycle[ch].step \notin Ended

(* A channel nobody can still observe. *)
Free(ch) == ~Open(ch) /\ \A r \in Requests : req[r].on # ch

NewCycle(step, seen, at) ==
    [step |-> step, seen |-> seen, next |-> 0, attempt |-> 0, at |-> at]

ToStep(ch, step) == cycle' = [cycle EXCEPT ![ch].step = step]

Init ==
    /\ now = 1 /\ generation = 1
    /\ inFlight = NoChannel
    /\ lastErr = "nil" /\ lastFailureAt = 0 /\ notBefore = 0
    /\ closed = FALSE
    /\ cycle = [ch \in Channels |-> NewCycle("done", 0, 0)]
    /\ req = [r \in Requests |-> [pc |-> "idle", seen |-> 0, on |-> NoChannel]]
    /\ failed = [gen |-> 0, at |-> 0]
    /\ promised = 0

----------------------------------------------------------------------------
(* Requests. *)

Goes(r, pc, seen, on) ==
    req' = [req EXCEPT ![r] = [pc |-> pc, seen |-> seen, on |-> on]]

Returns(r) == Goes(r, "idle", 0, NoChannel)

refresherState ==
    <<generation, inFlight, lastErr, lastFailureAt, notBefore, cycle>>

(* RoundTrip: snapshot the session, send the first attempt. *)
Send(r) ==
    /\ req[r].pc = "idle"
    /\ Goes(r, "sent", generation, NoChannel)
    /\ UNCHANGED <<refresherState, now, closed, failed, promised>>

(* An attempt or a replay returned something other than session loss, or
   the request's context ended first. *)
Answered(r) ==
    /\ req[r].pc \in {"sent", "replayed"}
    /\ Returns(r)
    /\ UNCHANGED <<refresherState, now, closed, failed, promised>>

(* The remaining disjuncts for a "sent" request: session loss, refresh(). *)
RefreshSkips(r) ==
    /\ req[r].pc = "sent"
    /\ generation # req[r].seen
    /\ Goes(r, "again", req[r].seen, NoChannel)
    /\ UNCHANGED <<refresherState, now, closed, failed, promised>>

RefreshJoins(r) ==
    /\ req[r].pc = "sent"
    /\ generation = req[r].seen
    /\ inFlight # NoChannel
    /\ Goes(r, "waiting", req[r].seen, inFlight)
    /\ UNCHANGED <<refresherState, now, closed, failed, promised>>

DeadlinePending == now < notBefore

(* Faulty: off by one. *)
CoolingDown_shorter ==
    lastErr = "err" /\ lastFailureAt # 0 /\ now - lastFailureAt < Cooldown - 1

CoolingDown ==
    lastErr = "err" /\ lastFailureAt # 0 /\ now - lastFailureAt < Cooldown

(* Faulty: does not look for a recovery under way. *)
MayRecover_ignoresFlight(r) ==
    req[r].pc = "sent" /\ generation = req[r].seen

(* Faulty: does not compare the generation. *)
MayRecover_anyGeneration(r) == req[r].pc = "sent" /\ inFlight = NoChannel

MayRecover(r) ==
    req[r].pc = "sent" /\ generation = req[r].seen /\ inFlight = NoChannel

RefreshRefused(r) ==
    /\ MayRecover(r)
    /\ DeadlinePending \/ CoolingDown
    /\ Returns(r)
    /\ UNCHANGED <<refresherState, now, closed, failed, promised>>

RefreshStarts(r, ch) ==
    /\ MayRecover(r)
    /\ ~DeadlinePending /\ ~CoolingDown
    /\ Free(ch)
    /\ inFlight' = ch
    /\ cycle' = [cycle EXCEPT ![ch] = NewCycle("begin", req[r].seen, 0)]
    /\ Goes(r, "waiting", req[r].seen, ch)
    /\ UNCHANGED <<now, generation, lastErr, lastFailureAt, notBefore, closed,
                   failed, promised>>

(* Faulty: the channel is closed before the result is published. *)
WaiterWakes_early(r) ==
    /\ req[r].pc = "waiting"
    /\ cycle[req[r].on].step \in Ended \cup {"ok"}

(* <-done: the waiter reads lastErr in a critical section of its own, some
   time after the channel was closed. *)
WaiterWakes(r) ==
    /\ req[r].pc = "waiting"
    /\ ~Open(req[r].on)

RefreshRetries(r) ==
    /\ WaiterWakes(r)
    /\ lastErr = "nil"
    /\ Goes(r, "again", req[r].seen, NoChannel)
    /\ UNCHANGED <<refresherState, now, closed, failed, promised>>

RefreshFails(r) ==
    /\ WaiterWakes(r)
    /\ lastErr = "err"
    /\ Returns(r)
    /\ UNCHANGED <<refresherState, now, closed, failed, promised>>

(* RoundTrip: second snapshot, the single replay of the buffered request. *)
Replay(r) ==
    /\ req[r].pc = "again"
    /\ Goes(r, "replayed", generation, NoChannel)
    /\ UNCHANGED <<refresherState, now, closed, failed, promised>>

(* Faulty: does not compare the generation. *)
NoteIsStale_flightOnly(r) == inFlight # NoChannel

(* The replay met session loss again: noteIneffective. *)
NoteIsStale(r) == generation # req[r].seen \/ inFlight # NoChannel

NoteSkips(r) ==
    /\ req[r].pc = "replayed"
    /\ NoteIsStale(r)
    /\ Returns(r)
    /\ UNCHANGED <<refresherState, now, closed, failed, promised>>

NoteReserves(r, ch) ==
    /\ req[r].pc = "replayed"
    /\ ~NoteIsStale(r)
    /\ Free(ch)
    /\ inFlight' = ch
    /\ cycle' = [cycle EXCEPT ![ch] = NewCycle("persist", req[r].seen, now)]
    /\ Goes(r, "noting", req[r].seen, ch)
    /\ UNCHANGED <<now, generation, lastErr, lastFailureAt, notBefore, closed,
                   failed, promised>>

NoteReturns(r) ==
    /\ req[r].pc = "noting"
    /\ ~Open(req[r].on)
    /\ Returns(r)
    /\ UNCHANGED <<refresherState, now, closed, failed, promised>>

(* The request's own context ends; the shared goroutine goes on. *)
Cancel(r) ==
    /\ req[r].pc \in {"waiting", "noting"}
    /\ Returns(r)
    /\ UNCHANGED <<refresherState, now, closed, failed, promised>>

----------------------------------------------------------------------------
(* The goroutine of a recovery cycle: recover() and login().               *)

(* Nothing published another session meanwhile: log in. *)
Begin(ch) ==
    /\ cycle[ch].step = "begin"
    /\ ~closed
    /\ ToStep(ch, "handshake")
    /\ UNCHANGED <<now, generation, inFlight, lastErr, lastFailureAt, notBefore,
                   closed, req, failed, promised>>

Got(ch, next) ==
    cycle' = [cycle EXCEPT ![ch].step = "ok", ![ch].next = next]

(* The store holds a record newer than the generation seen. *)
Adopts(ch, next) ==
    /\ Stored
    /\ cycle[ch].step = "begin"
    /\ ~closed
    /\ next \in cycle[ch].seen + 1 .. MaxGeneration
    /\ Got(ch, next)
    /\ UNCHANGED <<now, generation, inFlight, lastErr, lastFailureAt, notBefore,
                   closed, req, failed, promised>>

(* A login succeeded.  In memory the next generation is seen + 1; with a
   store it also exceeds the generation of the record that was read. *)
HandshakeOK(ch, next) ==
    /\ cycle[ch].step = "handshake"
    /\ next \in cycle[ch].seen + 1 .. MaxGeneration
    /\ Stored \/ next = cycle[ch].seen + 1
    /\ notBefore' = 0
    /\ promised' = 0
    /\ Got(ch, next)
    /\ UNCHANGED <<now, generation, inFlight, lastErr, lastFailureAt, closed,
                   req, failed>>

(* Faulty: a sleep that is cut short does not end the cycle. *)
CycleFails_onlyOpen(ch) ==
    /\ cycle[ch].step \in {"begin", "handshake"}
    /\ ToStep(ch, "err")
    /\ UNCHANGED <<now, generation, inFlight, lastErr, lastFailureAt, notBefore,
                   closed, req, failed, promised>>

(* Everything that ends a cycle without a session and leaves notBefore
   alone: an account lock or a store read that fails, a retry deadline found
   in the store, rejected credentials, the cycle's own time limit, Close. *)
CycleFails(ch) ==
    /\ cycle[ch].step \in {"begin", "handshake", "sleep"}
    /\ ToStep(ch, "err")
    /\ UNCHANGED <<now, generation, inFlight, lastErr, lastFailureAt, notBefore,
                   closed, req, failed, promised>>

(* Faulty: off by one. *)
LastAttempt_offByOne(ch) == cycle[ch].attempt = MaxAttempts

LastAttempt(ch) == cycle[ch].attempt = MaxAttempts - 1

(* The server asked for d: remember the deadline, then sleep or give up. *)
HandshakeRateLimited(ch, d) ==
    /\ cycle[ch].step = "handshake"
    /\ notBefore' = now + d
    /\ promised' = now + d
    /\ \/ LastAttempt(ch) /\ ToStep(ch, "err")
       \/ /\ ~LastAttempt(ch)
          /\ cycle' = [cycle EXCEPT ![ch].step = "sleep", ![ch].at = now + d]
    /\ UNCHANGED <<now, generation, inFlight, lastErr, lastFailureAt, closed,
                   req, failed>>

(* Faulty: off by one. *)
SleptEnough_early(ch) == now + 1 >= cycle[ch].at

SleptEnough(ch) == now >= cycle[ch].at

(* The sleep returned; the next attempt starts only past the deadline. *)
SleepReturns(ch) ==
    /\ cycle[ch].step = "sleep"
    /\ ~closed /\ SleptEnough(ch)
    /\ cycle' = [cycle EXCEPT ![ch].step = "handshake",
                              ![ch].attempt = @ + 1, ![ch].at = 0]
    /\ UNCHANGED <<now, generation, inFlight, lastErr, lastFailureAt, notBefore,
                   closed, req, failed, promised>>

(* The session could not be published in the store. *)
SaveFails(ch) ==
    /\ Stored
    /\ cycle[ch].step = "ok"
    /\ ToStep(ch, "err")
    /\ UNCHANGED <<now, generation, inFlight, lastErr, lastFailureAt, notBefore,
                   closed, req, failed, promised>>

Ends(ch, how) == cycle' = [cycle EXCEPT ![ch] = NewCycle(how, @.seen, 0)]

(* refresh(): the critical section that publishes the cycle's result. *)
Publishes(ch) ==
    /\ cycle[ch].step = "ok"
    /\ lastErr' = "nil"
    /\ generation' = cycle[ch].next
    /\ lastFailureAt' = 0
    /\ notBefore' = 0
    /\ inFlight' = NoChannel
    /\ Ends(ch, "done")
    /\ UNCHANGED <<now, closed, req, failed, promised>>

RecordsFailure(ch) ==
    /\ cycle[ch].step = "err"
    /\ lastErr' = "err"
    /\ lastFailureAt' = now
    /\ failed' = [gen |-> cycle[ch].seen, at |-> now]
    /\ inFlight' = NoChannel
    /\ Ends(ch, "failed")
    /\ UNCHANGED <<now, generation, notBefore, closed, req, promised>>

(* persistIneffective, applyCooldown: the instant was read when the
   goroutine started, between the reservation and this critical section. *)
MarksIneffective(ch, stamp) ==
    /\ cycle[ch].step = "persist"
    /\ stamp \in cycle[ch].at .. now
    /\ lastErr' = "err"
    /\ lastFailureAt' = stamp
    /\ notBefore' = stamp + Cooldown
    /\ failed' = [gen |-> cycle[ch].seen, at |-> stamp]
    /\ inFlight' = NoChannel
    /\ Ends(ch, "failed")
    /\ UNCHANGED <<now, generation, closed, req, promised>>

(* persistIneffective, ~applyCooldown: another process already published a
   different generation (result nil) or the store failed (result err). *)
MarkSkipped(ch, result) ==
    /\ Stored
    /\ cycle[ch].step = "persist"
    /\ lastErr' = result
    /\ inFlight' = NoChannel
    /\ Ends(ch, IF result = "nil" THEN "done" ELSE "failed")
    /\ UNCHANGED <<now, generation, lastFailureAt, notBefore, closed, req,
                   failed, promised>>

----------------------------------------------------------------------------
(* The environment. *)

Tick ==
    /\ now < MaxClock
    /\ now' = now + 1
    /\ UNCHANGED <<refresherState, closed, req, failed, promised>>

Close ==
    /\ ~closed
    /\ closed' = TRUE
    /\ UNCHANGED <<refresherState, now, req, failed, promised>>

RequestSteps(r) ==
    \/ Answered(r) \/ RefreshSkips(r) \/ RefreshJoins(r) \/ RefreshRefused(r)
    \/ \E ch \in Channels : RefreshStarts(r, ch) \/ NoteReserves(r, ch)
    \/ RefreshRetries(r) \/ RefreshFails(r)
    \/ Replay(r) \/ NoteSkips(r) \/ NoteReturns(r)

CycleSteps(ch) ==
    \/ Begin(ch) \/ CycleFails(ch) \/ SleepReturns(ch) \/ SaveFails(ch)
    \/ \E next \in 1 .. MaxGeneration : Adopts(ch, next) \/ HandshakeOK(ch, next)
    \/ \E d \in Delays : HandshakeRateLimited(ch, d)
    \/ Publishes(ch) \/ RecordsFailure(ch)
    \/ \E stamp \in 0 .. now : MarksIneffective(ch, stamp)
    \/ \E result \in {"nil", "err"} : MarkSkipped(ch, result)

Next ==
    \/ \E r \in Requests : Send(r) \/ RequestSteps(r) \/ Cancel(r)
    \/ \E ch \in Channels : CycleSteps(ch)
    \/ Tick \/ Close

Spec == Init /\ [][Next]_vars

(* A goroutine keeps running, every exchange is bounded by a timeout and every
   cycle by recoveryCtx; nobody has to send, cancel, close or wait. *)
FairSpec ==
    /\ Spec
    /\ \A r \in Requests : WF_vars(RequestSteps(r))
    /\ \A ch \in Channels : WF_vars(CycleSteps(ch))

----------------------------------------------------------------------------
(* Types. *)

Times == Nat

Cycles == [step : Steps, seen : Nat, next : Nat,
           attempt : 0 .. MaxAttempts - 1, at : Times]

TypeOK ==
    /\ now \in Times
    /\ generation \in Nat
    /\ inFlight \in Channels \cup {NoChannel}
    /\ lastErr \in {"nil", "err"}
    /\ lastFailureAt \in Times
    /\ notBefore \in Times
    /\ closed \in BOOLEAN
    /\ cycle \in [Channels -> Cycles]
    /\ req \in [Requests -> [pc : {"idle", "sent", "waiting", "again",
                                   "replayed", "noting"},
                             seen : Nat,
                             on : Channels \cup {NoChannel}]]
    /\ failed \in [gen : Nat, at : Times]
    /\ promised \in Times

(* Safety. *)

(* A channel is open exactly while it is the one in inFlight: there is never
   a second recovery, and no waiter is left on a channel nobody will close. *)
SingleFlight == \A ch \in Channels : Open(ch) <=> inFlight = ch

(* While a cycle or a note runs, the generation it was started for is still
   the current one: neither can publish over, or cool down, a newer session. *)
FlightOwnsGeneration ==
    inFlight # NoChannel => cycle[inFlight].seen = generation

(* refresh() returns nil only when the session the request lost has been
   replaced; otherwise the one replay is spent on the dead session. *)
ReplayOnFreshSession ==
    \A r \in Requests : req[r].pc = "again" => generation > req[r].seen

(* A waiter reads lastErr some time after its channel was closed, when other
   goroutines may have written it.  The failure it is told is never one of a
   session older than the one it lost, and when the recovery it waited for
   succeeded, only one of a session that came after that recovery.  Without a
   store, that is: with one, a note that cannot be saved leaves its own error. *)
FailureIsOwnOrLater ==
    \A r \in Requests :
        req[r].pc = "waiting" /\ ~Open(req[r].on) /\ lastErr = "err" =>
            /\ failed.gen >= req[r].seen
            /\ cycle[req[r].on].step = "done" => failed.gen > req[r].seen

(* "A newer generation always wins over the cooldown": refresh() refuses only
   when the last failure was recorded against the current generation. *)
CooldownIsPerGeneration ==
    inFlight = NoChannel /\ (DeadlinePending \/ CoolingDown)
        => failed.gen = generation

Starts(ch, step) == cycle[ch].step # step /\ cycle'[ch].step = step

(* A failed or ineffective generation is not recovered again within the
   cooldown, whichever requests ask, in whatever order results arrive. *)
CooldownHolds ==
    [][(\E ch \in Channels : Starts(ch, "begin"))
        => failed.gen # generation \/ now >= failed.at + Cooldown]_vars

(* A retry inside a cycle never reaches the server before the deadline the
   server last asked for. *)
RetryWaitsForDeadline ==
    [][\A ch \in Channels :
        cycle[ch].step = "sleep" /\ Starts(ch, "handshake")
            => now >= promised]_vars

(* "Never spend another login before it has" [reached the deadline]: no login
   of any cycle starts before the deadline the server last asked for. *)
NoHandshakeBeforeDeadline ==
    [][\A ch \in Channels : Starts(ch, "handshake") => now >= promised]_vars

(* Liveness: a request that was sent is answered; no waiter is forgotten
   even when the clock stands still, the server is silent or Close is called. *)
RequestReturns == \A r \in Requests : req[r].pc # "idle" ~> req[r].pc = "idle"

=============================================================================
