-------------------------- MODULE RefresherProofs --------------------------
(***************************************************************************)
(* Proofs about Refresher, for any number of requests and channels, any    *)
(* cooldown, delays and attempt limit.                                     *)
(***************************************************************************)
EXTENDS Refresher, TLAPS

(* What holds of the goroutine behind each open channel. *)
CycleInv ==
    /\ now >= 1
    /\ \A ch \in Channels :
        /\ cycle[ch].step = "sleep" =>
            cycle[ch].attempt < MaxAttempts - 1 /\ cycle[ch].at = promised
        /\ cycle[ch].step = "ok" => cycle[ch].next > cycle[ch].seen
        /\ cycle[ch].step = "persist" => cycle[ch].at \in 1 .. now

FlightInv == SingleFlight /\ FlightOwnsGeneration /\ CycleInv

(* What each request may rely on while it is inside RoundTrip. *)
RequestInv ==
    \A r \in Requests :
        /\ req[r].seen <= generation
        /\ req[r].pc \in {"waiting", "noting"} => req[r].on \in Channels

(* In memory a closed channel tells its waiters the truth: the session was
   replaced, or an error is there to be read; after a success it was
   replaced. *)
WaiterInv ==
    Stored = FALSE =>
        \A r \in Requests :
            /\ req[r].pc = "waiting" /\ ~Open(req[r].on) =>
                generation > req[r].seen \/ lastErr = "err"
            /\ req[r].pc = "waiting" /\ cycle[req[r].on].step = "done" =>
                generation > req[r].seen
            /\ req[r].pc = "again" => generation > req[r].seen

(* Whatever makes refresh() refuse was recorded against this generation,
   and in memory the record of its last failure is never lost and no error
   outlives the generation it belongs to. *)
FailureInv ==
    /\ generation >= 1 /\ failed.gen <= generation
    /\ lastFailureAt # 0 => failed.gen = generation
    /\ notBefore # 0 /\ (inFlight = NoChannel \/ cycle[inFlight].step = "persist")
        => failed.gen = generation
    /\ Stored = FALSE /\ failed.gen = generation =>
        lastErr = "err" /\ lastFailureAt = failed.at /\ failed.at # 0
    /\ Stored = FALSE /\ lastErr = "err" => failed.gen = generation

IInv == TypeOK /\ FlightInv /\ RequestInv /\ WaiterInv /\ FailureInv

(* The request steps that only read the refresher. *)
LocalSteps(r) ==
    \/ Send(r) \/ Answered(r) \/ RefreshSkips(r) \/ RefreshJoins(r)
    \/ RefreshRefused(r) \/ RefreshRetries(r) \/ RefreshFails(r)
    \/ Replay(r) \/ NoteSkips(r) \/ NoteReturns(r) \/ Cancel(r)

USE DEF Ended

----------------------------------------------------------------------------
(* The initial state satisfies the inductive invariant: New has logged in,
   nothing is in flight, no failure is recorded. *)
LEMMA InitInv == Init => IInv
<1> SUFFICES ASSUME Init PROVE IInv
    OBVIOUS
<1> USE RefresherAssumption DEF Init, NewCycle, Open
<1>1. TypeOK
    <2>1. 0 \in 0 .. MaxAttempts - 1
        OBVIOUS
    <2> QED
        BY <2>1 DEF TypeOK, Cycles, Times, Steps
<1>2. FlightInv
    BY DEF FlightInv, SingleFlight, FlightOwnsGeneration, CycleInv
<1>3. RequestInv
    BY DEF RequestInv
<1>4. WaiterInv
    BY DEF WaiterInv
<1>5. FailureInv
    BY DEF FailureInv
<1> QED
    BY <1>1, <1>2, <1>3, <1>4, <1>5 DEF IInv

(* Moving one cycle to another step with another deadline keeps the type of
   the table of cycles. *)
LEMMA SleepingCycle ==
    ASSUME NEW c \in [Channels -> Cycles], NEW ch \in Channels,
           NEW s \in Steps, NEW t \in Times
    PROVE  [c EXCEPT ![ch].step = s, ![ch].at = t] \in [Channels -> Cycles]
    BY DEF Cycles, Times

(* Every value stays in its type; in particular the attempt counter of a
   cycle never reaches maxAttempts. *)
LEMMA TypeStep == IInv /\ [Next]_vars => TypeOK'
<1> SUFFICES ASSUME IInv, [Next]_vars PROVE TypeOK'
    OBVIOUS
<1> USE RefresherAssumption DEF TypeOK, Cycles, Times
<1>0. TypeOK
    BY DEF IInv
<1>1. ASSUME NEW r \in Requests, LocalSteps(r) PROVE TypeOK'
    BY <1>0, <1>1 DEF LocalSteps, Send, Answered, RefreshSkips, RefreshJoins,
        RefreshRefused, RefreshRetries, RefreshFails, Replay, NoteSkips,
        NoteReturns, Cancel, Goes, Returns, refresherState, WaiterWakes,
        MayRecover
<1>2. ASSUME NEW r \in Requests, NEW ch \in Channels, RefreshStarts(r, ch)
      PROVE  TypeOK'
    BY <1>0, <1>2 DEF RefreshStarts, MayRecover, NewCycle, Goes, Steps
<1>3. ASSUME NEW r \in Requests, NEW ch \in Channels, NoteReserves(r, ch)
      PROVE  TypeOK'
    BY <1>0, <1>3 DEF NoteReserves, NewCycle, Goes, Steps
<1>4. ASSUME NEW ch \in Channels, Begin(ch) PROVE TypeOK'
    BY <1>0, <1>4 DEF Begin, ToStep, Steps
<1>5. ASSUME NEW ch \in Channels, CycleFails(ch) PROVE TypeOK'
    BY <1>0, <1>5 DEF CycleFails, ToStep, Steps
<1>6. ASSUME NEW ch \in Channels, SleepReturns(ch) PROVE TypeOK'
    <2>1. cycle[ch].attempt + 1 \in 0 .. MaxAttempts - 1
        BY <1>0, <1>6 DEF IInv, FlightInv, CycleInv, SleepReturns
    <2> QED
        BY <1>0, <1>6, <2>1 DEF SleepReturns, Steps
<1>7. ASSUME NEW ch \in Channels, SaveFails(ch) PROVE TypeOK'
    BY <1>0, <1>7 DEF SaveFails, ToStep, Steps
<1>8. ASSUME NEW ch \in Channels, NEW next \in 1 .. MaxGeneration,
             Adopts(ch, next) \/ HandshakeOK(ch, next)
      PROVE  TypeOK'
    BY <1>0, <1>8 DEF Adopts, HandshakeOK, Got, Steps
<1>9. ASSUME NEW ch \in Channels, NEW d \in Delays, HandshakeRateLimited(ch, d)
      PROVE  TypeOK'
    <2>1. now + d \in Nat
        BY <1>0
    <2>2. CASE ToStep(ch, "err")
        BY <1>0, <1>9, <2>1, <2>2 DEF HandshakeRateLimited, ToStep, Steps
    <2>3. CASE cycle' = [cycle EXCEPT ![ch].step = "sleep", ![ch].at = now + d]
        <3>1. "sleep" \in Steps
            BY DEF Steps
        <3>2. cycle' \in [Channels -> Cycles]
            BY <1>0, <2>1, <2>3, <3>1, SleepingCycle
        <3> QED
            BY <1>0, <1>9, <2>1, <3>2 DEF HandshakeRateLimited
    <2> QED
        BY <1>9, <2>2, <2>3 DEF HandshakeRateLimited
<1>10. ASSUME NEW ch \in Channels, Publishes(ch) PROVE TypeOK'
    BY <1>0, <1>10 DEF Publishes, Ends, NewCycle, Steps
<1>11. ASSUME NEW ch \in Channels, RecordsFailure(ch) PROVE TypeOK'
    BY <1>0, <1>11 DEF RecordsFailure, Ends, NewCycle, Steps
<1>12. ASSUME NEW ch \in Channels, NEW stamp \in 0 .. now,
              MarksIneffective(ch, stamp)
       PROVE  TypeOK'
    BY <1>0, <1>12 DEF MarksIneffective, Ends, NewCycle, Steps
<1>13. ASSUME NEW ch \in Channels, NEW result \in {"nil", "err"},
              MarkSkipped(ch, result)
       PROVE  TypeOK'
    BY <1>0, <1>13 DEF MarkSkipped, Ends, NewCycle, Steps
<1>14. CASE Tick
    BY <1>0, <1>14 DEF Tick, refresherState
<1>15. CASE Close
    BY <1>0, <1>15 DEF Close, refresherState
<1>16. CASE UNCHANGED vars
    BY <1>0, <1>16 DEF vars
<1> QED
    BY <1>1, <1>2, <1>3, <1>4, <1>5, <1>6, <1>7, <1>8, <1>9, <1>10, <1>11,
       <1>12, <1>13, <1>14, <1>15, <1>16
       DEF Next, RequestSteps, CycleSteps, LocalSteps

(* A step keeps at most one channel open, the one in inFlight, keeps the
   generation it works on current, and keeps what its goroutine knows true. *)
LEMMA FlightStep == IInv /\ TypeOK' /\ [Next]_vars => FlightInv'
<1> SUFFICES ASSUME IInv, TypeOK', [Next]_vars PROVE FlightInv'
    OBVIOUS
<1> USE RefresherAssumption
        DEF TypeOK, Cycles, Times, FlightInv, SingleFlight, FlightOwnsGeneration,
            CycleInv, Open
<1>0. TypeOK /\ FlightInv
    BY DEF IInv
<1>1. ASSUME NEW r \in Requests, LocalSteps(r) PROVE FlightInv'
    BY <1>0, <1>1 DEF LocalSteps, Send, Answered, RefreshSkips, RefreshJoins,
        RefreshRefused, RefreshRetries, RefreshFails, Replay, NoteSkips,
        NoteReturns, Cancel, refresherState
<1>2. ASSUME NEW r \in Requests, NEW ch \in Channels, RefreshStarts(r, ch)
      PROVE  FlightInv'
    BY <1>0, <1>2 DEF RefreshStarts, MayRecover, NewCycle, Free
<1>3. ASSUME NEW r \in Requests, NEW ch \in Channels, NoteReserves(r, ch)
      PROVE  FlightInv'
    BY <1>0, <1>3 DEF NoteReserves, NoteIsStale, NewCycle, Free
<1>4. ASSUME NEW ch \in Channels, Begin(ch) PROVE FlightInv'
    BY <1>0, <1>4 DEF Begin, ToStep
<1>5. ASSUME NEW ch \in Channels, CycleFails(ch) PROVE FlightInv'
    BY <1>0, <1>5 DEF CycleFails, ToStep
<1>6. ASSUME NEW ch \in Channels, SleepReturns(ch) PROVE FlightInv'
    BY <1>0, <1>6 DEF SleepReturns
<1>7. ASSUME NEW ch \in Channels, SaveFails(ch) PROVE FlightInv'
    BY <1>0, <1>7 DEF SaveFails, ToStep
<1>8. ASSUME NEW ch \in Channels, NEW next \in 1 .. MaxGeneration,
             Adopts(ch, next) \/ HandshakeOK(ch, next)
      PROVE  FlightInv'
    BY <1>0, <1>8 DEF Adopts, HandshakeOK, Got
<1>9. ASSUME NEW ch \in Channels, NEW d \in Delays, HandshakeRateLimited(ch, d)
      PROVE  FlightInv'
    <2>1. CASE ToStep(ch, "err")
        BY <1>0, <1>9, <2>1 DEF HandshakeRateLimited, ToStep
    <2>2. CASE ~LastAttempt(ch)
        <3>1. cycle[ch].attempt < MaxAttempts - 1
            <4>1. cycle[ch].attempt \in 0 .. MaxAttempts - 1
                BY <1>0
            <4> QED
                BY <2>2, <4>1 DEF LastAttempt
        <3> QED
            BY <1>0, <1>9, <2>2, <3>1 DEF HandshakeRateLimited
    <2> QED
        BY <1>9, <2>1, <2>2 DEF HandshakeRateLimited
<1>10. ASSUME NEW ch \in Channels, Publishes(ch) PROVE FlightInv'
    BY <1>0, <1>10 DEF Publishes, Ends, NewCycle
<1>11. ASSUME NEW ch \in Channels, RecordsFailure(ch) PROVE FlightInv'
    BY <1>0, <1>11 DEF RecordsFailure, Ends, NewCycle
<1>12. ASSUME NEW ch \in Channels, NEW stamp \in 0 .. now,
              MarksIneffective(ch, stamp)
       PROVE  FlightInv'
    BY <1>0, <1>12 DEF MarksIneffective, Ends, NewCycle
<1>13. ASSUME NEW ch \in Channels, NEW result \in {"nil", "err"},
              MarkSkipped(ch, result)
       PROVE  FlightInv'
    BY <1>0, <1>13 DEF MarkSkipped, Ends, NewCycle
<1>14. CASE Tick
    BY <1>0, <1>14 DEF Tick, refresherState
<1>15. CASE Close
    BY <1>0, <1>15 DEF Close, refresherState
<1>16. CASE UNCHANGED vars
    BY <1>0, <1>16 DEF vars
<1> QED
    BY <1>1, <1>2, <1>3, <1>4, <1>5, <1>6, <1>7, <1>8, <1>9, <1>10, <1>11,
       <1>12, <1>13, <1>14, <1>15, <1>16
       DEF Next, RequestSteps, CycleSteps, LocalSteps

(* A request never holds a generation from the future, and a waiter always
   holds a channel. *)
LEMMA RequestStep == IInv /\ TypeOK' /\ [Next]_vars => RequestInv'
<1> SUFFICES ASSUME IInv, TypeOK', [Next]_vars PROVE RequestInv'
    OBVIOUS
<1> USE RefresherAssumption DEF TypeOK, Cycles, Times, RequestInv
<1>0. TypeOK /\ RequestInv
    BY DEF IInv
<1>1. ASSUME NEW r \in Requests, LocalSteps(r) PROVE RequestInv'
    BY <1>0, <1>1 DEF LocalSteps, Send, Answered, RefreshSkips, RefreshJoins,
        RefreshRefused, RefreshRetries, RefreshFails, Replay, NoteSkips,
        NoteReturns, Cancel, Goes, Returns, refresherState, WaiterWakes
<1>2. ASSUME NEW r \in Requests, NEW ch \in Channels,
             RefreshStarts(r, ch) \/ NoteReserves(r, ch)
      PROVE  RequestInv'
    BY <1>0, <1>2 DEF RefreshStarts, NoteReserves, Goes
<1>3. ASSUME NEW ch \in Channels, CycleSteps(ch) PROVE RequestInv'
    <2>1. generation' >= generation /\ req' = req
        BY <1>0, <1>3 DEF IInv, FlightInv, SingleFlight, FlightOwnsGeneration,
            CycleInv, Open, CycleSteps, Begin, CycleFails, SleepReturns,
            SaveFails, Adopts, HandshakeOK, HandshakeRateLimited, Publishes,
            RecordsFailure, MarksIneffective, MarkSkipped
    <2> QED
        BY <1>0, <2>1
<1>4. CASE Tick \/ Close \/ UNCHANGED vars
    BY <1>0, <1>4 DEF Tick, Close, vars, refresherState
<1> QED
    BY <1>1, <1>2, <1>3, <1>4 DEF Next, RequestSteps, LocalSteps

(* In memory, closing a channel either replaces the session its waiters lost
   or leaves an error, and later cycles keep it so. *)
LEMMA WaiterStep == IInv /\ TypeOK' /\ [Next]_vars => WaiterInv'
<1> SUFFICES ASSUME IInv, TypeOK', [Next]_vars, Stored = FALSE PROVE WaiterInv'
    BY DEF WaiterInv
<1> USE DEF TypeOK, Cycles, Times, WaiterInv, Open
<1>0. TypeOK /\ FlightInv /\ RequestInv /\ WaiterInv
    BY DEF IInv
<1>1. ASSUME NEW r \in Requests, LocalSteps(r) PROVE WaiterInv'
    BY <1>0, <1>1 DEF LocalSteps, Send, Answered, RefreshSkips, RefreshJoins,
        RefreshRefused, RefreshRetries, RefreshFails, Replay, NoteSkips,
        NoteReturns, Cancel, Goes, Returns, refresherState, WaiterWakes,
        RequestInv, FlightInv, SingleFlight
<1>2. ASSUME NEW r \in Requests, NEW ch \in Channels,
             RefreshStarts(r, ch) \/ NoteReserves(r, ch)
      PROVE  WaiterInv'
    BY <1>0, <1>2 DEF RefreshStarts, NoteReserves, Goes, NewCycle, Free,
        RequestInv
<1>3. ASSUME NEW ch \in Channels, CycleSteps(ch) PROVE WaiterInv'
    <2>1. CASE Publishes(ch)
        <3>1. generation' > generation /\ req' = req
            BY <1>0, <2>1, RefresherAssumption DEF Publishes, FlightInv,
                SingleFlight, FlightOwnsGeneration, CycleInv
        <3>2. \A r \in Requests : generation' > req'[r].seen
            BY <1>0, <3>1 DEF RequestInv
        <3> QED
            BY <3>2
    <2>2. CASE RecordsFailure(ch)
        BY <1>0, <2>2 DEF RecordsFailure, Ends, NewCycle, RequestInv
    <2>3. ASSUME NEW stamp \in 0 .. now, MarksIneffective(ch, stamp)
          PROVE  WaiterInv'
        BY <1>0, <2>3 DEF MarksIneffective, Ends, NewCycle, RequestInv
    <2>4. ASSUME \A c \in Channels :
                     /\ Open(c) <=> Open(c)'
                     /\ cycle'[c].step = "done" <=> cycle[c].step = "done",
                 UNCHANGED <<req, generation, lastErr>>
          PROVE  WaiterInv'
        BY <1>0, <2>4 DEF RequestInv
    <2>5. CASE Begin(ch) \/ CycleFails(ch)
        <3>1. \A c \in Channels :
                /\ Open(c) <=> Open(c)'
                /\ cycle'[c].step = "done" <=> cycle[c].step = "done"
            BY <1>0, <2>5 DEF Begin, CycleFails, ToStep
        <3> QED
            BY <2>4, <2>5, <3>1 DEF Begin, CycleFails
    <2>6. CASE SleepReturns(ch)
        <3>1. \A c \in Channels :
                /\ Open(c) <=> Open(c)'
                /\ cycle'[c].step = "done" <=> cycle[c].step = "done"
            BY <1>0, <2>6 DEF SleepReturns
        <3> QED
            BY <2>4, <2>6, <3>1 DEF SleepReturns
    <2>7. ASSUME NEW next \in 1 .. MaxGeneration, HandshakeOK(ch, next)
          PROVE  WaiterInv'
        <3>1. \A c \in Channels :
                /\ Open(c) <=> Open(c)'
                /\ cycle'[c].step = "done" <=> cycle[c].step = "done"
            BY <1>0, <2>7 DEF HandshakeOK, Got
        <3> QED
            BY <2>4, <2>7, <3>1 DEF HandshakeOK
    <2>8. ASSUME NEW d \in Delays, HandshakeRateLimited(ch, d)
          PROVE  WaiterInv'
        <3>1. \A c \in Channels :
                /\ Open(c) <=> Open(c)'
                /\ cycle'[c].step = "done" <=> cycle[c].step = "done"
            BY <1>0, <2>8 DEF HandshakeRateLimited, ToStep
        <3> QED
            BY <2>4, <2>8, <3>1 DEF HandshakeRateLimited
    <2> QED
        BY <1>3, <2>1, <2>2, <2>3, <2>5, <2>6, <2>7, <2>8 DEF CycleSteps,
            SaveFails, Adopts, MarkSkipped
<1>4. CASE Tick \/ Close \/ UNCHANGED vars
    BY <1>0, <1>4 DEF Tick, Close, vars, refresherState
<1> QED
    BY <1>1, <1>2, <1>3, <1>4 DEF Next, RequestSteps, LocalSteps

(* Publishing a session forgets the failures of the previous one; every
   failure is recorded against the generation that is still current. *)
LEMMA FailureStep == IInv /\ TypeOK' /\ [Next]_vars => FailureInv'
<1> SUFFICES ASSUME IInv, TypeOK', [Next]_vars PROVE FailureInv'
    OBVIOUS
<1> USE RefresherAssumption DEF TypeOK, Cycles, Times, FailureInv
<1>0. TypeOK /\ FlightInv /\ FailureInv
    BY DEF IInv
<1>1. ASSUME NEW r \in Requests, LocalSteps(r) PROVE FailureInv'
    BY <1>0, <1>1 DEF LocalSteps, Send, Answered, RefreshSkips, RefreshJoins,
        RefreshRefused, RefreshRetries, RefreshFails, Replay, NoteSkips,
        NoteReturns, Cancel, refresherState
<1>2. ASSUME NEW r \in Requests, NEW ch \in Channels,
             RefreshStarts(r, ch) \/ NoteReserves(r, ch)
      PROVE  FailureInv'
    BY <1>0, <1>2 DEF RefreshStarts, NoteReserves, MayRecover, NoteIsStale,
        NewCycle
<1>3. ASSUME NEW ch \in Channels, CycleSteps(ch) PROVE FailureInv'
    <2>0. Open(ch) => inFlight = ch /\ cycle[ch].seen = generation
        BY <1>0 DEF FlightInv, SingleFlight, FlightOwnsGeneration
    <2>1. CASE Publishes(ch)
        BY <1>0, <2>0, <2>1 DEF Publishes, Open, FlightInv, CycleInv
    <2>2. CASE RecordsFailure(ch)
        BY <1>0, <2>0, <2>2 DEF RecordsFailure, Open, FlightInv, CycleInv
    <2>3. ASSUME NEW stamp \in 0 .. now, MarksIneffective(ch, stamp)
          PROVE  FailureInv'
        BY <1>0, <2>0, <2>3 DEF MarksIneffective, Open, FlightInv, CycleInv
    <2>4. ASSUME NEW result \in {"nil", "err"}, MarkSkipped(ch, result)
          PROVE  FailureInv'
        BY <1>0, <2>0, <2>4 DEF MarkSkipped, Open
    <2>5. CASE \/ Begin(ch) \/ CycleFails(ch) \/ SleepReturns(ch) \/ SaveFails(ch)
               \/ \E next \in 1 .. MaxGeneration :
                      Adopts(ch, next) \/ HandshakeOK(ch, next)
               \/ \E d \in Delays : HandshakeRateLimited(ch, d)
        <3>1. /\ inFlight' = inFlight /\ inFlight = ch
              /\ cycle'[ch].step # "persist"
              /\ UNCHANGED <<generation, lastErr, lastFailureAt, failed>>
            BY <1>0, <2>0, <2>5 DEF Open, Begin, CycleFails, SleepReturns,
                SaveFails, Adopts, HandshakeOK, HandshakeRateLimited, ToStep,
                Got
        <3> QED
            BY <1>0, <3>1
    <2> QED
        BY <1>3, <2>1, <2>2, <2>3, <2>4, <2>5 DEF CycleSteps
<1>4. CASE Tick \/ Close \/ UNCHANGED vars
    BY <1>0, <1>4 DEF Tick, Close, vars, refresherState
<1> QED
    BY <1>1, <1>2, <1>3, <1>4 DEF Next, RequestSteps, LocalSteps

(* The inductive invariant holds in every reachable state. *)
THEOREM Invariance == Spec => []IInv
<1>1. Init => IInv
    BY InitInv
<1>2. IInv /\ [Next]_vars => IInv'
    BY TypeStep, FlightStep, RequestStep, WaiterStep, FailureStep DEF IInv
<1> QED
    BY <1>1, <1>2, PTL DEF Spec

----------------------------------------------------------------------------
(* Every variable keeps its type: in particular no cycle makes more than
   maxAttempts handshakes. *)
THEOREM TypeCorrectness == Spec => []TypeOK
<1>1. IInv => TypeOK
    BY DEF IInv
<1> QED
    BY <1>1, Invariance, PTL

(* At any time at most one goroutine logs in or records an ineffective
   session, and it is the one every new request will find in inFlight. *)
THEOREM SingleFlightTheorem == Spec => []SingleFlight
<1>1. IInv => SingleFlight
    BY DEF IInv, FlightInv
<1> QED
    BY <1>1, Invariance, PTL

(* A recovery or an ineffective mark never concerns a generation that was
   already replaced. *)
THEOREM FlightOwnsGenerationTheorem == Spec => []FlightOwnsGeneration
<1>1. IInv => FlightOwnsGeneration
    BY DEF IInv, FlightInv
<1> QED
    BY <1>1, Invariance, PTL

(* Without a store, a request is replayed only on a session newer than the
   one it lost. *)
THEOREM ReplayTheorem == Spec => [](Stored = FALSE => ReplayOnFreshSession)
<1>1. IInv => (Stored = FALSE => ReplayOnFreshSession)
    BY DEF IInv, WaiterInv, ReplayOnFreshSession
<1> QED
    BY <1>1, Invariance, PTL

(* Without a store, the failure a late waiter reads is that of the session it
   lost or of a later one, and after a successful recovery of a later one. *)
THEOREM FailureTheorem == Spec => [](Stored = FALSE => FailureIsOwnOrLater)
<1>1. IInv => (Stored = FALSE => FailureIsOwnOrLater)
    <2> SUFFICES ASSUME IInv, Stored = FALSE, NEW r \in Requests,
                        req[r].pc = "waiting", lastErr = "err"
                 PROVE  /\ failed.gen >= req[r].seen
                        /\ cycle[req[r].on].step = "done" =>
                            failed.gen > req[r].seen
        BY DEF FailureIsOwnOrLater
    <2>1. failed.gen = generation
        BY DEF IInv, FailureInv
    <2>2. req[r].seen <= generation
        BY DEF IInv, RequestInv
    <2>3. cycle[req[r].on].step = "done" => generation > req[r].seen
        BY DEF IInv, WaiterInv
    <2> QED
        BY <2>1, <2>2, <2>3 DEF IInv, TypeOK
<1> QED
    BY <1>1, Invariance, PTL

(* A newer generation always wins over the cooldown and the deadlines of the
   one before. *)
THEOREM CooldownIsPerGenerationTheorem == Spec => []CooldownIsPerGeneration
<1>1. IInv => CooldownIsPerGeneration
    BY DEF IInv, FailureInv, TypeOK, Times, CooldownIsPerGeneration,
        DeadlinePending, CoolingDown
<1> QED
    BY <1>1, Invariance, PTL

----------------------------------------------------------------------------
(* Only refresh() starts a cycle, and not while it is cooling down. *)
LEMMA CycleStarts ==
    ASSUME IInv, [Next]_vars, NEW ch \in Channels, Starts(ch, "begin")
    PROVE  UNCHANGED <<generation, failed, now>> /\ ~CoolingDown
<1> USE DEF Starts, IInv, TypeOK, Cycles
<1>1. ASSUME NEW r \in Requests, NEW c \in Channels, RefreshStarts(r, c)
      PROVE  UNCHANGED <<generation, failed, now>> /\ ~CoolingDown
    BY <1>1 DEF RefreshStarts
<1>2. ASSUME NEW r \in Requests, NEW c \in Channels, NoteReserves(r, c)
      PROVE  FALSE
    BY <1>2 DEF NoteReserves, NewCycle
<1>3. ASSUME NEW r \in Requests, LocalSteps(r) PROVE FALSE
    BY <1>3 DEF LocalSteps, Send, Answered, RefreshSkips, RefreshJoins,
        RefreshRefused, RefreshRetries, RefreshFails, Replay, NoteSkips,
        NoteReturns, Cancel, refresherState
<1>4. ASSUME NEW c \in Channels, CycleSteps(c) PROVE FALSE
    BY <1>4 DEF CycleSteps, Begin, CycleFails, SleepReturns, SaveFails, Adopts,
        HandshakeOK, HandshakeRateLimited, Publishes, RecordsFailure,
        MarksIneffective, MarkSkipped, ToStep, Got, Ends, NewCycle
<1>5. CASE Tick \/ Close \/ UNCHANGED vars
    BY <1>5 DEF Tick, Close, vars, refresherState
<1> QED
    BY <1>1, <1>2, <1>3, <1>4, <1>5 DEF Next, RequestSteps, LocalSteps

(* Only Begin and SleepReturns start a login, the latter past the deadline. *)
LEMMA LoginStarts ==
    ASSUME IInv, [Next]_vars, NEW ch \in Channels, Starts(ch, "handshake")
    PROVE  cycle[ch].step = "sleep" => now >= promised
<1> USE DEF Starts, IInv, TypeOK, Cycles
<1>1. ASSUME NEW r \in Requests, NEW c \in Channels,
             RefreshStarts(r, c) \/ NoteReserves(r, c)
      PROVE  FALSE
    BY <1>1 DEF RefreshStarts, NoteReserves, NewCycle
<1>2. ASSUME NEW r \in Requests, LocalSteps(r) PROVE FALSE
    BY <1>2 DEF LocalSteps, Send, Answered, RefreshSkips, RefreshJoins,
        RefreshRefused, RefreshRetries, RefreshFails, Replay, NoteSkips,
        NoteReturns, Cancel, refresherState
<1>3. ASSUME NEW c \in Channels, Begin(c)
      PROVE  cycle[ch].step = "sleep" => now >= promised
    BY <1>3 DEF Begin, ToStep
<1>4. ASSUME NEW c \in Channels, SleepReturns(c)
      PROVE  cycle[ch].step = "sleep" => now >= promised
    BY <1>4 DEF SleepReturns, SleptEnough, FlightInv, CycleInv
<1>5. ASSUME NEW c \in Channels, CycleSteps(c), ~Begin(c), ~SleepReturns(c)
      PROVE  FALSE
    BY <1>5 DEF CycleSteps, CycleFails, SaveFails, Adopts,
        HandshakeOK, HandshakeRateLimited, Publishes, RecordsFailure,
        MarksIneffective, MarkSkipped, ToStep, Got, Ends, NewCycle
<1>6. CASE Tick \/ Close \/ UNCHANGED vars
    BY <1>6 DEF Tick, Close, vars, refresherState
<1> QED
    BY <1>1, <1>2, <1>3, <1>4, <1>5, <1>6 DEF Next, RequestSteps, LocalSteps

(* Without a store, a generation whose recovery failed, or was ineffective, is
   left alone for the whole cooldown. *)
THEOREM CooldownTheorem == ASSUME Stored = FALSE PROVE Spec => CooldownHolds
<1>1. IInv /\ [Next]_vars =>
        [(\E ch \in Channels : Starts(ch, "begin"))
            => failed.gen # generation \/ now >= failed.at + Cooldown]_vars
    <2> SUFFICES ASSUME IInv, [Next]_vars, NEW ch \in Channels,
                        Starts(ch, "begin"), failed.gen = generation
                 PROVE  now >= failed.at + Cooldown
        OBVIOUS
    <2>1. ~CoolingDown
        BY CycleStarts
    <2>2. lastErr = "err" /\ lastFailureAt = failed.at /\ failed.at # 0
        BY DEF IInv, FailureInv
    <2> QED
        BY <2>1, <2>2, RefresherAssumption DEF CoolingDown, IInv, TypeOK, Times
<1> QED
    BY <1>1, Invariance, PTL DEF Spec, CooldownHolds

(* A retry inside a cycle waits for the deadline the server last asked for. *)
THEOREM RetryTheorem == Spec => RetryWaitsForDeadline
<1>1. IInv /\ [Next]_vars =>
        [\A ch \in Channels :
            cycle[ch].step = "sleep" /\ Starts(ch, "handshake")
                => now >= promised]_vars
    BY LoginStarts
<1> QED
    BY <1>1, Invariance, PTL DEF Spec, RetryWaitsForDeadline

=============================================================================
