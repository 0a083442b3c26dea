----------------------------- MODULE TrackedJar -----------------------------
(***************************************************************************)
(* TrackedCookieJar (tracked_cookie_jar.go): the cookies of a session, in  *)
(* the wrapped jar that requests are sent with and in the tracked map that *)
(* is saved and restored.  A response changes the map under the mutex and  *)
(* the wrapped jar after it, so parallel responses meet in between.        *)
(* Sessions are saved, processes restart, and cookies expire.              *)
(***************************************************************************)
EXTENDS Integers, Sequences

CONSTANTS
    Keys,           \* cookies by name, domain and path
    Goroutines,     \* requests whose responses set cookies
    Answers,        \* what a response may say: instructions for each key
    NoCookie,
    TTL,            \* local lifetime of cookies without an expiry
    MaxSerial,      \* bound: how many responses
    MaxClock        \* bound: how far the clock runs

(* One Set-Cookie line: a browser session cookie, one with a valid age, a
   deletion (MaxAge < 0 or an expiry in the past), or an age that is too
   large for a time.Duration. *)
Instructions == [kind : {"session", "delete", "huge"}, age : {0}]
                    \cup [kind : {"lasting"}, age : Nat \ {0}]

ASSUME TrackedJarAssumption ==
    /\ Answers \subseteq [Keys -> Seq(Instructions)]
    /\ TTL \in Nat \ {0}
    /\ MaxSerial \in Nat /\ MaxClock \in Nat

VARIABLES
    tracked,    \* the tracked map
    jar,        \* the wrapped jar
    answer,     \* each goroutine: pc, the answer, the time it was received
    stored,     \* the cookies of the saved SessionRecord
    clock,
    serial,     \* how many responses the map has seen
    said,       \* history: the answer of each of them, and its time
    started,    \* history: serial when the process started
    mixed       \* history: the cookies the map and the jar may differ in

vars == <<tracked, jar, answer, stored, clock, serial, said, started, mixed>>

None == [serial |-> 0, expires |-> 0]
Never == MaxClock + TTL + 1000
Nothing == [k \in Keys |-> None]
Quiet == [pc |-> "idle", says |-> NoCookie, at |-> 0, serial |-> 0]

Init ==
    /\ tracked = Nothing
    /\ jar = Nothing
    /\ answer = [g \in Goroutines |-> Quiet]
    /\ stored = Nothing
    /\ clock = 0
    /\ serial = 0
    /\ said = << >>
    /\ started = 0
    /\ mixed = {}

----------------------------------------------------------------------------
(* What one answer does to one key. *)

Tracks(i) == i.kind \in {"session", "lasting"}

(* The lines that set the cookie; of several the last one stands. *)
Setting(is) == {j \in DOMAIN is : Tracks(is[j])}

LastSet(is) == is[CHOOSE j \in Setting(is) : \A i \in Setting(is) : i <= j]

Deletes(is) == \E j \in DOMAIN is : is[j].kind = "delete"

(* newSessionCookie *)
Expires(i, at) == at + IF i.kind = "lasting" THEN i.age ELSE TTL

(* Faulty: a deletion leaves the tracked cookie alone. *)
TrackedAfter_keepsDeleted(old, is, n, at) ==
    IF Setting(is) = {} THEN old
    ELSE [serial |-> n, expires |-> Expires(LastSet(is), at)]

(* Faulty: a deletion is kept as a cookie whose MaxAge is -1. *)
TrackedAfter_agesDeleted(old, is, n, at) ==
    IF Setting(is) # {} THEN [serial |-> n, expires |-> Expires(LastSet(is), at)]
    ELSE IF Deletes(is) THEN [serial |-> n, expires |-> at - 1] ELSE old

(* Faulty: all valid cookies, then all removals. *)
TrackedAfter_removesLast(old, is, n, at) ==
    IF Deletes(is) THEN None
    ELSE IF Setting(is) # {} THEN [serial |-> n, expires |-> Expires(LastSet(is), at)]
    ELSE old

(* SetCookies, the tracked map: all removals, then all valid cookies. *)
TrackedAfter(old, is, n, at) ==
    IF Setting(is) # {} THEN [serial |-> n, expires |-> Expires(LastSet(is), at)]
    ELSE IF Deletes(is) THEN None ELSE old

(* The wrapped jar: line by line, with its own idea of an expiry. *)
JarAfter(old, is, n, at) ==
    LET last == is[Len(is)]
    IN  IF is = << >> THEN old
        ELSE IF last.kind = "delete" THEN None
        ELSE [serial |-> n,
              expires |-> IF last.kind = "lasting" THEN at + last.age ELSE Never]

(* Where the map and the jar part: a cookie is set and deleted by one
   response, or the jar takes a cookie the map does not. *)
Diverges(is) ==
    \/ \E j \in DOMAIN is : is[j].kind = "huge"
    \/ is # << >> /\ is[Len(is)].kind = "delete" /\ Setting(is) # {}

----------------------------------------------------------------------------
(* The responses that have reached the map and not the jar, and have lines
   for the cookie. *)
Pending(k) ==
    {g \in Goroutines : answer[g].pc = "tracked" /\ answer[g].says[k] # << >>}

Receive(g, a) ==
    /\ answer[g].pc = "idle"
    /\ answer' = [answer EXCEPT ![g] =
            [pc |-> "received", says |-> a, at |-> clock, serial |-> 0]]
    /\ UNCHANGED <<tracked, jar, stored, clock, serial, said, started, mixed>>

MapAfter(g, k) ==
    TrackedAfter(tracked[k], answer[g].says[k], serial + 1, answer[g].at)

(* The critical section of SetCookies. *)
Track(g) ==
    /\ answer[g].pc = "received"
    /\ serial < MaxSerial
    /\ serial' = serial + 1
    /\ tracked' = [k \in Keys |-> MapAfter(g, k)]
    /\ said' = Append(said, [says |-> answer[g].says, at |-> answer[g].at])
    /\ mixed' = {k \in Keys : IF answer[g].says[k] = << >> THEN k \in mixed
                              ELSE Diverges(answer[g].says[k])}
    /\ answer' = [answer EXCEPT ![g].pc = "tracked", ![g].serial = serial + 1]
    /\ UNCHANGED <<jar, stored, clock, started>>

(* Responses the map has seen before g that g passes on the way to the jar. *)
Overtakes(g, k) ==
    g \in Pending(k) /\ \E h \in Pending(k) : answer[h].serial < answer[g].serial

(* j.jar.SetCookies, after the mutex was released. *)
Install(g) ==
    /\ answer[g].pc = "tracked"
    /\ jar' = [k \in Keys |->
            JarAfter(jar[k], answer[g].says[k], answer[g].serial, answer[g].at)]
    /\ answer' = [answer EXCEPT ![g] = Quiet]
    /\ mixed' = mixed \cup {k \in Keys : Overtakes(g, k)}
    /\ UNCHANGED <<tracked, stored, clock, serial, said, started>>

Alive(cookie) == cookie.expires > clock

(* PersistentCookies, and the save of the record. *)
Save ==
    /\ tracked' = [k \in Keys |-> IF Alive(tracked[k]) THEN tracked[k] ELSE None]
    /\ stored' = tracked'
    /\ UNCHANGED <<jar, answer, clock, serial, said, started, mixed>>

(* A new process, or the next login of this one, with an empty jar. *)
Restart ==
    /\ tracked' = Nothing
    /\ jar' = Nothing
    /\ answer' = [g \in Goroutines |-> Quiet]
    /\ started' = serial
    /\ mixed' = {}
    /\ UNCHANGED <<stored, clock, serial, said>>

(* Faulty: cookies without a server's expiry start over. *)
ToHTTPCookie_relative(cookie) == [cookie EXCEPT !.expires = clock + TTL]

(* The absolute expiry alone. *)
ToHTTPCookie(cookie) == cookie

(* One expired cookie fails the whole record. *)
MayRestore ==
    /\ \E k \in Keys : stored[k] # None
    /\ \A k \in Keys : stored[k] # None => Alive(stored[k])

(* Load and Restore, into a new jar that nobody else has yet. *)
Restore ==
    /\ serial = started /\ tracked = Nothing /\ jar = Nothing
    /\ \A g \in Goroutines : answer[g] = Quiet
    /\ MayRestore
    /\ tracked' = stored
    /\ jar' = [k \in Keys |->
            IF stored[k] = None THEN None ELSE ToHTTPCookie(stored[k])]
    /\ UNCHANGED <<answer, stored, clock, serial, said, started, mixed>>

Tick ==
    /\ clock < MaxClock
    /\ clock' = clock + 1
    /\ UNCHANGED <<tracked, jar, answer, stored, serial, said, started, mixed>>

Next ==
    \/ \E g \in Goroutines :
        (\E a \in Answers : Receive(g, a)) \/ Track(g) \/ Install(g)
    \/ Save \/ Restart \/ Restore \/ Tick

Spec == Init /\ [][Next]_vars

----------------------------------------------------------------------------
Cookies == [serial : 0 .. MaxSerial, expires : Nat]

(* Types: whatever is kept of a cookie ends at a moment of the clock. *)
TypeOK ==
    /\ tracked \in [Keys -> Cookies]
    /\ jar \in [Keys -> Cookies]
    /\ stored \in [Keys -> Cookies]
    /\ \A g \in Goroutines :
        /\ answer[g].pc \in {"idle", "received", "tracked"}
        /\ answer[g].pc # "idle" => answer[g].says \in Answers
        /\ answer[g].serial \in 0 .. serial
    /\ clock \in 0 .. MaxClock
    /\ serial \in 0 .. MaxSerial /\ Len(said) = serial
    /\ started \in 0 .. serial
    /\ mixed \in SUBSET Keys

(* The last moment the server, or the local bound, allows a cookie. *)
Limit(k, n) == Expires(LastSet(said[n].says[k]), said[n].at)

(* "Restoring it would extend the session each time": over any number of
   restarts, no cookie is saved or sent for longer than the lifetime it was
   received with; only a process that received a session cookie itself sends
   it without an end. *)
LifetimeKept ==
    \A k \in Keys :
        /\ tracked[k] # None => tracked[k].expires <= Limit(k, tracked[k].serial)
        /\ jar[k] # None /\ jar[k].serial <= started =>
                jar[k].expires <= Limit(k, jar[k].serial)

(* A saved record is the map after some whole response of the process that
   saves it: with one cookie of a response it never holds another cookie that
   this response, or an earlier one, has replaced or deleted. *)
SnapshotWhole ==
    \A j, k \in Keys : \A n \in started + 1 .. stored[j].serial :
        stored[k] # None /\ (\E i \in DOMAIN said[n].says[k] :
                                said[n].says[k][i].kind # "huge") =>
            stored[k].serial >= n

(* What is saved is what is sent: when no response about a cookie is under
   way, the map has the cookie of the jar, except one whose local lifetime has
   ended, however many responses were handled in parallel.  Only a response
   the two halves take differently, or one that overtakes another about the
   same cookie, parts them, and only until the next one about that cookie. *)
SavedIsSent ==
    \A k \in Keys \ mixed : Pending(k) = {} =>
        /\ Alive(tracked[k]) => jar[k].serial = tracked[k].serial /\ Alive(jar[k])
        /\ Alive(jar[k]) /\ jar[k].expires # Never => tracked[k] = jar[k]

=============================================================================
