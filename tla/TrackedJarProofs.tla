--------------------------- MODULE TrackedJarProofs ---------------------------
(***************************************************************************)
(* What holds of TrackedJar for any cookies, goroutines, answers, lifetimes *)
(* and bounds: the map holds what the last response it has seen left of    *)
(* each cookie, saved records are such maps, and a cookie is in the        *)
(* wrapped jar as in the map once the last response about it is installed, *)
(* unless the two halves take that one differently or responses about the  *)
(* cookie overtook one another since the map saw it.                       *)
(***************************************************************************)
EXTENDS TrackedJar, WellFoundedInduction, TLAPS

----------------------------------------------------------------------------
(* Lines of a response. *)

(* A set of positions has a last one. *)
LEMMA LastOf ==
    ASSUME NEW n \in Nat, NEW S \in SUBSET (1 .. n), S # {}
    PROVE  \E j \in S : \A i \in S : i <= j
<1> DEFINE Less == OpToRel(<, Nat)
           T == {n - i : i \in S}
<1>1. IsWellFoundedOn(Less, Nat)
  BY NatLessThanWellFounded
<1>2. T \subseteq Nat /\ T # {}
  <2>1. \A i \in S : n - i \in Nat
    OBVIOUS
  <2>2. T \subseteq Nat
    BY <2>1
  <2>3. PICK i \in S : TRUE
    OBVIOUS
  <2>4. n - i \in T
    BY <2>3
  <2> QED BY <2>2, <2>4
<1> HIDE DEF T
<1>3. PICK x \in T : \A y \in T : ~(<<y, x>> \in Less)
  BY <1>1, <1>2, WFMin
<1>4. \A y \in T : x <= y
  <2> SUFFICES ASSUME NEW y \in T, ~(x <= y) PROVE FALSE
    OBVIOUS
  <2>1. x \in Nat /\ y \in Nat /\ y < x
    BY <1>2
  <2>2. <<y, x>> \in Less
    BY <2>1 DEF OpToRel
  <2> QED BY <1>3, <2>2
<1>5. PICK j \in S : x = n - j
  BY DEF T
<1>6. \A i \in S : i <= j
  BY <1>4, <1>5 DEF T
<1> QED BY <1>6

(* The line that stands sets the cookie, and is the last line if that sets
   it. *)
LEMMA LastSetting ==
    ASSUME NEW is \in Seq(Instructions), Setting(is) # {}
    PROVE  /\ LastSet(is) \in Instructions /\ Tracks(LastSet(is))
           /\ Tracks(is[Len(is)]) => LastSet(is) = is[Len(is)]
<1>1. Len(is) \in Nat /\ DOMAIN is = 1 .. Len(is)
  OBVIOUS
<1>2. Setting(is) \in SUBSET (1 .. Len(is))
  BY <1>1 DEF Setting
<1>3. \E j \in Setting(is) : \A i \in Setting(is) : i <= j
  BY <1>1, <1>2, LastOf
<1>4. PICK last \in Setting(is) : /\ \A i \in Setting(is) : i <= last
                                 /\ LastSet(is) = is[last]
  BY <1>3 DEF LastSet
<1>5. last \in Nat /\ last <= Len(is) /\ last \in DOMAIN is
  BY <1>1, <1>2
<1>6. LastSet(is) \in Instructions
  BY <1>4, <1>5
<1>7. LastSet(is) \in Instructions /\ Tracks(LastSet(is))
  BY <1>4, <1>6 DEF Setting
<1>8. ASSUME Tracks(is[Len(is)]) PROVE LastSet(is) = is[Len(is)]
  <2>1. Len(is) \in Setting(is)
    BY <1>1, <1>5, <1>8 DEF Setting
  <2>2. Len(is) <= last
    BY <1>4, <2>1
  <2>3. \A m, n \in Nat : m <= n /\ n <= m => m = n
    OBVIOUS
  <2>4. last = Len(is)
    BY <1>1, <1>5, <2>2, <2>3, Zenon
  <2> QED BY <1>4, <2>4
<1> QED BY <1>7, <1>8

----------------------------------------------------------------------------
(* The inductive invariant. *)

Responses == [pc : {"idle", "received", "tracked"}, says : Answers \cup {NoCookie},
              at : 0 .. MaxClock, serial : 0 .. MaxSerial]

(* A response is known by its serial, later than the process is. *)
Types ==
    /\ TypeOK
    /\ answer \in [Goroutines -> Responses]
    /\ said \in Seq([says : Answers, at : 0 .. MaxClock])
    /\ \A g \in Goroutines : answer[g].pc = "tracked" => answer[g].serial > started

(* A cookie of a response of the history h ends no later than that response,
   or the local bound, allows. *)
Within(k, cookie, h) ==
    cookie # None =>
        /\ cookie.serial \in 1 .. Len(h)
        /\ cookie.expires <= Expires(LastSet(h[cookie.serial].says[k]), h[cookie.serial].at)

LimitInv ==
    \A k \in Keys :
        /\ Within(k, tracked[k], said) /\ Within(k, stored[k], said)
        /\ jar[k].serial <= started => Within(k, jar[k], said)

(* Do the lines say what becomes of the cookie? *)
Speaks(is) == \E i \in DOMAIN is : is[i].kind # "huge"

(* The map has nothing that a response it has seen has replaced or deleted. *)
MapInv ==
    \A k \in Keys : \A n \in started + 1 .. serial :
        tracked[k] # None /\ Speaks(said[n].says[k]) => tracked[k].serial >= n

(* The same cookie in the map and in the jar, which may keep it longer. *)
Agree(t, j, now) ==
    /\ t # None => j.serial = t.serial /\ j.expires \in {t.expires, Never}
    /\ j.expires > now /\ j.expires # Never => t = j

(* What the jar has once the response of g is installed. *)
Installed(g, k) == JarAfter(jar[k], answer[g].says[k], answer[g].serial, answer[g].at)

(* The last response under way about a cookie. *)
Newest(g, k) ==
    g \in Pending(k) /\ \A h \in Pending(k) : answer[h].serial <= answer[g].serial

(* The map and the jar agree, or will when the newest response is installed. *)
JarInv ==
    \A k \in Keys \ mixed :
        /\ Pending(k) = {} => Agree(tracked[k], jar[k], clock)
        /\ \A g \in Goroutines :
            Newest(g, k) => Agree(tracked[k], Installed(g, k), clock)

IInv == Types /\ LimitInv /\ MapInv /\ SnapshotWhole /\ JarInv

----------------------------------------------------------------------------
(* What one response does to one cookie. *)

(* One more response the map has seen. *)
LEMMA Appended ==
    ASSUME NEW S, NEW s \in Seq(S), NEW e \in S
    PROVE  /\ Append(s, e) \in Seq(S) /\ Len(Append(s, e)) = Len(s) + 1
           /\ \A i \in 1 .. Len(s) : Append(s, e)[i] = s[i]
           /\ Append(s, e)[Len(s) + 1] = e
OBVIOUS

(* A response that is not empty has a last line. *)
LEMMA LastLine ==
    ASSUME NEW is \in Seq(Instructions), is # << >>
    PROVE  Len(is) \in DOMAIN is /\ is[Len(is)] \in Instructions
OBVIOUS

(* The expiry of a line that sets the cookie is a moment of the clock. *)
LEMMA ExpiryType ==
    ASSUME NEW i \in Instructions, NEW at \in Nat
    PROVE  /\ i.kind \in {"session", "delete", "huge", "lasting"}
           /\ i.kind = "lasting" => i.age \in Nat
           /\ Expires(i, at) \in Nat
<1>1. i.kind \in {"session", "delete", "huge", "lasting"}
  BY DEF Instructions
<1>2. i.kind = "lasting" => i.age \in Nat
  BY DEF Instructions
<1>3. ASSUME i.kind = "lasting" PROVE Expires(i, at) \in Nat
  <2>1. i.age \in Nat
    BY <1>2, <1>3
  <2>2. Expires(i, at) = at + i.age
    BY <1>3 DEF Expires
  <2> QED BY <2>1, <2>2
<1>4. ASSUME i.kind # "lasting" PROVE Expires(i, at) \in Nat
  <2>1. Expires(i, at) = at + TTL
    BY <1>4 DEF Expires
  <2>2. TTL \in Nat
    BY TrackedJarAssumption
  <2> QED BY <2>1, <2>2
<1> QED BY <1>1, <1>2, <1>3, <1>4

(* The map and the jar after a response. *)
LEMMA AfterTypes ==
    ASSUME NEW old \in Cookies, NEW is \in Seq(Instructions),
           NEW n \in 0 .. MaxSerial, NEW at \in Nat
    PROVE  TrackedAfter(old, is, n, at) \in Cookies /\ JarAfter(old, is, n, at) \in Cookies
<1>1. None \in Cookies
  BY TrackedJarAssumption DEF None, Cookies
<1>2. TrackedAfter(old, is, n, at) \in Cookies
  <2>1. CASE Setting(is) # {}
    <3>1. Expires(LastSet(is), at) \in Nat
      BY <2>1, LastSetting, ExpiryType
    <3> QED BY <2>1, <3>1 DEF TrackedAfter, Cookies
  <2>2. CASE Setting(is) = {}
    BY <1>1, <2>2 DEF TrackedAfter
  <2> QED BY <2>1, <2>2
<1>3. JarAfter(old, is, n, at) \in Cookies
  <2> DEFINE last == is[Len(is)]
  <2>1. CASE is = << >>
    BY <2>1 DEF JarAfter
  <2>2. CASE is # << >> /\ last.kind = "delete"
    BY <1>1, <2>2 DEF JarAfter
  <2>3. CASE is # << >> /\ last.kind # "delete"
    <3>1. last \in Instructions
      BY <2>3, LastLine
    <3>2. last.kind = "lasting" => at + last.age \in Nat
      <4>1. last.kind = "lasting" => last.age \in Nat
        BY <3>1, ExpiryType
      <4> HIDE DEF last
      <4> QED BY <4>1
    <3>3. Never \in Nat
      BY TrackedJarAssumption DEF Never
    <3>4. (IF last.kind = "lasting" THEN at + last.age ELSE Never) \in Nat
      BY <3>2, <3>3
    <3> QED BY <2>3, <3>4 DEF JarAfter, Cookies
  <2> QED BY <2>1, <2>2, <2>3
<1> QED BY <1>2, <1>3

(* The map takes the last setting line, or deletes, or keeps what it had; it
   keeps it only when the response does not speak of the cookie. *)
LEMMA MapAfterResponse ==
    ASSUME NEW old, NEW is \in Seq(Instructions), NEW n, NEW at,
           NEW new, new = TrackedAfter(old, is, n, at)
    PROVE  \/ /\ Setting(is) # {}
              /\ new.serial = n /\ new.expires = Expires(LastSet(is), at)
           \/ new = None
           \/ new = old /\ ~Speaks(is)
<1>1. \A i \in DOMAIN is : is[i].kind \in {"session", "delete", "huge", "lasting"}
  <2>1. \A i \in DOMAIN is : is[i] \in Instructions
    OBVIOUS
  <2> QED BY <2>1 DEF Instructions
<1>2. CASE Setting(is) # {}
  BY <1>2 DEF TrackedAfter
<1>3. CASE Setting(is) = {} /\ Deletes(is)
  BY <1>3 DEF TrackedAfter
<1>4. CASE Setting(is) = {} /\ ~Deletes(is)
  <2>1. \A i \in DOMAIN is : ~Tracks(is[i]) /\ is[i].kind # "delete"
    BY <1>4 DEF Setting, Deletes
  <2>2. ~Speaks(is)
    BY <1>1, <2>1 DEF Speaks, Tracks
  <2> QED BY <1>4, <2>2 DEF TrackedAfter
<1> QED BY <1>2, <1>3, <1>4

(* A response without a line for a cookie leaves it alone. *)
LEMMA Silent ==
    ASSUME NEW t, NEW is, is = << >>, NEW n, NEW at
    PROVE  TrackedAfter(t, is, n, at) = t
<1>1. Setting(is) = {} /\ ~Deletes(is)
  BY DEF Setting, Deletes
<1> QED BY <1>1 DEF TrackedAfter

(* What the jar has after a response with a line for the cookie does not
   depend on what it had. *)
LEMMA Overwrites ==
    ASSUME NEW is, is # << >>, NEW i, NEW j, NEW n, NEW at
    PROVE  JarAfter(i, is, n, at) = JarAfter(j, is, n, at)
BY DEF JarAfter

(* A response the two halves take alike makes them alike, whatever they had. *)
LEMMA TakenAlike ==
    ASSUME NEW t, NEW j, NEW now, NEW is \in Seq(Instructions), is # << >>, ~Diverges(is),
           NEW n \in Nat, NEW at \in Nat
    PROVE  Agree(TrackedAfter(t, is, n, at), JarAfter(j, is, n, at), now)
<1> DEFINE last == is[Len(is)]
<1>1. is # << >>
  OBVIOUS
<1>2. Agree(TrackedAfter(t, is, n, at), JarAfter(j, is, n, at), now)
  <2>1. Len(is) \in DOMAIN is /\ last \in Instructions
    BY <1>1, LastLine
  <2>2. last.kind \in {"session", "delete", "lasting"}
    BY <2>1, TrackedJarAssumption, ExpiryType DEF Diverges
  <2>3. CASE last.kind = "delete"
    <3>1. Setting(is) = {} /\ Deletes(is)
      BY <1>1, <2>1, <2>3 DEF Diverges, Deletes
    <3>2. TrackedAfter(t, is, n, at) = None /\ JarAfter(j, is, n, at) = None
      BY <1>1, <2>3, <3>1 DEF TrackedAfter, JarAfter
    <3> QED BY <3>2 DEF Agree
  <2>4. CASE last.kind # "delete"
    <3>1. Tracks(last)
      BY <2>2, <2>4 DEF Tracks
    <3>2. Setting(is) # {}
      BY <2>1, <3>1 DEF Setting
    <3>3. LastSet(is) = last
      BY <3>1, <3>2, LastSetting
    <3>4. TrackedAfter(t, is, n, at) = [serial |-> n, expires |-> Expires(last, at)]
      BY <3>2, <3>3 DEF TrackedAfter
    <3>5. JarAfter(j, is, n, at) =
            [serial |-> n, expires |-> IF last.kind = "lasting" THEN at + last.age ELSE Never]
      BY <1>1, <2>4 DEF JarAfter
    <3>6. CASE last.kind = "lasting"
      BY <3>4, <3>5, <3>6 DEF Agree, Expires
    <3>7. CASE last.kind # "lasting"
      BY <3>4, <3>5, <3>7 DEF Agree
    <3> QED BY <3>6, <3>7
  <2> QED BY <2>3, <2>4
<1> QED BY <1>2

----------------------------------------------------------------------------
(* Initially there is no cookie and no response. *)
LEMMA InitInv == Init => IInv
<1> SUFFICES ASSUME Init PROVE IInv
  OBVIOUS
<1> USE TrackedJarAssumption DEF Init
<1>1. None \in Cookies
  BY DEF None, Cookies
<1>2. /\ tracked \in [Keys -> Cookies] /\ jar \in [Keys -> Cookies]
      /\ stored \in [Keys -> Cookies]
      /\ \A k \in Keys : tracked[k] = None /\ jar[k] = None /\ stored[k] = None
  BY <1>1 DEF Nothing
<1>3. answer \in [Goroutines -> Responses] /\ \A g \in Goroutines : answer[g] = Quiet
  BY DEF Responses, Quiet
<1>4. \A g \in Goroutines : answer[g].pc = "idle" /\ answer[g].serial = 0
  BY <1>3 DEF Quiet
<1>5. said \in Seq([says : Answers, at : 0 .. MaxClock]) /\ Len(said) = 0
  OBVIOUS
<1>6. Types
  <2>1. 0 \in 0 .. MaxClock /\ 0 \in 0 .. MaxSerial /\ 0 \in 0 .. 0
    OBVIOUS
  <2>2. TypeOK
    BY <1>2, <1>4, <1>5, <2>1 DEF TypeOK
  <2> QED BY <1>3, <1>4, <1>5, <2>2 DEF Types
<1>7. LimitInv
  BY <1>2 DEF LimitInv, Within
<1>8. MapInv /\ SnapshotWhole
  BY <1>2 DEF MapInv, SnapshotWhole, None
<1>9. Agree(None, None, 0)
  BY DEF Agree, None
<1>10. JarInv
  BY <1>2, <1>4, <1>9 DEF JarInv, Newest, Pending
<1> QED BY <1>6, <1>7, <1>8, <1>10 DEF IInv

(* What a response that is under way says. *)
LEMMA UnderWay ==
    ASSUME Types, NEW g \in Goroutines, answer[g].pc # "idle"
    PROVE  /\ answer[g].says \in Answers
           /\ \A k \in Keys : answer[g].says[k] \in Seq(Instructions)
           /\ answer[g].at \in 0 .. MaxClock /\ answer[g].serial \in 0 .. MaxSerial
<1>1. answer[g].says \in Answers
  BY DEF Types, TypeOK
<1>2. answer[g].says \in [Keys -> Seq(Instructions)]
  BY <1>1, TrackedJarAssumption
<1>3. answer[g].at \in 0 .. MaxClock /\ answer[g].serial \in 0 .. MaxSerial
  BY DEF Types, Responses
<1> QED BY <1>1, <1>2, <1>3

(* Types, per step. *)
LEMMA TypesNext == Types /\ [Next]_vars => Types'
<1> SUFFICES ASSUME Types, [Next]_vars PROVE Types'
  OBVIOUS
<1> USE TrackedJarAssumption
<1>0. TypeOK
  BY DEF Types
<1>a. None \in Cookies
  BY DEF None, Cookies
<1>b. Nothing \in [Keys -> Cookies]
  BY <1>a DEF Nothing
<1>c. clock \in Nat /\ serial \in Nat /\ started \in Nat
  BY <1>0 DEF TypeOK
<1>1. ASSUME NEW g \in Goroutines, NEW a \in Answers, Receive(g, a) PROVE Types'
  <2> DEFINE new == [pc |-> "received", says |-> a, at |-> clock, serial |-> 0]
  <2>1. new \in Responses
    BY <1>0 DEF Responses, TypeOK
  <2>2. answer' = [answer EXCEPT ![g] = new]
        /\ UNCHANGED <<tracked, jar, stored, clock, serial, said, started, mixed>>
    BY <1>1 DEF Receive
  <2>3. new.pc = "received" /\ new.says = a /\ new.serial = 0
    OBVIOUS
  <2> HIDE DEF new
  <2>4. /\ answer' \in [Goroutines -> Responses]
        /\ \A h \in Goroutines : answer'[h] = IF h = g THEN new ELSE answer[h]
    BY <2>1, <2>2 DEF Types
  <2>5. 0 \in 0 .. serial
    BY <1>c
  <2>6. TypeOK'
    BY <1>0, <2>2, <2>3, <2>4, <2>5 DEF TypeOK
  <2> QED BY <2>2, <2>3, <2>4, <2>6 DEF Types
<1>2. ASSUME NEW g \in Goroutines, Track(g) PROVE Types'
  <2>1. /\ answer[g].pc = "received" /\ serial' = serial + 1 /\ serial < MaxSerial
        /\ answer' = [answer EXCEPT ![g].pc = "tracked", ![g].serial = serial + 1]
        /\ said' = Append(said, [says |-> answer[g].says, at |-> answer[g].at])
        /\ UNCHANGED <<jar, stored, clock, started>>
    BY <1>2 DEF Track
  <2>2. /\ answer[g].says \in Answers /\ answer[g].at \in 0 .. MaxClock
        /\ \A k \in Keys : answer[g].says[k] \in Seq(Instructions)
    BY <2>1, UnderWay
  <2>3. serial + 1 \in 0 .. MaxSerial /\ serial + 1 \in 0 .. serial'
    BY <1>c, <2>1
  <2>4. tracked' \in [Keys -> Cookies]
    <3>1. \A k \in Keys : MapAfter(g, k) \in Cookies
      <4> SUFFICES ASSUME NEW k \in Keys PROVE MapAfter(g, k) \in Cookies
        OBVIOUS
      <4>1. tracked[k] \in Cookies /\ answer[g].at \in Nat
        BY <1>0, <2>2 DEF TypeOK
      <4> QED BY <2>2, <2>3, <4>1, AfterTypes DEF MapAfter
    <3> QED BY <1>2, <3>1 DEF Track
  <2> DEFINE new == [answer[g] EXCEPT !.pc = "tracked", !.serial = serial + 1]
  <2>5. /\ new \in Responses /\ new.pc = "tracked" /\ new.serial = serial + 1
        /\ new.says = answer[g].says
    BY <2>3 DEF Types, Responses
  <2>6. answer' = [answer EXCEPT ![g] = new]
    BY <2>1 DEF Types
  <2> HIDE DEF new
  <2>7. /\ answer' \in [Goroutines -> Responses]
        /\ \A h \in Goroutines : answer'[h] = IF h = g THEN new ELSE answer[h]
    BY <2>5, <2>6 DEF Types
  <2>8. /\ said' \in Seq([says : Answers, at : 0 .. MaxClock])
        /\ Len(said') = serial'
    <3> DEFINE entry == [says |-> answer[g].says, at |-> answer[g].at]
    <3>1. entry \in [says : Answers, at : 0 .. MaxClock]
      BY <2>2
    <3>2. said' = Append(said, entry) /\ Len(said) = serial
      BY <1>0, <2>1 DEF TypeOK
    <3>3. said \in Seq([says : Answers, at : 0 .. MaxClock])
      BY DEF Types
    <3> HIDE DEF entry
    <3> QED BY <2>1, <3>1, <3>2, <3>3, Appended
  <2>9. mixed' \in SUBSET Keys
    BY <1>2 DEF Track
  <2>10. \A h \in Goroutines : answer'[h].serial \in 0 .. serial'
    BY <1>0, <1>c, <2>1, <2>3, <2>5, <2>7 DEF TypeOK
  <2>11. \A h \in Goroutines :
            /\ answer'[h].pc \in {"idle", "received", "tracked"}
            /\ answer'[h].pc # "idle" => answer'[h].says \in Answers
    BY <1>0, <2>2, <2>5, <2>7 DEF TypeOK
  <2>12. serial' \in 0 .. MaxSerial /\ started' \in 0 .. serial'
    BY <1>0, <1>c, <2>1, <2>3 DEF TypeOK
  <2>13. TypeOK'
    BY <1>0, <2>1, <2>4, <2>8, <2>9, <2>10, <2>11, <2>12 DEF TypeOK
  <2>14. \A h \in Goroutines : answer'[h].pc = "tracked" => answer'[h].serial > started'
    <3>1. serial + 1 > started
      BY <1>0, <1>c DEF TypeOK
    <3> QED BY <2>1, <2>5, <2>7, <3>1 DEF Types
  <2> QED BY <2>7, <2>8, <2>13, <2>14 DEF Types
<1>3. ASSUME NEW g \in Goroutines, Install(g) PROVE Types'
  <2>1. /\ answer[g].pc = "tracked"
        /\ answer' = [answer EXCEPT ![g] = Quiet]
        /\ mixed' = mixed \cup {k \in Keys : Overtakes(g, k)}
        /\ UNCHANGED <<tracked, stored, clock, serial, said, started>>
    BY <1>3 DEF Install
  <2>2. /\ \A k \in Keys : answer[g].says[k] \in Seq(Instructions)
        /\ answer[g].at \in Nat /\ answer[g].serial \in 0 .. MaxSerial
    BY <2>1, UnderWay
  <2>3. jar' \in [Keys -> Cookies]
    <3>1. ASSUME NEW k \in Keys
          PROVE JarAfter(jar[k], answer[g].says[k], answer[g].serial, answer[g].at) \in Cookies
      <4>1. jar[k] \in Cookies
        BY <1>0 DEF TypeOK
      <4> QED BY <2>2, <4>1, AfterTypes
    <3> QED BY <1>3, <3>1 DEF Install
  <2>4. Quiet \in Responses /\ Quiet.pc = "idle" /\ Quiet.serial = 0
    BY DEF Quiet, Responses
  <2>5. /\ answer' \in [Goroutines -> Responses]
        /\ \A h \in Goroutines : answer'[h] = IF h = g THEN Quiet ELSE answer[h]
    BY <2>1, <2>4 DEF Types
  <2>6. 0 \in 0 .. serial
    BY <1>c
  <2>7. mixed' \in SUBSET Keys
    BY <1>0, <2>1 DEF TypeOK
  <2>8. TypeOK'
    BY <1>0, <2>1, <2>3, <2>4, <2>5, <2>6, <2>7 DEF TypeOK
  <2> QED BY <2>1, <2>4, <2>5, <2>8 DEF Types
<1>4. CASE Save
  <2>1. tracked' \in [Keys -> Cookies] /\ stored' = tracked'
    BY <1>0, <1>a, <1>4 DEF Save, TypeOK
  <2>2. TypeOK'
    BY <1>0, <1>4, <2>1 DEF Save, TypeOK
  <2> QED BY <1>4, <2>2 DEF Save, Types
<1>5. CASE Restart
  <2>1. Quiet \in Responses /\ Quiet.pc = "idle" /\ Quiet.serial = 0
    BY DEF Quiet, Responses
  <2>2. /\ answer' \in [Goroutines -> Responses]
        /\ \A h \in Goroutines : answer'[h] = Quiet
    BY <1>5, <2>1 DEF Restart
  <2>3. 0 \in 0 .. serial /\ serial \in 0 .. serial
    BY <1>c
  <2>4. /\ tracked' = Nothing /\ jar' = Nothing /\ started' = serial /\ mixed' = {}
        /\ UNCHANGED <<stored, clock, serial, said>>
    BY <1>5 DEF Restart
  <2>5. TypeOK'
    BY <1>0, <1>b, <2>1, <2>2, <2>3, <2>4 DEF TypeOK
  <2> QED BY <2>1, <2>2, <2>4, <2>5 DEF Types
<1>6. CASE Restore
  <2>1. jar' \in [Keys -> Cookies]
    BY <1>0, <1>a, <1>6 DEF Restore, ToHTTPCookie, TypeOK
  <2>2. tracked' = stored /\ UNCHANGED <<answer, stored, clock, serial, said, started, mixed>>
    BY <1>6 DEF Restore
  <2>3. TypeOK'
    BY <1>0, <2>1, <2>2 DEF TypeOK
  <2> QED BY <2>2, <2>3 DEF Types
<1>7. CASE Tick
  <2>1. clock' \in 0 .. MaxClock
    BY <1>0, <1>7 DEF Tick, TypeOK
  <2>2. UNCHANGED <<tracked, jar, answer, stored, serial, said, started, mixed>>
    BY <1>7 DEF Tick
  <2>3. TypeOK'
    BY <1>0, <2>1, <2>2 DEF TypeOK
  <2> QED BY <2>2, <2>3 DEF Types
<1>8. CASE UNCHANGED vars
  BY <1>8 DEF vars, Types, TypeOK
<1> QED BY <1>1, <1>2, <1>3, <1>4, <1>5, <1>6, <1>7, <1>8 DEF Next

----------------------------------------------------------------------------
(* Lifetimes. *)

(* What a cookie may do stays when another response comes. *)
LEMMA KeptWithin ==
    ASSUME NEW k, NEW cookie, NEW S, NEW h \in Seq(S), NEW e \in S, Within(k, cookie, h)
    PROVE  Within(k, cookie, Append(h, e))
<1> SUFFICES ASSUME cookie # None
             PROVE  /\ cookie.serial \in 1 .. Len(Append(h, e))
                    /\ Append(h, e)[cookie.serial] = h[cookie.serial]
                    /\ cookie.expires <= Expires(LastSet(h[cookie.serial].says[k]),
                                                 h[cookie.serial].at)
  BY DEF Within
<1>1. cookie.serial \in 1 .. Len(h) /\ Len(h) \in Nat
  BY DEF Within
<1>2. Append(h, e)[cookie.serial] = h[cookie.serial] /\ Len(Append(h, e)) = Len(h) + 1
  BY <1>1, Appended
<1>3. cookie.serial \in 1 .. Len(Append(h, e))
  BY <1>1, <1>2
<1> QED BY <1>2, <1>3 DEF Within

(* What the step of Track adds to the history. *)
LEMMA OneMore ==
    ASSUME Types, NEW g \in Goroutines, Track(g)
    PROVE  /\ answer[g].says \in Answers /\ answer[g].at \in 0 .. MaxClock
           /\ \A k \in Keys : answer[g].says[k] \in Seq(Instructions)
           /\ serial \in Nat /\ serial' = serial + 1 /\ Len(said) = serial
           /\ \A n \in 1 .. serial : said'[n] = said[n]
           /\ said'[serial'].says = answer[g].says /\ said'[serial'].at = answer[g].at
           /\ Len(said') = serial'
           /\ \A k, cookie : Within(k, cookie, said) => Within(k, cookie, said')
<1> DEFINE entry == [says |-> answer[g].says, at |-> answer[g].at]
           Entries == [says : Answers, at : 0 .. MaxClock]
<1>1. /\ answer[g].pc = "received" /\ serial' = serial + 1
      /\ said' = Append(said, entry)
  BY DEF Track
<1>2. /\ answer[g].says \in Answers /\ answer[g].at \in 0 .. MaxClock
      /\ \A k \in Keys : answer[g].says[k] \in Seq(Instructions)
  BY <1>1, UnderWay
<1>3. entry \in Entries /\ entry.says = answer[g].says /\ entry.at = answer[g].at
  BY <1>2
<1>4. said \in Seq(Entries) /\ serial \in Nat /\ Len(said) = serial
  BY TrackedJarAssumption DEF Types, TypeOK
<1> HIDE DEF entry, Entries
<1>5. /\ Len(said') = serial' /\ \A n \in 1 .. serial : said'[n] = said[n]
      /\ said'[serial'] = entry
  BY <1>1, <1>3, <1>4, Appended
<1>6. \A k, cookie : Within(k, cookie, said) => Within(k, cookie, said')
  BY <1>1, <1>3, <1>4, KeptWithin
<1> QED BY <1>1, <1>2, <1>3, <1>4, <1>5, <1>6

(* What the step of Track makes of one cookie. *)
LEMMA MapStep ==
    ASSUME Types, NEW g \in Goroutines, Track(g), NEW k \in Keys
    PROVE  \/ /\ Setting(answer[g].says[k]) # {}
              /\ tracked'[k].serial = serial + 1
              /\ tracked'[k].expires = Expires(LastSet(answer[g].says[k]), answer[g].at)
           \/ tracked'[k] = None
           \/ tracked'[k] = tracked[k] /\ ~Speaks(answer[g].says[k])
<1> DEFINE is == answer[g].says[k]
           at == answer[g].at
<1>1. tracked'[k] = TrackedAfter(tracked[k], is, serial + 1, at)
  BY DEF Track, MapAfter
<1>2. is \in Seq(Instructions)
  BY OneMore
<1> DEFINE new == tracked'[k]
           old == tracked[k]
<1>3. new = TrackedAfter(old, is, serial + 1, at)
  BY <1>1
<1> HIDE DEF is, at, new, old
<1>4. \/ /\ Setting(is) # {}
         /\ new.serial = serial + 1 /\ new.expires = Expires(LastSet(is), at)
      \/ new = None
      \/ new = old /\ ~Speaks(is)
  BY <1>2, <1>3, MapAfterResponse
<1> QED BY <1>4 DEF is, at, new, old

(* A response installs cookies of its own serial. *)
LEMMA InstallsOwn ==
    ASSUME NEW old, NEW is, NEW n, NEW at
    PROVE  JarAfter(old, is, n, at) \in {old, None} \/ JarAfter(old, is, n, at).serial = n
BY DEF JarAfter

(* Lifetimes, per step. *)
LEMMA LimitNext == Types /\ LimitInv /\ [Next]_vars => LimitInv'
<1> SUFFICES ASSUME Types, LimitInv, [Next]_vars PROVE LimitInv'
  OBVIOUS
<1> USE TrackedJarAssumption
<1>0. TypeOK
  BY DEF Types
<1>a. \A k, h : Within(k, None, h)
  BY DEF Within
<1>1. ASSUME NEW g \in Goroutines, NEW a \in Answers, Receive(g, a) PROVE LimitInv'
  BY <1>1 DEF Receive, LimitInv
<1>2. ASSUME NEW g \in Goroutines, Track(g) PROVE LimitInv'
  <2>1. /\ answer[g].at \in 0 .. MaxClock
        /\ \A k \in Keys : answer[g].says[k] \in Seq(Instructions)
        /\ serial \in Nat /\ serial' = serial + 1 /\ Len(said') = serial'
        /\ said'[serial'].says = answer[g].says /\ said'[serial'].at = answer[g].at
        /\ \A k, cookie : Within(k, cookie, said) => Within(k, cookie, said')
    BY <1>2, OneMore
  <2>2. tracked' = [k \in Keys |-> MapAfter(g, k)] /\ UNCHANGED <<stored, jar, started>>
    BY <1>2 DEF Track
  <2> SUFFICES ASSUME NEW k \in Keys PROVE Within(k, tracked'[k], said')
    BY <2>1, <2>2 DEF LimitInv
  <2> DEFINE is == answer[g].says[k]
             at == answer[g].at
  <2>3. is \in Seq(Instructions)
    BY <2>1
  <2>4. \/ /\ Setting(is) # {} /\ tracked'[k].serial = serial + 1
           /\ tracked'[k].expires = Expires(LastSet(is), at)
        \/ tracked'[k] = None
        \/ tracked'[k] = tracked[k]
    BY <1>2, MapStep
  <2>5. CASE tracked'[k] = None \/ tracked'[k] = tracked[k]
    BY <1>a, <2>1, <2>5 DEF LimitInv
  <2>6. CASE /\ Setting(is) # {} /\ tracked'[k].serial = serial + 1
             /\ tracked'[k].expires = Expires(LastSet(is), at)
    <3>1. LastSet(is) \in Instructions
      BY <2>3, <2>6, LastSetting
    <3>2. Expires(LastSet(is), at) \in Nat
      <4>1. at \in Nat
        BY <2>1
      <4> HIDE DEF at, is
      <4> QED BY <3>1, <4>1, ExpiryType
    <3>3. tracked'[k].serial = serial' /\ tracked'[k].serial \in 1 .. Len(said')
      BY <2>1, <2>6
    <3>4. Expires(LastSet(said'[tracked'[k].serial].says[k]), said'[tracked'[k].serial].at)
            = tracked'[k].expires
      BY <2>1, <2>6, <3>3
    <3> QED BY <2>6, <3>2, <3>3, <3>4 DEF Within
  <2> QED BY <2>4, <2>5, <2>6
<1>3. ASSUME NEW g \in Goroutines, Install(g) PROVE LimitInv'
  <2>1. answer[g].pc = "tracked" /\ UNCHANGED <<tracked, stored, said, started>>
    BY <1>3 DEF Install
  <2>2. answer[g].serial > started /\ answer[g].serial \in Nat /\ started \in Nat
    BY <1>0, <2>1 DEF Types, TypeOK
  <2>3. \A k \in Keys : jar'[k] \in {jar[k], None} \/ jar'[k].serial = answer[g].serial
    BY <1>3, InstallsOwn DEF Install
  <2>4. ~(answer[g].serial <= started)
    BY <2>2
  <2> QED BY <1>a, <2>1, <2>3, <2>4 DEF LimitInv
<1>4. CASE Save
  <2>1. /\ \A k \in Keys : tracked'[k] \in {tracked[k], None}
        /\ stored' = tracked' /\ UNCHANGED <<jar, said, started>>
    BY <1>4 DEF Save
  <2> QED BY <1>a, <2>1 DEF LimitInv
<1>5. CASE Restart
  <2>1. /\ \A k \in Keys : tracked'[k] = None /\ jar'[k] = None
        /\ UNCHANGED <<stored, said>>
    BY <1>5 DEF Restart, Nothing
  <2> QED BY <1>a, <2>1 DEF LimitInv
<1>6. CASE Restore
  <2>1. /\ \A k \in Keys : jar'[k] \in {stored[k], None}
        /\ tracked' = stored /\ UNCHANGED <<stored, said>>
    BY <1>6 DEF Restore, ToHTTPCookie
  <2> QED BY <1>a, <2>1 DEF LimitInv
<1>7. CASE Tick
  BY <1>7 DEF Tick, LimitInv
<1>8. CASE UNCHANGED vars
  BY <1>8 DEF vars, LimitInv
<1> QED BY <1>1, <1>2, <1>3, <1>4, <1>5, <1>6, <1>7, <1>8 DEF Next

----------------------------------------------------------------------------
(* The map and the record. *)

(* No saved cookie is of a response the map has not seen. *)
LEMMA SavedSerials ==
    ASSUME Types, LimitInv, NEW j \in Keys
    PROVE  stored[j].serial \in Nat /\ stored[j].serial <= serial
<1>1. serial \in Nat /\ Len(said) = serial
  BY TrackedJarAssumption DEF Types, TypeOK
<1>2. CASE stored[j] = None
  BY <1>1, <1>2 DEF None
<1>3. CASE stored[j] # None
  <2>1. Within(j, stored[j], said)
    BY DEF LimitInv
  <2>2. stored[j].serial \in 1 .. Len(said)
    BY <1>3, <2>1 DEF Within
  <2> QED BY <1>1, <2>2
<1> QED BY <1>2, <1>3

(* The map, and the record, per step. *)
LEMMA WholeNext ==
    Types /\ LimitInv /\ MapInv /\ SnapshotWhole /\ [Next]_vars
        => MapInv' /\ SnapshotWhole'
<1> SUFFICES ASSUME Types, LimitInv, MapInv, SnapshotWhole, [Next]_vars
             PROVE  MapInv' /\ SnapshotWhole'
  OBVIOUS
<1> USE TrackedJarAssumption
<1>0. serial \in Nat /\ started \in Nat
  BY DEF Types, TypeOK
<1>a. \A j \in Keys : stored[j].serial \in Nat /\ stored[j].serial <= serial
  BY SavedSerials
<1>b. ASSUME UNCHANGED <<tracked, stored, said, serial, started>>
      PROVE  MapInv' /\ SnapshotWhole'
  <2>1. MapInv'
    BY <1>b DEF MapInv
  <2>2. SnapshotWhole'
    BY <1>b DEF SnapshotWhole
  <2> QED BY <2>1, <2>2
<1>1. ASSUME NEW g \in Goroutines, NEW a \in Answers, Receive(g, a)
      PROVE  MapInv' /\ SnapshotWhole'
  BY <1>b, <1>1 DEF Receive
<1>2. ASSUME NEW g \in Goroutines, Track(g) PROVE MapInv' /\ SnapshotWhole'
  <2>1. /\ \A k \in Keys : answer[g].says[k] \in Seq(Instructions)
        /\ serial' = serial + 1 /\ said'[serial'].says = answer[g].says
        /\ \A n \in 1 .. serial : said'[n] = said[n]
    BY <1>2, OneMore
  <2>2. tracked' = [k \in Keys |-> MapAfter(g, k)] /\ UNCHANGED <<stored, started>>
    BY <1>2 DEF Track
  <2>3. ASSUME NEW k \in Keys, NEW n \in started + 1 .. serial',
               tracked'[k] # None, Speaks(said'[n].says[k])
        PROVE  tracked'[k].serial >= n
    <3>1. n \in Nat /\ n <= serial + 1
      BY <1>0, <2>1
    <3>2. \/ tracked'[k].serial = serial + 1
          \/ tracked'[k] = None
          \/ tracked'[k] = tracked[k] /\ ~Speaks(answer[g].says[k])
      BY <1>2, MapStep
    <3>3. CASE tracked'[k].serial = serial + 1
      BY <1>0, <3>1, <3>3
    <3>4. CASE tracked'[k] = tracked[k] /\ ~Speaks(answer[g].says[k])
      <4>1. n # serial'
        BY <2>1, <2>3, <3>4
      <4>2. n \in started + 1 .. serial /\ n \in 1 .. serial
        BY <1>0, <2>1, <3>1, <4>1
      <4>3. said'[n] = said[n]
        BY <2>1, <4>2
      <4> QED BY <2>3, <3>4, <4>2, <4>3 DEF MapInv
    <3> QED BY <2>3, <3>2, <3>3, <3>4
  <2>4. MapInv'
    BY <2>2, <2>3 DEF MapInv
  <2>5. ASSUME NEW j \in Keys, NEW n \in started + 1 .. stored[j].serial
        PROVE  said'[n] = said[n]
    <3>1. n \in 1 .. serial
      BY <1>0, <1>a
    <3> QED BY <2>1, <3>1
  <2>6. SnapshotWhole'
    BY <2>2, <2>5 DEF SnapshotWhole
  <2> QED BY <2>4, <2>6
<1>3. ASSUME NEW g \in Goroutines, Install(g) PROVE MapInv' /\ SnapshotWhole'
  BY <1>b, <1>3 DEF Install
<1>4. CASE Save
  <2>1. /\ \A k \in Keys : tracked'[k] \in {tracked[k], None}
        /\ stored' = tracked' /\ UNCHANGED <<said, serial, started>>
    BY <1>4 DEF Save
  <2>2. MapInv'
    BY <2>1 DEF MapInv
  <2>3. ASSUME NEW j \in Keys, NEW n \in started + 1 .. stored'[j].serial
        PROVE  n \in started + 1 .. serial
    <3>1. tracked[j].serial \in Nat /\ tracked[j].serial <= serial
      <4>1. CASE tracked[j] = None
        BY <1>0, <4>1 DEF None
      <4>2. CASE tracked[j] # None
        <5>1. tracked[j].serial \in 1 .. Len(said) /\ Len(said) = serial
          BY <4>2 DEF LimitInv, Within, Types, TypeOK
        <5> QED BY <1>0, <5>1
      <4> QED BY <4>1, <4>2
    <3>2. stored'[j].serial \in Nat /\ stored'[j].serial <= serial
      BY <1>0, <2>1, <3>1 DEF None
    <3> QED BY <1>0, <3>2
  <2>4. SnapshotWhole'
    BY <2>1, <2>2, <2>3 DEF MapInv, SnapshotWhole, Speaks
  <2> QED BY <2>2, <2>4
<1>5. CASE Restart
  <2>1. /\ \A k \in Keys : tracked'[k] = None
        /\ started' = serial /\ UNCHANGED <<stored, said, serial>>
    BY <1>5 DEF Restart, Nothing
  <2>2. MapInv'
    BY <2>1 DEF MapInv
  <2>3. ASSUME NEW j \in Keys, NEW n \in started' + 1 .. stored'[j].serial PROVE FALSE
    <3>1. stored[j].serial \in Nat /\ stored[j].serial <= serial
      BY <1>a
    <3>2. n \in serial + 1 .. stored[j].serial
      BY <2>1, <2>3
    <3> QED BY <1>0, <3>1, <3>2
  <2>4. SnapshotWhole'
    BY <2>3 DEF SnapshotWhole
  <2> QED BY <2>2, <2>4
<1>6. CASE Restore
  <2>1. serial = started /\ UNCHANGED <<stored, said, serial, started>>
    BY <1>6 DEF Restore
  <2>2. \A n \in started' + 1 .. serial' : FALSE
    BY <1>0, <2>1
  <2>3. MapInv'
    BY <2>2 DEF MapInv
  <2>4. SnapshotWhole'
    BY <2>1 DEF SnapshotWhole
  <2> QED BY <2>3, <2>4
<1>7. CASE Tick
  BY <1>b, <1>7 DEF Tick
<1>8. CASE UNCHANGED vars
  BY <1>b, <1>8 DEF vars
<1> QED BY <1>1, <1>2, <1>3, <1>4, <1>5, <1>6, <1>7, <1>8 DEF Next

----------------------------------------------------------------------------
(* The map and the jar. *)

(* Two cookies that agree go on doing so as time passes, and when the map
   drops one whose lifetime has ended. *)
LEMMA AgreeLater ==
    ASSUME NEW t \in Cookies, NEW j \in Cookies, NEW now \in Nat, Agree(t, j, now)
    PROVE  /\ Agree(t, j, now + 1)
           /\ ~(t.expires > now) => Agree(None, j, now)
<1>1. j.expires \in Nat
  BY DEF Cookies
<1>2. j.expires > now + 1 => j.expires > now
  BY <1>1
<1>3. Agree(t, j, now + 1)
  BY <1>2 DEF Agree
<1>4. ASSUME ~(t.expires > now) PROVE Agree(None, j, now)
  BY <1>4 DEF Agree
<1> QED BY <1>3, <1>4

(* While the responses under way and the jar stay, and every cookie goes on
   agreeing with what it agreed with, so do the map and the jar. *)
LEMMA JarStays ==
    ASSUME Types, JarInv, UNCHANGED <<jar, mixed>>,
           \A g \in Goroutines : answer'[g].pc = "tracked" \/ answer[g].pc = "tracked"
                                    => answer'[g] = answer[g],
           \A k \in Keys : \A j \in Cookies :
                Agree(tracked[k], j, clock) => Agree(tracked'[k], j, clock')
    PROVE  JarInv'
<1>1. \A k : Pending(k)' = Pending(k)
  BY DEF Pending
<1>2. ASSUME NEW k \in Keys \ mixed, Pending(k) = {}
      PROVE  Agree(tracked'[k], jar[k], clock')
  <2>1. jar[k] \in Cookies
    BY DEF Types, TypeOK
  <2> QED BY <1>2, <2>1 DEF JarInv
<1>3. ASSUME NEW k \in Keys \ mixed, NEW g \in Goroutines, Newest(g, k)'
      PROVE  Agree(tracked'[k], Installed(g, k)', clock')
  <2>1. Newest(g, k) /\ answer'[g] = answer[g] /\ answer[g].pc = "tracked"
    BY <1>1, <1>3 DEF Newest, Pending
  <2>2. /\ answer[g].says[k] \in Seq(Instructions) /\ answer[g].at \in Nat
        /\ answer[g].serial \in 0 .. MaxSerial /\ jar[k] \in Cookies
    BY <2>1, UnderWay, TrackedJarAssumption DEF Types, TypeOK
  <2>3. Installed(g, k) \in Cookies
    BY <2>2, AfterTypes DEF Installed
  <2>4. Agree(tracked[k], Installed(g, k), clock)
    BY <2>1 DEF JarInv
  <2>5. Installed(g, k)' = Installed(g, k)
    BY <2>1 DEF Installed
  <2> QED BY <2>3, <2>4, <2>5
<1> QED BY <1>1, <1>2, <1>3 DEF JarInv

(* A response reaches the map: it is the newest about its cookies. *)
LEMMA TrackJar ==
    ASSUME Types, JarInv, NEW g \in Goroutines, Track(g)
    PROVE  JarInv'
<1> USE TrackedJarAssumption
<1>0. /\ answer \in [Goroutines -> Responses] /\ clock \in Nat /\ serial \in Nat
      /\ \A h \in Goroutines : answer[h].serial \in 0 .. serial
  BY DEF Types, TypeOK
<1>1. /\ answer[g].pc = "received"
      /\ tracked' = [k \in Keys |-> MapAfter(g, k)]
      /\ answer' = [answer EXCEPT ![g].pc = "tracked", ![g].serial = serial + 1]
      /\ mixed' = {k \in Keys : IF answer[g].says[k] = << >> THEN k \in mixed
                                ELSE Diverges(answer[g].says[k])}
      /\ UNCHANGED <<jar, clock>>
  BY DEF Track
<1>2. /\ answer'[g].pc = "tracked" /\ answer'[g].serial = serial + 1
      /\ answer'[g].says = answer[g].says /\ answer'[g].at = answer[g].at
      /\ \A h \in Goroutines : h # g => answer'[h] = answer[h]
  BY <1>0, <1>1 DEF Responses
<1>3. \A k \in Keys : answer[g].says[k] \in Seq(Instructions)
  BY OneMore
<1>4. answer[g].at \in Nat /\ serial + 1 \in Nat
  BY <1>0, OneMore
<1> SUFFICES ASSUME NEW k \in Keys, k \notin mixed'
             PROVE  /\ Pending(k)' = {} => Agree(tracked'[k], jar[k], clock)
                    /\ \A h \in Goroutines : Newest(h, k)' =>
                            Agree(tracked'[k], Installed(h, k)', clock)
  BY <1>1 DEF JarInv
<1>5. CASE answer[g].says[k] = << >>
  <2>1. Pending(k)' = Pending(k) /\ g \notin Pending(k)
    BY <1>1, <1>2, <1>5 DEF Pending
  <2>2. tracked'[k] = tracked[k] /\ k \notin mixed
    BY <1>1, <1>5, Silent DEF MapAfter
  <2>3. ASSUME NEW h \in Goroutines, Newest(h, k)'
        PROVE  Agree(tracked'[k], Installed(h, k)', clock)
    <3>1. h # g /\ answer'[h] = answer[h]
      BY <1>2, <2>1, <2>3 DEF Newest
    <3>2. \A i \in Pending(k) : answer'[i] = answer[i]
      BY <1>2, <2>1 DEF Pending
    <3>3. Newest(h, k)
      BY <2>1, <2>3, <3>1, <3>2 DEF Newest
    <3>4. Installed(h, k)' = Installed(h, k)
      BY <1>1, <3>1 DEF Installed
    <3> QED BY <2>2, <3>3, <3>4 DEF JarInv
  <2> QED BY <2>1, <2>2, <2>3 DEF JarInv
<1>6. CASE answer[g].says[k] # << >>
  <2>1. g \in Pending(k)'
    BY <1>2, <1>6 DEF Pending
  <2>2. ~Diverges(answer[g].says[k])
    BY <1>1, <1>6
  <2>3. ASSUME NEW h \in Goroutines, Newest(h, k)' PROVE h = g
    <3>1. answer'[g].serial <= answer'[h].serial
      BY <2>1, <2>3 DEF Newest
    <3>2. h # g => answer'[h].serial \in 0 .. serial
      BY <1>0, <1>2
    <3> QED BY <1>0, <1>2, <3>1, <3>2
  <2>4. Agree(TrackedAfter(tracked[k], answer[g].says[k], serial + 1, answer[g].at),
              JarAfter(jar[k], answer[g].says[k], serial + 1, answer[g].at), clock)
    BY <1>3, <1>4, <1>6, <2>2, TakenAlike
  <2>5. Installed(g, k)' =
            JarAfter(jar[k], answer[g].says[k], serial + 1, answer[g].at)
    BY <1>1, <1>2 DEF Installed
  <2>6. Agree(tracked'[k], Installed(g, k)', clock)
    BY <1>1, <2>4, <2>5 DEF MapAfter
  <2> QED BY <2>1, <2>3, <2>6
<1> QED BY <1>5, <1>6

(* A response reaches the jar: if it passes no older one about the cookie, it
   is the newest, or a newer one is to come, which will overwrite it. *)
LEMMA InstallJar ==
    ASSUME Types, JarInv, NEW g \in Goroutines, Install(g)
    PROVE  JarInv'
<1>0. /\ answer \in [Goroutines -> Responses]
      /\ \A h \in Goroutines : answer[h].serial \in Nat
  BY TrackedJarAssumption DEF Types, Responses
<1>1. /\ answer[g].pc = "tracked"
      /\ jar' = [k \in Keys |-> Installed(g, k)]
      /\ answer' = [answer EXCEPT ![g] = Quiet]
      /\ mixed' = mixed \cup {k \in Keys : Overtakes(g, k)}
      /\ UNCHANGED <<tracked, clock>>
  BY DEF Install, Installed
<1>2. \A h \in Goroutines : answer'[h] = IF h = g THEN Quiet ELSE answer[h]
  BY <1>0, <1>1
<1> SUFFICES ASSUME NEW k \in Keys, k \notin mixed, ~Overtakes(g, k)
             PROVE  /\ Pending(k)' = {} => Agree(tracked[k], jar'[k], clock)
                    /\ \A h \in Goroutines : Newest(h, k)' =>
                            Agree(tracked[k], Installed(h, k)', clock)
  BY <1>1 DEF JarInv
<1>3. Pending(k)' = Pending(k) \ {g}
  BY <1>2 DEF Pending, Quiet
<1>4. jar'[k] = Installed(g, k)
  BY <1>1
<1>5. ASSUME Pending(k)' = {} PROVE Agree(tracked[k], jar'[k], clock)
  <2>1. CASE g \in Pending(k)
    <3>1. \A h \in Pending(k) : h = g
      BY <1>3, <1>5
    <3>2. answer[g].serial <= answer[g].serial
      BY <1>0
    <3>3. Newest(g, k)
      BY <2>1, <3>1, <3>2 DEF Newest
    <3> QED BY <1>4, <3>3 DEF JarInv
  <2>2. CASE g \notin Pending(k)
    <3>1. jar'[k] = jar[k]
      BY <1>1, <1>4, <2>2 DEF Pending, Installed, JarAfter
    <3>2. Pending(k) = {}
      BY <1>3, <1>5, <2>2
    <3> QED BY <3>1, <3>2 DEF JarInv
  <2> QED BY <2>1, <2>2
<1>6. ASSUME NEW h \in Goroutines, Newest(h, k)'
      PROVE  Agree(tracked[k], Installed(h, k)', clock)
  <2>1. h \in Pending(k) /\ h # g
    BY <1>3, <1>6 DEF Newest
  <2>2. answer'[h] = answer[h] /\ answer[h].says[k] # << >>
    BY <1>2, <2>1 DEF Pending
  <2>3. \A i \in Pending(k) \ {g} : answer[i].serial <= answer[h].serial
    BY <1>2, <1>3, <1>6, <2>2 DEF Newest, Pending
  <2>4. g \in Pending(k) => answer[g].serial <= answer[h].serial
    BY <1>0, <2>1 DEF Overtakes
  <2>5. Newest(h, k)
    BY <2>1, <2>3, <2>4 DEF Newest
  <2>6. Installed(h, k)' = Installed(h, k)
    BY <2>2, Overwrites DEF Installed
  <2> QED BY <2>5, <2>6 DEF JarInv
<1> QED BY <1>5, <1>6

(* The map and the jar, per step. *)
LEMMA JarNext == Types /\ JarInv /\ [Next]_vars => JarInv'
<1> SUFFICES ASSUME Types, JarInv, [Next]_vars PROVE JarInv'
  OBVIOUS
<1> USE TrackedJarAssumption
<1>0. /\ tracked \in [Keys -> Cookies] /\ jar \in [Keys -> Cookies]
      /\ answer \in [Goroutines -> Responses] /\ clock \in Nat
  BY DEF Types, TypeOK
<1>1. ASSUME NEW g \in Goroutines, NEW a \in Answers, Receive(g, a) PROVE JarInv'
  <2>1. /\ answer[g].pc = "idle"
        /\ answer' = [answer EXCEPT ![g] =
                [pc |-> "received", says |-> a, at |-> clock, serial |-> 0]]
        /\ UNCHANGED <<tracked, jar, clock, mixed>>
    BY <1>1 DEF Receive
  <2>2. \A h \in Goroutines : answer'[h].pc = "tracked" \/ answer[h].pc = "tracked"
                                => answer'[h] = answer[h]
    BY <1>0, <2>1
  <2> QED BY <2>1, <2>2, JarStays
<1>2. CASE Save
  <2>1. /\ tracked' = [k \in Keys |-> IF Alive(tracked[k]) THEN tracked[k] ELSE None]
        /\ UNCHANGED <<jar, answer, clock, mixed>>
    BY <1>2 DEF Save
  <2>2. ASSUME NEW k \in Keys, NEW j \in Cookies, Agree(tracked[k], j, clock)
        PROVE  Agree(tracked'[k], j, clock')
    <3>1. tracked[k] \in Cookies
      BY <1>0
    <3>2. CASE Alive(tracked[k])
      BY <2>1, <2>2, <3>2
    <3>3. CASE ~Alive(tracked[k])
      <4>1. Agree(None, j, clock)
        BY <1>0, <2>2, <3>1, <3>3, AgreeLater DEF Alive
      <4> QED BY <2>1, <3>3, <4>1
    <3> QED BY <3>2, <3>3
  <2> QED BY <2>1, <2>2, JarStays
<1>3. CASE Restart
  <2>1. \A k \in Keys : tracked'[k] = None /\ jar'[k] = None
    BY <1>3 DEF Restart, Nothing
  <2>2. \A k : Pending(k)' = {}
    BY <1>3 DEF Restart, Pending, Quiet
  <2>3. Agree(None, None, clock')
    BY <1>0, <1>3 DEF Restart, Agree, None
  <2> QED BY <2>1, <2>2, <2>3 DEF JarInv, Newest
<1>4. CASE Restore
  <2>1. \A k \in Keys : jar'[k] = tracked'[k]
    BY <1>4 DEF Restore, ToHTTPCookie
  <2>2. \A k : Pending(k)' = {}
    BY <1>4 DEF Restore, Pending, Quiet
  <2>3. \A cookie, now : Agree(cookie, cookie, now)
    BY DEF Agree
  <2> QED BY <2>1, <2>2, <2>3 DEF JarInv, Newest
<1>5. CASE Tick
  <2>1. clock' = clock + 1 /\ UNCHANGED <<tracked, jar, answer, mixed>>
    BY <1>5 DEF Tick
  <2>2. \A k \in Keys : \A j \in Cookies :
            Agree(tracked[k], j, clock) => Agree(tracked'[k], j, clock')
    BY <1>0, <2>1, AgreeLater
  <2> QED BY <2>1, <2>2, JarStays
<1>6. CASE UNCHANGED vars
  BY <1>6, JarStays DEF vars
<1> QED BY <1>1, <1>2, <1>3, <1>4, <1>5, <1>6, TrackJar, InstallJar DEF Next

(* The inductive invariant holds in every state. *)
LEMMA Invariance == Spec => []IInv
<1>1. Init => IInv
  BY InitInv
<1>2. IInv /\ [Next]_vars => IInv'
  BY TypesNext, LimitNext, WholeNext, JarNext DEF IInv
<1> QED BY <1>1, <1>2, PTL DEF Spec

----------------------------------------------------------------------------
(* Types: whatever is kept of a cookie ends at a moment of the clock (Session
   cookies are kept with the local bound, newSessionCookie). *)
THEOREM TypeCorrectness == Spec => []TypeOK
<1>1. IInv => TypeOK
  BY DEF IInv, Types
<1> QED BY <1>1, Invariance, PTL

(* However many restarts a record goes through, no cookie is saved, and none
   that was restored is sent, for longer than the response that set it allowed
   (PersistentCookies and ToHTTPCookie). *)
THEOREM LifetimesKept == Spec => []LifetimeKept
<1>1. IInv => LifetimeKept
  BY DEF IInv, LimitInv, Within, LifetimeKept, Limit
<1> QED BY <1>1, Invariance, PTL

(* A saved record is the map after some whole response: SetCookies holds the
   mutex for all the cookies of one. *)
THEOREM RecordsAreWhole == Spec => []SnapshotWhole
<1>1. IInv => SnapshotWhole
  BY DEF IInv
<1> QED BY <1>1, Invariance, PTL

(* What is saved of a cookie is what is sent, unless its last response is one
   the map and the wrapped jar take differently, or was handled in parallel
   with one it overtook between the two (SetCookies and PersistentCookies). *)
THEOREM SavedCookiesAreSent == Spec => []SavedIsSent
<1>1. IInv => SavedIsSent
  <2> SUFFICES ASSUME IInv, NEW k \in Keys \ mixed, Pending(k) = {}
               PROVE  /\ Alive(tracked[k]) => /\ jar[k].serial = tracked[k].serial
                                              /\ Alive(jar[k])
                      /\ Alive(jar[k]) /\ jar[k].expires # Never => tracked[k] = jar[k]
    BY DEF SavedIsSent
  <2>1. Agree(tracked[k], jar[k], clock)
    BY DEF IInv, JarInv
  <2>2. Never > clock /\ clock \in Nat
    BY TrackedJarAssumption DEF IInv, Types, TypeOK, Never
  <2>3. ~Alive(None)
    BY <2>2 DEF Alive, None
  <2> QED BY <2>1, <2>2, <2>3 DEF Agree, Alive
<1> QED BY <1>1, Invariance, PTL

=============================================================================
