------------------------- MODULE SharedSessionProofs -------------------------
(***************************************************************************)
(* What holds of SharedSession for any number of processes, any delays and *)
(* any bounds: types, the lock file around a login and the saves after it, *)
(* generations as names of sessions, and from these that a login or an     *)
(* invalidation never meets a session that still works.                    *)
(***************************************************************************)
EXTENDS SharedSession, TLAPS

(* From the login to the save that follows it a process has the lock file.
   The generation it works for is beyond the one in the store, and once it
   has won a session, the server granted it. *)
Working == {"login", "sleep", "limited", "save"}

LockInv ==
    \A p \in Processes :
        /\ client[p].pc \in Working =>
            flock = p /\ client[p].gotGeneration > entry.generation
        /\ client[p].pc = "save" => client[p].gotSession \in 1 .. issued

(* What is known of a session under a generation: as a client's own, as what
   recover() returned, or as what the store has the cookies of. *)
Knows(x, g, s) ==
    \/ x.generation = g /\ x.session = s
    \/ x.pc = "publish" /\ x.gotGeneration = g /\ x.gotSession = s

Names(p, g, s) == Knows(client[p], g, s)

Filed(g, s) ==
    entry.cookies # "none" /\ entry.generation = g /\ entry.session = s

(* Every client names sessions the server granted, by generations that the
   store has reached; one generation names one session. *)
NameInv ==
    /\ \A p \in Processes, g, s \in Nat : g # 0 /\ Names(p, g, s) =>
            g <= entry.generation /\ s \in 1 .. issued
    /\ \A p, q \in Processes, g, s, t \in Nat :
            g # 0 /\ Names(p, g, s) /\ Names(q, g, t) => s = t
    /\ \A p \in Processes, g, s, t \in Nat :
            g # 0 /\ Names(p, g, s) /\ Filed(g, t) => s = t

FiledInv ==
    entry.cookies # "none" => entry.generation # 0 /\ entry.session \in 1 .. issued

(* A client recovers, or gives a session up, only with one that is lost. *)
LostInv ==
    \A p \in Processes :
        /\ client[p].pc \in {"up", "recover", "note"} => client[p].generation # 0
        /\ client[p].pc = "publish" => client[p].gotGeneration # 0
        /\ client[p].pc \in {"recover", "note"} => client[p].session \notin alive

(* The server's last deadline has passed, or is in the marker, or with the
   process that was told. *)
Told(p) == client[p].pc \in {"sleep", "limited"}

PromiseInv ==
    /\ \A p \in Processes : Told(p) => promised <= client[p].deadline
    /\ promised <= now \/ promised <= marker \/ \E p \in Processes : Told(p)

(* The inductive invariant. *)
IInv ==
    /\ TypeOK /\ LockInv /\ NameInv /\ FiledInv /\ LostInv /\ PromiseInv
    /\ LoginOnlyWithoutSession

(* The fields of a client. *)
Record == [pc : PCs, generation : Nat, session : Nat, deadline : Nat,
           recovered : BOOLEAN, work : {"none", "init", "recover"},
           gotGeneration : Nat, gotSession : Nat]

----------------------------------------------------------------------------
(* Initially nobody has, holds or expects anything. *)
LEMMA InitInv == Init => IInv
<1> SUFFICES ASSUME Init PROVE IInv
  OBVIOUS
<1> USE SharedSessionAssumption DEF Init
<1>1. \A p \in Processes : client[p] = Off
  OBVIOUS
<1>2. Off \in Record /\ Off.pc = "off" /\ Off.generation = 0
  BY DEF Off, Record, PCs
<1>3. TypeOK
  <2>1. client \in [Processes -> Record]
    BY <1>2
  <2>2. entry \in [generation : Nat, session : Nat, retry : Nat,
                   cookies : {"none", "live", "expired"}]
    BY DEF NoEntry
  <2> QED BY <1>1, <1>2, <2>1, <2>2 DEF TypeOK, Record
<1>4. LockInv /\ LostInv /\ LoginOnlyWithoutSession
  BY <1>1, <1>2 DEF LockInv, LostInv, LoginOnlyWithoutSession, Working
<1>5. NameInv
  <2>1. \A p \in Processes, g, s \in Nat : g # 0 => ~Names(p, g, s)
    BY <1>1, <1>2 DEF Names, Knows
  <2> QED BY <2>1 DEF NameInv
<1>6. FiledInv /\ PromiseInv
  BY <1>1, <1>2 DEF FiledInv, PromiseInv, Told, NoEntry
<1> QED BY <1>3, <1>4, <1>5, <1>6 DEF IInv

(* Names stay unique while clients only learn what the store has on file. *)
LEMMA NamesStay ==
    ASSUME TypeOK, NameInv, FiledInv, issued' \in Nat, issued' >= issued,
           entry'.generation = entry.generation,
           \A g, s \in Nat : Filed(g, s)' => Filed(g, s),
           \A q \in Processes, g, s \in Nat :
                g # 0 /\ Names(q, g, s)' => Names(q, g, s) \/ Filed(g, s)
    PROVE  NameInv'
<1>1. ASSUME NEW g \in Nat, NEW s \in Nat, Filed(g, s)
      PROVE  g <= entry.generation /\ s \in 1 .. issued
  BY <1>1 DEF Filed, FiledInv, TypeOK
<1>2. \A g, s, t \in Nat : Filed(g, s) /\ Filed(g, t) => s = t
  BY DEF Filed
<1>3. 1 .. issued \subseteq 1 .. issued'
  BY DEF TypeOK
<1>4. ASSUME NEW p \in Processes, NEW g \in Nat, NEW s \in Nat, g # 0, Names(p, g, s)'
      PROVE  g <= entry'.generation /\ s \in 1 .. issued'
  BY <1>1, <1>3, <1>4 DEF NameInv
<1>5. ASSUME NEW p \in Processes, NEW q \in Processes, NEW g \in Nat, NEW s \in Nat,
             NEW t \in Nat, g # 0, Names(p, g, s)', Names(q, g, t)'
      PROVE  s = t
  <2>1. Names(p, g, s) \/ Filed(g, s)
    BY <1>5
  <2>2. Names(q, g, t) \/ Filed(g, t)
    BY <1>5
  <2> QED BY <1>2, <1>5, <2>1, <2>2 DEF NameInv
<1>6. ASSUME NEW p \in Processes, NEW g \in Nat, NEW s \in Nat, NEW t \in Nat,
             g # 0, Names(p, g, s)', Filed(g, t)'
      PROVE  s = t
  <2>1. Names(p, g, s) \/ Filed(g, s)
    BY <1>6
  <2>2. Filed(g, t)
    BY <1>6
  <2> QED BY <1>2, <1>6, <2>1, <2>2 DEF NameInv
<1> QED BY <1>4, <1>5, <1>6 DEF NameInv

(* One client moves on, and takes, keeps or gives up the lock file; the store
   keeps its entry and the server its sessions. *)
LEMMA MoveStep ==
    ASSUME IInv, NEW p \in Processes, NEW new \in Record,
           client' = [client EXCEPT ![p] = new],
           UNCHANGED <<now, entry, issued, alive>>,
           \/ flock' = flock
           \/ flock = NoProcess /\ flock' = p
           \/ flock = p /\ flock' = NoProcess,
           new.pc \in Working => flock' = p /\ new.gotGeneration > entry.generation,
           new.pc # "save",
           \A g, s \in Nat : g # 0 /\ Knows(new, g, s) => Names(p, g, s) \/ Filed(g, s),
           new.pc \in {"up", "recover", "note"} => new.generation # 0,
           new.pc = "publish" => new.gotGeneration # 0,
           new.pc \in {"recover", "note"} => new.session \notin alive,
           new.pc \in {"login", "sleep"} => ~Usable,
           marker' \in Nat, promised' \in Nat, PromiseInv'
    PROVE  IInv'
<1> USE SharedSessionAssumption
<1>0. /\ TypeOK /\ LockInv /\ NameInv /\ FiledInv /\ LostInv
      /\ LoginOnlyWithoutSession
  BY DEF IInv
<1>1. \A q \in Processes : client'[q] = IF q = p THEN new ELSE client[q]
  BY <1>0 DEF TypeOK
<1>2. NameInv'
  <2>1. \A q \in Processes, g, s \in Nat :
            g # 0 /\ Names(q, g, s)' => Names(q, g, s) \/ Filed(g, s)
    BY <1>1 DEF Names
  <2>2. \A g, s \in Nat : Filed(g, s)' => Filed(g, s)
    BY DEF Filed
  <2>3. issued' \in Nat /\ issued' >= issued
    BY <1>0 DEF TypeOK
  <2> QED BY <1>0, <2>1, <2>2, <2>3, NamesStay
<1>3. client' \in [Processes -> Record]
  BY <1>0 DEF TypeOK, Record
<1>4. \A q \in Processes : client'[q].pc = "up" =>
            client'[q].generation # 0 /\ client'[q].session \in 1 .. issued'
  <2> SUFFICES ASSUME NEW q \in Processes, client'[q].pc = "up"
               PROVE  client'[q].generation # 0 /\ client'[q].session \in 1 .. issued'
    OBVIOUS
  <2>1. client'[q].generation \in Nat /\ client'[q].session \in Nat
    BY <1>3 DEF Record
  <2>2. client'[q].generation # 0
    BY <1>0, <1>1 DEF LostInv
  <2>3. Names(q, client[q].generation, client[q].session)'
    BY DEF Names, Knows
  <2> QED BY <1>2, <2>1, <2>2, <2>3 DEF NameInv
<1>5. TypeOK'
  BY <1>0, <1>3, <1>4 DEF TypeOK, Record
<1>6. LockInv'
  BY <1>0, <1>1 DEF LockInv
<1>7. FiledInv' /\ LostInv'
  BY <1>0, <1>1 DEF FiledInv, LostInv
<1>8. LoginOnlyWithoutSession'
  BY <1>0, <1>1 DEF LoginOnlyWithoutSession, Usable
<1> QED BY <1>2, <1>5, <1>6, <1>7, <1>8 DEF IInv

(* A step of a client that was told no deadline, while nobody is told one. *)
LEMMA PromiseStays ==
    ASSUME TypeOK, PromiseInv, NEW p \in Processes, NEW new,
           client' = [client EXCEPT ![p] = new],
           client[p].pc \notin {"sleep", "limited"}, new.pc \notin {"sleep", "limited"},
           UNCHANGED <<now, marker, promised>>
    PROVE  PromiseInv'
<1>1. \A q \in Processes : client'[q] = IF q = p THEN new ELSE client[q]
  BY DEF TypeOK
<1>2. \A q \in Processes : Told(q)' <=> Told(q) /\ q # p
  BY <1>1 DEF Told
<1>3. \A q \in Processes : Told(q) => q # p
  BY DEF Told
<1> QED BY <1>1, <1>2, <1>3 DEF PromiseInv

(* A client rests with a session or without a client. *)
LEMMA RestingPC ==
    ASSUME TypeOK, NEW p \in Processes
    PROVE  Resting(p).pc \in {"off", "up"}
<1>1. CASE client[p].generation = 0
  BY <1>1 DEF Resting, TypeOK
<1>2. CASE client[p].generation # 0
  BY <1>2 DEF Resting, TypeOK
<1> QED BY <1>1, <1>2

(* A client goes back to where it rests, with what it had before. *)
LEMMA RestStep ==
    ASSUME IInv, NEW p \in Processes, Rests(p),
           UNCHANGED <<now, entry, issued, alive>>,
           flock' = flock \/ (flock = p /\ flock' = NoProcess),
           marker' \in Nat, promised' \in Nat, PromiseInv'
    PROVE  IInv'
<1> DEFINE new == Resting(p)
<1>1. client[p] \in Record
  BY DEF IInv, TypeOK, Record
<1>2. /\ new \in Record
      /\ new.pc = IF client[p].generation = 0 THEN "off" ELSE "up"
      /\ new.generation = client[p].generation /\ new.session = client[p].session
  <2>1. CASE client[p].generation = 0
    BY <1>1, <2>1 DEF Resting, Record, PCs
  <2>2. CASE client[p].generation # 0
    BY <1>1, <2>2 DEF Resting, Record, PCs
  <2> QED BY <2>1, <2>2
<1>3. client' = [client EXCEPT ![p] = new]
  BY DEF Rests
<1> HIDE DEF new
<1>4. /\ new.pc \in {"off", "up"} /\ new.pc \notin Working
      /\ new.pc = "up" => new.generation # 0
  BY <1>2 DEF Working
<1>5. \A g, s \in Nat : Knows(new, g, s) => Names(p, g, s)
  BY <1>2, <1>4 DEF Knows, Names
<1> QED BY <1>2, <1>3, <1>4, <1>5, MoveStep

(* What makes a client work, and what it does before a login. *)
LEMMA NewStep == ASSUME IInv, NEW p \in Processes, New(p) PROVE IInv'
<1> DEFINE new == [client[p] EXCEPT !.pc = "init"]
<1>1. client[p] \in Record /\ TypeOK /\ PromiseInv
  BY DEF IInv, TypeOK, Record
<1>2. /\ new \in Record /\ new.pc = "init"
      /\ new.generation = client[p].generation /\ new.session = client[p].session
  BY <1>1 DEF Record, PCs
<1>3. client' = [client EXCEPT ![p] = new]
  BY <1>1 DEF New, GoesTo, TypeOK
<1> HIDE DEF new
<1>4. PromiseInv' /\ marker' \in Nat /\ promised' \in Nat
  BY <1>1, <1>2, <1>3, PromiseStays DEF New, TypeOK
<1>5. \A g, s \in Nat : Knows(new, g, s) => Names(p, g, s)
  BY <1>2 DEF Knows, Names
<1> QED BY <1>2, <1>3, <1>4, <1>5, MoveStep DEF New, Working

(* Only a client that is up, with a session that is lost, sets out. *)
LEMMA SessionLostStep ==
    ASSUME IInv, NEW p \in Processes, NEW work \in {"recover", "note"},
           SessionLost(p, work)
    PROVE  IInv'
<1> DEFINE new == [client[p] EXCEPT !.pc = work, !.deadline = now + Cooldown]
<1>1. client[p] \in Record /\ TypeOK /\ PromiseInv /\ LostInv
  BY DEF IInv, TypeOK, Record
<1>2. /\ new \in Record /\ new.pc = work
      /\ new.generation = client[p].generation /\ new.session = client[p].session
  <2>1. now + Cooldown \in Nat
    BY <1>1, SharedSessionAssumption DEF TypeOK
  <2>2. work \in PCs
    BY DEF PCs
  <2> QED BY <1>1, <2>1, <2>2 DEF Record
<1>3. client' = [client EXCEPT ![p] = new]
  BY <1>1 DEF SessionLost, TypeOK
<1> HIDE DEF new
<1>4. PromiseInv' /\ marker' \in Nat /\ promised' \in Nat
  <2>1. client[p].pc = "up" /\ UNCHANGED <<now, marker, promised>>
    BY DEF SessionLost
  <2>2. new.pc \notin {"sleep", "limited"}
    BY <1>2
  <2> QED BY <1>1, <1>3, <2>1, <2>2, PromiseStays DEF TypeOK
<1>5. \A g, s \in Nat : Knows(new, g, s) => Names(p, g, s)
  BY <1>2 DEF Knows, Names
<1>6. new.generation # 0 /\ new.session \notin alive
  BY <1>1, <1>2 DEF SessionLost, LostInv
<1> QED BY <1>2, <1>3, <1>4, <1>5, <1>6, MoveStep DEF SessionLost, Working

(* The lock file changes hands before anything is read or written. *)
LEMMA LockAccountStep ==
    ASSUME IInv, NEW p \in Processes, LockAccount(p) PROVE IInv'
<1> DEFINE new == client[p]
<1>1. new \in Record /\ TypeOK /\ PromiseInv /\ LostInv
  BY DEF IInv, TypeOK, Record
<1>2. client' = [client EXCEPT ![p] = new]
  BY <1>1 DEF LockAccount, TypeOK
<1>3. PromiseInv' /\ marker' \in Nat /\ promised' \in Nat
  BY <1>1, <1>2, PromiseStays DEF LockAccount, TypeOK
<1>4. \A g, s \in Nat : Knows(new, g, s) => Names(p, g, s)
  BY DEF Names
<1>5. new.pc \in {"init", "recover", "note"}
  BY DEF LockAccount
<1>6. /\ new.pc \in {"recover", "note"} => new.generation # 0 /\ new.session \notin alive
      /\ new.pc \notin Working /\ new.pc \notin {"up", "publish"}
  BY <1>1, <1>5 DEF LostInv, Working
<1>7. /\ flock = NoProcess /\ flock' = p
      /\ UNCHANGED <<now, entry, issued, alive>>
  BY DEF LockAccount, LockFree
<1> HIDE DEF new
<1> QED BY <1>1, <1>2, <1>3, <1>4, <1>5, <1>6, <1>7, MoveStep DEF Working

(* The ways back without a session, while nothing is told of a deadline. *)
LEMMA QuietReturns ==
    ASSUME IInv, NEW p \in Processes,
           GivesUp(p) \/ Refused(p) \/ LoginFails(p) \/ MarkSkipped(p)
    PROVE  IInv'
<1>1. TypeOK /\ PromiseInv /\ LockInv
  BY DEF IInv
<1>2. Rests(p) /\ UNCHANGED <<now, entry, marker, issued, alive, promised>>
  BY DEF GivesUp, Refused, LoginFails, MarkSkipped
<1>3. flock' = flock \/ (flock = p /\ flock' = NoProcess)
  <2>1. CASE GivesUp(p)
    BY <2>1 DEF GivesUp
  <2>2. CASE Refused(p) \/ MarkSkipped(p)
    BY <2>2 DEF Refused, MustLogin, MarkSkipped, Locked, Unlocks
  <2>3. CASE LoginFails(p)
    BY <1>1, <2>3 DEF LoginFails, Unlocks, LockInv, Working
  <2> QED BY <2>1, <2>2, <2>3
<1>4. client[p].pc \notin {"sleep", "limited"}
  BY DEF GivesUp, Refused, MustLogin, Locked, LoginFails, MarkSkipped
<1>5. PromiseInv'
  BY <1>1, <1>2, <1>4, PromiseStays, RestingPC DEF Rests
<1> QED BY <1>1, <1>2, <1>3, <1>5, RestStep DEF TypeOK

(* The store's session, known by the generation of a client or a newer one. *)
LEMMA AdoptStep ==
    ASSUME IInv, NEW p \in Processes,
           InitAdopts(p) \/ RecoverAdopts(p) \/ Publish(p)
    PROVE  IInv'
<1>1. client[p] \in Record /\ TypeOK /\ PromiseInv /\ LostInv /\ FiledInv
  BY DEF IInv, TypeOK, Record
<1>2. client[p].pc \notin {"sleep", "limited"} /\ UNCHANGED <<now, marker, promised>>
  BY DEF InitAdopts, RecoverAdopts, Publish, Locked
<1>3. marker' \in Nat /\ promised' \in Nat
  BY <1>1, <1>2 DEF TypeOK
<1>4. CASE InitAdopts(p)
  <2> DEFINE new == [Off EXCEPT !.pc = "up", !.generation = entry.generation,
                                !.session = entry.session]
  <2>1. /\ new \in Record /\ new.pc = "up"
        /\ new.generation = entry.generation /\ new.session = entry.session
    BY <1>1 DEF Off, Record, PCs, TypeOK
  <2>2. client' = [client EXCEPT ![p] = new]
    BY <1>4 DEF InitAdopts
  <2> HIDE DEF new
  <2>3. \A g, s \in Nat : Knows(new, g, s) => Filed(g, s)
    BY <1>4, <2>1 DEF InitAdopts, Knows, Filed
  <2>4. new.generation # 0
    BY <1>1, <1>4, <2>1 DEF InitAdopts, FiledInv
  <2>5. PromiseInv'
    BY <1>1, <1>2, <2>1, <2>2, PromiseStays
  <2>6. flock = p /\ flock' = NoProcess /\ UNCHANGED <<now, entry, issued, alive>>
    BY <1>4 DEF InitAdopts, Locked, Unlocks
  <2> QED BY <1>3, <2>1, <2>2, <2>3, <2>4, <2>5, <2>6, MoveStep DEF Working
<1>5. CASE RecoverAdopts(p)
  <2> DEFINE new == [client[p] EXCEPT !.pc = "publish",
                        !.gotGeneration = entry.generation, !.gotSession = entry.session]
  <2>1. /\ new \in Record /\ new.pc = "publish"
        /\ new.generation = client[p].generation /\ new.session = client[p].session
        /\ new.gotGeneration = entry.generation /\ new.gotSession = entry.session
    BY <1>1 DEF Record, PCs, TypeOK
  <2>2. client' = [client EXCEPT ![p] = new]
    BY <1>1, <1>5 DEF RecoverAdopts, TypeOK
  <2> HIDE DEF new
  <2>3. \A g, s \in Nat : Knows(new, g, s) => Names(p, g, s) \/ Filed(g, s)
    BY <1>5, <2>1 DEF RecoverAdopts, CanAdopt, Knows, Names, Filed
  <2>4. new.gotGeneration # 0
    BY <1>1, <1>5, <2>1 DEF RecoverAdopts, CanAdopt, FiledInv
  <2>5. PromiseInv'
    BY <1>1, <1>2, <2>1, <2>2, PromiseStays
  <2>6. flock = p /\ flock' = NoProcess /\ UNCHANGED <<now, entry, issued, alive>>
    BY <1>5 DEF RecoverAdopts, Locked, Unlocks
  <2> QED BY <1>3, <2>1, <2>2, <2>3, <2>4, <2>5, <2>6, MoveStep DEF Working
<1>6. CASE Publish(p)
  <2> DEFINE new == [Off EXCEPT !.pc = "up", !.generation = client[p].gotGeneration,
                        !.session = client[p].gotSession, !.recovered = TRUE]
  <2>1. /\ new \in Record /\ new.pc = "up"
        /\ new.generation = client[p].gotGeneration
        /\ new.session = client[p].gotSession
    BY <1>1 DEF Off, Record, PCs
  <2>2. client' = [client EXCEPT ![p] = new]
    BY <1>6 DEF Publish
  <2> HIDE DEF new
  <2>3. \A g, s \in Nat : Knows(new, g, s) => Names(p, g, s)
    BY <1>6, <2>1 DEF Publish, Knows, Names
  <2>4. new.generation # 0
    BY <1>1, <1>6, <2>1 DEF Publish, LostInv
  <2>5. PromiseInv'
    BY <1>1, <1>2, <2>1, <2>2, PromiseStays
  <2>6. flock' = flock /\ UNCHANGED <<now, entry, issued, alive>>
    BY <1>6 DEF Publish
  <2> QED BY <1>3, <2>1, <2>2, <2>3, <2>4, <2>5, <2>6, MoveStep DEF Working
<1> QED BY <1>4, <1>5, <1>6

(* A client that cannot adopt the store's session has lost that very one. *)
LEMMA NothingToAdopt ==
    ASSUME IInv, NEW p \in Processes, MustLogin(p) PROVE ~Usable
<1>1. CASE Locked(p, "init") /\ ~Usable
  BY <1>1
<1>2. CASE Locked(p, "recover") /\ ~CanAdopt(p)
  <2> SUFFICES ASSUME Usable PROVE FALSE
    OBVIOUS
  <2> DEFINE g == client[p].generation
             s == client[p].session
  <2>1. TypeOK /\ NameInv /\ LostInv
    BY DEF IInv
  <2>2. g \in Nat /\ s \in Nat /\ entry.generation \in Nat /\ entry.session \in Nat
    BY <2>1 DEF TypeOK
  <2>3. g # 0 /\ s \notin alive
    BY <1>2, <2>1 DEF Locked, LostInv
  <2>4. Names(p, g, s)
    BY DEF Names, Knows
  <2>5. g <= entry.generation
    BY <2>1, <2>2, <2>3, <2>4 DEF NameInv
  <2>6. g = entry.generation
    BY <1>2, <2>2, <2>5 DEF CanAdopt, Usable
  <2>7. Filed(g, entry.session)
    BY <2>6 DEF Filed, Usable
  <2>8. s = entry.session
    BY <2>1, <2>2, <2>3, <2>4, <2>7 DEF NameInv
  <2> QED BY <2>3, <2>8 DEF Usable
<1> QED BY <1>1, <1>2 DEF MustLogin

(* The login is for a generation later than the one in the store. *)
LEMMA StartsLoginStep ==
    ASSUME IInv, NEW p \in Processes, StartsLogin(p) PROVE IInv'
<1> DEFINE new == [client[p] EXCEPT !.work = client[p].pc, !.pc = "login",
                        !.deadline = 0, !.gotGeneration = NextGeneration(p)]
<1>1. client[p] \in Record /\ TypeOK /\ PromiseInv
  BY DEF IInv, TypeOK, Record
<1>2. flock = p /\ client[p].pc \in {"init", "recover"}
  BY DEF StartsLogin, MustLogin, Locked
<1>3. NextGeneration(p) \in Nat /\ NextGeneration(p) > entry.generation
  BY <1>1 DEF NextGeneration, MaxOf, TypeOK
<1>4. /\ new \in Record /\ new.pc = "login" /\ new.gotGeneration > entry.generation
      /\ new.generation = client[p].generation /\ new.session = client[p].session
  BY <1>1, <1>2, <1>3 DEF Record, PCs
<1>5. client' = [client EXCEPT ![p] = new]
  BY <1>1 DEF StartsLogin, TypeOK
<1> HIDE DEF new
<1>6. ~Usable
  BY NothingToAdopt DEF StartsLogin
<1>7. PromiseInv' /\ marker' \in Nat /\ promised' \in Nat
  BY <1>1, <1>2, <1>5, PromiseStays DEF StartsLogin, TypeOK
<1>8. \A g, s \in Nat : Knows(new, g, s) => Names(p, g, s)
  BY <1>4 DEF Knows, Names
<1>9. UNCHANGED <<now, flock, entry, issued, alive>>
  BY DEF StartsLogin
<1> QED BY <1>2, <1>4, <1>5, <1>6, <1>7, <1>8, <1>9, MoveStep DEF Working

(* Whoever works has the lock file, alone. *)
LEMMA Alone ==
    ASSUME LockInv, NEW p \in Processes, client[p].pc \in Working,
           NEW q \in Processes, q # p
    PROVE  client[q].pc \notin Working
BY DEF LockInv

(* The server names a deadline: whoever works has the lock file, alone. *)
LEMMA LimitedStep ==
    ASSUME IInv, NEW p \in Processes, NEW d \in Delays, LoginLimited(p, d)
    PROVE  IInv'
<1>1. client[p] \in Record /\ TypeOK /\ LockInv /\ LoginOnlyWithoutSession
  BY DEF IInv, TypeOK, Record
<1>2. PICK pc \in {"sleep", "limited"} :
            client' = [client EXCEPT ![p].pc = pc, ![p].deadline = now + d]
  BY DEF LoginLimited
<1> DEFINE new == [client[p] EXCEPT !.pc = pc, !.deadline = now + d]
<1>3. now + d \in Nat
  BY <1>1, SharedSessionAssumption DEF TypeOK
<1>4. /\ new \in Record /\ new.pc = pc /\ new.deadline = now + d
      /\ new.generation = client[p].generation /\ new.session = client[p].session
      /\ new.gotGeneration = client[p].gotGeneration
  BY <1>1, <1>3 DEF Record, PCs
<1>5. client' = [client EXCEPT ![p] = new]
  BY <1>1, <1>2 DEF TypeOK
<1> HIDE DEF new
<1>6. marker' \in Nat /\ promised' = now + d /\ client[p].pc = "login"
      /\ UNCHANGED <<now, flock, entry, issued, alive>>
  BY <1>1 DEF LoginLimited, TypeOK
<1>7. client'[p] = new
  BY <1>1, <1>5 DEF TypeOK
<1>8. \A q \in Processes : Told(q)' <=> q = p
  <2>1. \A q \in Processes : q # p => client'[q] = client[q]
    BY <1>1, <1>5 DEF TypeOK
  <2>2. \A q \in Processes : q # p => ~Told(q)
    BY <1>1, <1>6, Alone DEF Told, Working
  <2> QED BY <1>2, <1>4, <1>7, <2>1, <2>2 DEF Told
<1>9. PromiseInv'
  BY <1>3, <1>4, <1>6, <1>7, <1>8 DEF PromiseInv
<1>10. flock = p /\ new.gotGeneration > entry.generation /\ ~Usable
  BY <1>1, <1>4, <1>6 DEF LockInv, Working, LoginOnlyWithoutSession, Usable
<1>11. \A g, s \in Nat : Knows(new, g, s) => Names(p, g, s)
  BY <1>2, <1>4 DEF Knows, Names
<1>12. promised' \in Nat
  BY <1>3, <1>6
<1> QED BY <1>2, <1>4, <1>5, <1>6, <1>9, <1>10, <1>11, <1>12, MoveStep

(* After a sleep the deadline it was for has passed, or is still to be saved. *)
LEMMA SleepReturnsStep ==
    ASSUME IInv, NEW p \in Processes, SleepReturns(p) PROVE IInv'
<1> DEFINE new == [client[p] EXCEPT
                !.pc = IF now >= client[p].deadline THEN "login" ELSE "limited"]
<1>1. client[p] \in Record /\ TypeOK /\ LockInv /\ LoginOnlyWithoutSession /\ PromiseInv
  BY DEF IInv, TypeOK, Record
<1>2. /\ new \in Record /\ new.deadline = client[p].deadline
      /\ new.pc = IF now >= client[p].deadline THEN "login" ELSE "limited"
      /\ new.generation = client[p].generation /\ new.session = client[p].session
      /\ new.gotGeneration = client[p].gotGeneration
  <2>1. CASE now >= client[p].deadline
    BY <1>1, <2>1 DEF Record, PCs
  <2>2. CASE ~(now >= client[p].deadline)
    BY <1>1, <2>2 DEF Record, PCs
  <2> QED BY <2>1, <2>2
<1>3. client' = [client EXCEPT ![p] = new]
  BY <1>1 DEF SleepReturns, TypeOK
<1> HIDE DEF new
<1>4. client[p].pc = "sleep"
      /\ UNCHANGED <<now, flock, entry, marker, issued, alive, promised>>
  BY DEF SleepReturns
<1>5. \A q \in Processes : client'[q] = IF q = p THEN new ELSE client[q]
  BY <1>1, <1>3 DEF TypeOK
<1>6. PromiseInv'
  <2>1. \A q \in Processes : q # p => ~Told(q)
    BY <1>1, <1>4, Alone DEF Told, Working
  <2>2. promised <= client[p].deadline
    BY <1>1, <1>4 DEF PromiseInv, Told
  <2>3. CASE now >= client[p].deadline
    <3>1. now \in Nat /\ promised \in Nat /\ client[p].deadline \in Nat
      BY <1>1 DEF TypeOK, Record
    <3>2. promised' <= now'
      BY <1>4, <2>2, <2>3, <3>1
    <3>3. \A q \in Processes : ~Told(q)'
      BY <1>2, <1>5, <2>1, <2>3 DEF Told
    <3> QED BY <3>2, <3>3 DEF PromiseInv
  <2>4. CASE ~(now >= client[p].deadline)
    <3>1. \A q \in Processes : Told(q)' <=> q = p
      BY <1>2, <1>5, <2>1, <2>4 DEF Told
    <3> QED BY <1>2, <1>4, <1>5, <2>2, <3>1 DEF PromiseInv
  <2> QED BY <2>3, <2>4
<1>7. flock = p /\ new.gotGeneration > entry.generation /\ ~Usable
  BY <1>1, <1>2, <1>4 DEF LockInv, Working, LoginOnlyWithoutSession, Usable
<1>8. new.pc \in {"login", "limited"}
  BY <1>2
<1>9. \A g, s \in Nat : Knows(new, g, s) => Names(p, g, s)
  BY <1>2, <1>8 DEF Knows, Names
<1>10. marker' \in Nat /\ promised' \in Nat
  BY <1>1, <1>4 DEF TypeOK
<1> QED BY <1>2, <1>3, <1>4, <1>6, <1>7, <1>8, <1>9, <1>10, MoveStep

(* The deadline goes to the marker, or is lost. *)
LEMMA SaveRateLimitStep ==
    ASSUME IInv, NEW p \in Processes, SaveRateLimit(p) \/ SaveRateLimitFails(p)
    PROVE  IInv'
<1>1. client[p] \in Record /\ TypeOK /\ LockInv /\ PromiseInv
  BY DEF IInv, TypeOK, Record
<1>2. /\ client[p].pc = "limited" /\ Rests(p) /\ flock' = NoProcess
      /\ UNCHANGED <<now, entry, issued, alive>>
  BY DEF SaveRateLimit, SaveRateLimitFails, Unlocks
<1>3. flock = p
  BY <1>1, <1>2 DEF LockInv, Working
<1>4. /\ now \in Nat /\ marker \in Nat /\ promised \in Nat
      /\ client[p].deadline \in Nat
  BY <1>1 DEF TypeOK, Record
<1>t. \A q \in Processes : ~Told(q)'
  <2>1. \A q \in Processes : client'[q] = IF q = p THEN Resting(p) ELSE client[q]
    BY <1>1, <1>2 DEF Rests, TypeOK
  <2>2. \A q \in Processes : q # p => ~Told(q)
    BY <1>1, <1>2, Alone DEF Told, Working
  <2> QED BY <1>1, <2>1, <2>2, RestingPC DEF Told
<1>5. CASE SaveRateLimitFails(p)
  <2>1. marker' \in Nat /\ promised' = 0
    BY <1>4, <1>5 DEF SaveRateLimitFails
  <2>2. PromiseInv'
    BY <1>2, <1>4, <1>t, <2>1 DEF PromiseInv
  <2> QED BY <1>2, <1>3, <2>1, <2>2, RestStep
<1>6. CASE SaveRateLimit(p)
  <2>1. promised' = promised
    BY <1>6 DEF SaveRateLimit
  <2>2. marker' = IF now < client[p].deadline THEN MaxOf(marker, client[p].deadline)
                                              ELSE marker
    BY <1>6 DEF SaveRateLimit, Deadline
  <2>3. /\ marker' \in Nat /\ marker' >= marker
        /\ client[p].deadline <= now \/ client[p].deadline <= marker'
    BY <1>4, <2>2 DEF MaxOf
  <2>5. promised <= client[p].deadline
    BY <1>1, <1>2 DEF PromiseInv, Told
  <2>6. promised <= now \/ promised <= marker'
    BY <1>4, <2>3, <2>5
  <2>7. PromiseInv'
    BY <1>2, <1>t, <2>1, <2>6 DEF PromiseInv
  <2> QED BY <1>2, <1>3, <1>4, <2>1, <2>3, <2>7, RestStep
<1> QED BY <1>5, <1>6

(* The server grants a session that no client and no entry names. *)
LEMMA LoginOKStep == ASSUME IInv, NEW p \in Processes, LoginOK(p) PROVE IInv'
<1> DEFINE new == [client[p] EXCEPT !.pc = "save", !.gotSession = issued']
<1>1. /\ client[p] \in Record /\ TypeOK /\ LockInv /\ NameInv /\ FiledInv /\ LostInv
      /\ LoginOnlyWithoutSession
  BY DEF IInv, TypeOK, Record
<1>2. /\ client[p].pc = "login" /\ issued' = issued + 1
      /\ alive' = alive \cup {issued + 1} /\ promised' = 0
      /\ UNCHANGED <<now, flock, entry, marker>>
  BY DEF LoginOK
<1>3. /\ issued \in Nat /\ issued' \in Nat /\ issued' >= issued
      /\ 1 .. issued \subseteq 1 .. issued' /\ issued' \in 1 .. issued'
      /\ issued + 1 \notin 1 .. issued
  BY <1>1, <1>2 DEF TypeOK
<1>4. /\ new \in Record /\ new.pc = "save" /\ new.gotSession = issued'
      /\ new.generation = client[p].generation /\ new.session = client[p].session
      /\ new.gotGeneration = client[p].gotGeneration
  BY <1>1, <1>3 DEF Record, PCs
<1>5. client' = [client EXCEPT ![p] = new]
  BY <1>1 DEF LoginOK, TypeOK
<1> HIDE DEF new
<1>6. \A q \in Processes : client'[q] = IF q = p THEN new ELSE client[q]
  BY <1>1, <1>5 DEF TypeOK
<1>7. NameInv'
  <2>1. \A q \in Processes, g, s \in Nat : Names(q, g, s)' => Names(q, g, s)
    BY <1>4, <1>6 DEF Names, Knows
  <2>2. \A g, s \in Nat : Filed(g, s)' => Filed(g, s)
    BY <1>2 DEF Filed
  <2> QED BY <1>1, <1>2, <1>3, <2>1, <2>2, NamesStay
<1>8. TypeOK'
  <2>1. client' \in [Processes -> Record]
    BY <1>1, <1>4, <1>5 DEF TypeOK, Record
  <2>2. alive' \subseteq 1 .. issued'
    BY <1>1, <1>2, <1>3 DEF TypeOK
  <2>3. \A q \in Processes : client'[q].pc = "up" =>
            client'[q].generation # 0 /\ client'[q].session \in 1 .. issued'
    BY <1>1, <1>3, <1>4, <1>6 DEF TypeOK
  <2> QED BY <1>1, <1>2, <1>3, <2>1, <2>2, <2>3 DEF TypeOK, Record
<1>9. \A q \in Processes : q # p => client[q].pc \notin Working
  BY <1>1, <1>2, Alone DEF Working
<1>10. LockInv'
  BY <1>1, <1>2, <1>3, <1>4, <1>6, <1>9 DEF LockInv, Working
<1>11. FiledInv' /\ PromiseInv'
  <2>1. 0 <= now
    BY <1>1 DEF TypeOK
  <2>2. \A q \in Processes : ~Told(q)'
    BY <1>4, <1>6, <1>9 DEF Told, Working
  <2> QED BY <1>1, <1>2, <1>3, <2>1, <2>2 DEF FiledInv, PromiseInv
<1>12. LostInv'
  <2>1. ASSUME NEW q \in Processes, client[q].generation # 0
        PROVE  client[q].session # issued + 1
    <3>1. client[q].generation \in Nat /\ client[q].session \in Nat
      BY <1>1 DEF TypeOK
    <3>2. Names(q, client[q].generation, client[q].session)
      BY DEF Names, Knows
    <3> QED BY <1>1, <1>3, <2>1, <3>1, <3>2 DEF NameInv
  <2> QED BY <1>1, <1>2, <1>4, <1>6, <2>1 DEF LostInv
<1>13. LoginOnlyWithoutSession'
  BY <1>4, <1>6, <1>9 DEF LoginOnlyWithoutSession, Working
<1> QED BY <1>7, <1>8, <1>10, <1>11, <1>12, <1>13 DEF IInv

(* The session that was won takes the entry, under a generation that is new to
   everyone, and its winner publishes it or drops it. *)
LEMMA EntryStep ==
    ASSUME IInv, NEW p \in Processes, NEW new \in Record, client[p].pc = "save",
           client' = [client EXCEPT ![p] = new], entry' = SavedEntry(p),
           flock' = NoProcess, UNCHANGED <<now, marker, issued, alive, promised>>,
           new.pc \in {"off", "up", "publish"},
           new.pc = "up" => new.generation # 0,
           new.pc = "publish" => new.gotGeneration # 0,
           \A g, s \in Nat : g # 0 /\ Knows(new, g, s) =>
                \/ Names(p, g, s)
                \/ g = client[p].gotGeneration /\ s = client[p].gotSession
    PROVE  IInv'
<1> USE SharedSessionAssumption
<1> DEFINE gen == client[p].gotGeneration
           ses == client[p].gotSession
<1>1. TypeOK /\ LockInv /\ NameInv /\ FiledInv /\ LostInv /\ PromiseInv
  BY DEF IInv
<1>2. \A q \in Processes : client'[q] = IF q = p THEN new ELSE client[q]
  BY <1>1 DEF TypeOK
<1>3. /\ gen \in Nat /\ ses \in Nat /\ entry.generation \in Nat
      /\ gen > entry.generation /\ gen # 0 /\ ses \in 1 .. issued
  BY <1>1 DEF TypeOK, LockInv, Working
<1>4. /\ entry'.generation = gen /\ entry'.session = ses /\ entry'.cookies = "live"
      /\ entry' \in [generation : Nat, session : Nat, retry : Nat,
                     cookies : {"none", "live", "expired"}]
  BY <1>3 DEF SavedEntry
<1> HIDE DEF gen, ses
<1>5. \A q \in Processes, g, s \in Nat : g # 0 /\ Names(q, g, s)' =>
            Names(q, g, s) \/ (g = gen /\ s = ses)
  BY <1>2 DEF Names, gen, ses
<1>6. \A q \in Processes, g, s \in Nat : g # 0 /\ Names(q, g, s) => g # gen
  BY <1>1, <1>3 DEF NameInv
<1>7. NameInv'
  <2>1. ASSUME NEW q \in Processes, NEW g \in Nat, NEW s \in Nat, g # 0, Names(q, g, s)'
        PROVE  g <= entry'.generation /\ s \in 1 .. issued'
    <3>1. Names(q, g, s) \/ (g = gen /\ s = ses)
      BY <1>5, <2>1
    <3> QED BY <1>1, <1>3, <1>4, <2>1, <3>1 DEF NameInv
  <2>2. ASSUME NEW q \in Processes, NEW r \in Processes, NEW g \in Nat, NEW s \in Nat,
               NEW t \in Nat, g # 0, Names(q, g, s)', Names(r, g, t)'
        PROVE  s = t
    <3>1. Names(q, g, s) \/ (g = gen /\ s = ses)
      BY <1>5, <2>2
    <3>2. Names(r, g, t) \/ (g = gen /\ t = ses)
      BY <1>5, <2>2
    <3> QED BY <1>1, <1>6, <2>2, <3>1, <3>2 DEF NameInv
  <2>3. ASSUME NEW q \in Processes, NEW g \in Nat, NEW s \in Nat, NEW t \in Nat,
               g # 0, Names(q, g, s)', Filed(g, t)'
        PROVE  s = t
    <3>1. g = gen /\ t = ses
      BY <1>4, <2>3 DEF Filed
    <3> QED BY <1>5, <1>6, <2>3, <3>1
  <2> QED BY <2>1, <2>2, <2>3 DEF NameInv
<1>8. client' \in [Processes -> Record]
  BY <1>1 DEF TypeOK, Record
<1>9. \A q \in Processes : client'[q].pc = "up" =>
            client'[q].generation # 0 /\ client'[q].session \in 1 .. issued'
  <2> SUFFICES ASSUME NEW q \in Processes, client'[q].pc = "up"
               PROVE  client'[q].generation # 0 /\ client'[q].session \in 1 .. issued'
    OBVIOUS
  <2>1. client'[q].generation \in Nat /\ client'[q].session \in Nat
    BY <1>8 DEF Record
  <2>2. client'[q].generation # 0
    BY <1>1, <1>2 DEF LostInv
  <2>3. Names(q, client[q].generation, client[q].session)'
    BY DEF Names, Knows
  <2> QED BY <1>7, <2>1, <2>2, <2>3 DEF NameInv
<1>10. TypeOK'
  BY <1>1, <1>4, <1>8, <1>9 DEF TypeOK, Record
<1>11. \A q \in Processes : client'[q].pc \notin Working
  BY <1>1, <1>2, Alone DEF Working
<1>12. LockInv' /\ LoginOnlyWithoutSession'
  BY <1>11 DEF LockInv, LoginOnlyWithoutSession, Working
<1>13. FiledInv' /\ LostInv'
  BY <1>1, <1>2, <1>3, <1>4 DEF FiledInv, LostInv
<1>14. PromiseInv'
  BY <1>1, PromiseStays
<1> QED BY <1>7, <1>10, <1>12, <1>13, <1>14 DEF IInv

(* The ways out of a save, with the entry replaced or not. *)
LEMMA SaveStep ==
    ASSUME IInv, NEW p \in Processes, SaveRecord(p) \/ SaveFails(p) PROVE IInv'
<1>1. client[p] \in Record /\ TypeOK /\ LockInv /\ PromiseInv /\ LostInv
  BY DEF IInv, TypeOK, Record
<1>2. /\ client[p].pc = "save" /\ flock' = NoProcess
      /\ UNCHANGED <<now, marker, issued, alive, promised>>
  BY DEF SaveRecord, SaveFails, Unlocks
<1>3. flock = p /\ client[p].gotGeneration # 0
  BY <1>1, <1>2 DEF LockInv, Working, TypeOK
<1>4. CASE SaveFails(p) /\ entry' = entry
  <2>1. Rests(p)
    BY <1>4 DEF SaveFails
  <2>2. PromiseInv'
    BY <1>1, <1>2, <2>1, PromiseStays, RestingPC DEF Rests
  <2> QED BY <1>1, <1>2, <1>3, <1>4, <2>1, <2>2, RestStep DEF TypeOK
<1>5. CASE SaveFails(p) /\ entry' = SavedEntry(p)
  <2> DEFINE new == Resting(p)
  <2>1. /\ new \in Record
        /\ new.pc = IF client[p].generation = 0 THEN "off" ELSE "up"
        /\ new.generation = client[p].generation /\ new.session = client[p].session
    <3>1. CASE client[p].generation = 0
      BY <1>1, <3>1 DEF Resting, Record, PCs
    <3>2. CASE client[p].generation # 0
      BY <1>1, <3>2 DEF Resting, Record, PCs
    <3> QED BY <3>1, <3>2
  <2>2. client' = [client EXCEPT ![p] = new]
    BY <1>5 DEF SaveFails, Rests
  <2> HIDE DEF new
  <2>3. \A g, s \in Nat : Knows(new, g, s) => Names(p, g, s)
    BY <2>1 DEF Knows, Names
  <2> QED BY <1>2, <1>5, <2>1, <2>2, <2>3, EntryStep
<1>6. CASE SaveRecord(p) /\ client[p].work = "init"
  <2> DEFINE new == [Off EXCEPT !.pc = "up", !.generation = client[p].gotGeneration,
                                !.session = client[p].gotSession]
  <2>1. /\ new \in Record /\ new.pc = "up"
        /\ new.generation = client[p].gotGeneration
        /\ new.session = client[p].gotSession
    BY <1>1 DEF Off, Record, PCs
  <2>2. client' = [client EXCEPT ![p] = new] /\ entry' = SavedEntry(p)
    BY <1>6 DEF SaveRecord, Won
  <2> HIDE DEF new
  <2>3. \A g, s \in Nat : Knows(new, g, s) =>
            g = client[p].gotGeneration /\ s = client[p].gotSession
    BY <2>1 DEF Knows
  <2> QED BY <1>2, <1>3, <2>1, <2>2, <2>3, EntryStep
<1>7. CASE SaveRecord(p) /\ client[p].work # "init"
  <2> DEFINE new == [client[p] EXCEPT !.pc = "publish", !.work = "none"]
  <2>1. /\ new \in Record /\ new.pc = "publish"
        /\ new.generation = client[p].generation /\ new.session = client[p].session
        /\ new.gotGeneration = client[p].gotGeneration
        /\ new.gotSession = client[p].gotSession
    BY <1>1 DEF Record, PCs
  <2>2. client' = [client EXCEPT ![p] = new] /\ entry' = SavedEntry(p)
    BY <1>7 DEF SaveRecord, Won
  <2> HIDE DEF new
  <2>3. \A g, s \in Nat : Knows(new, g, s) => Names(p, g, s) \/
            (g = client[p].gotGeneration /\ s = client[p].gotSession)
    BY <2>1 DEF Knows, Names
  <2> QED BY <1>2, <1>3, <2>1, <2>2, <2>3, EntryStep
<1> QED BY <1>4, <1>5, <1>6, <1>7 DEF SaveFails

(* A record that is marked keeps its generation and loses its session. *)
LEMMA MarksStep == ASSUME IInv, NEW p \in Processes, MarksIneffective(p) PROVE IInv'
<1> DEFINE new == Resting(p)
<1>1. /\ client[p] \in Record /\ TypeOK /\ LockInv /\ NameInv /\ FiledInv /\ LostInv
      /\ PromiseInv
  BY DEF IInv, TypeOK, Record
<1>2. /\ client[p].pc = "note" /\ flock = p /\ flock' = NoProcess /\ Rests(p)
      /\ UNCHANGED <<now, marker, issued, alive, promised>>
  BY DEF MarksIneffective, Locked, Unlocks
<1>3. PromiseInv'
  BY <1>1, <1>2, PromiseStays, RestingPC DEF Rests
<1>4. CASE entry' = entry
  BY <1>1, <1>2, <1>3, <1>4, RestStep DEF TypeOK
<1>5. CASE entry' = Invalidated(p)
  <2>1. /\ new \in Record
        /\ new.pc = IF client[p].generation = 0 THEN "off" ELSE "up"
        /\ new.generation = client[p].generation /\ new.session = client[p].session
    <3>1. CASE client[p].generation = 0
      BY <1>1, <3>1 DEF Resting, Record, PCs
    <3>2. CASE client[p].generation # 0
      BY <1>1, <3>2 DEF Resting, Record, PCs
    <3> QED BY <3>1, <3>2
  <2>2. client' = [client EXCEPT ![p] = new]
    BY <1>2 DEF Rests
  <2> HIDE DEF new
  <2>3. \A q \in Processes : client'[q] = IF q = p THEN new ELSE client[q]
    BY <1>1, <2>2 DEF TypeOK
  <2>4. /\ entry'.cookies = "none" /\ entry'.generation = entry.generation
        /\ entry' \in [generation : Nat, session : Nat, retry : Nat,
                       cookies : {"none", "live", "expired"}]
    BY <1>1, <1>5 DEF Invalidated, TypeOK, Record
  <2>5. NameInv'
    <3>1. \A q \in Processes, g, s \in Nat : Names(q, g, s)' => Names(q, g, s)
      BY <2>1, <2>3 DEF Names, Knows
    <3>2. \A g, s \in Nat : ~Filed(g, s)'
      BY <2>4 DEF Filed
    <3>3. issued' \in Nat /\ issued' >= issued
      BY <1>1, <1>2 DEF TypeOK
    <3> QED BY <1>1, <2>4, <3>1, <3>2, <3>3, NamesStay
  <2>6. TypeOK'
    <3>1. client' \in [Processes -> Record]
      BY <1>1, <2>1, <2>2 DEF TypeOK, Record
    <3>2. new.generation # 0 /\ new.session \in 1 .. issued
      <4>1. client[p].generation # 0
        BY <1>1, <1>2 DEF LostInv
      <4>2. client[p].generation \in Nat /\ client[p].session \in Nat
        BY <1>1 DEF Record
      <4>3. Names(p, client[p].generation, client[p].session)
        BY DEF Names, Knows
      <4> QED BY <1>1, <2>1, <4>1, <4>2, <4>3 DEF NameInv
    <3>3. \A q \in Processes : client'[q].pc = "up" =>
              client'[q].generation # 0 /\ client'[q].session \in 1 .. issued'
      BY <1>1, <1>2, <2>3, <3>2 DEF TypeOK
    <3>4. now' \in Nat \ {0} /\ marker' \in Nat /\ promised' \in Nat /\ issued' \in Nat
          /\ alive' \subseteq 1 .. issued' /\ flock' \in Processes \cup {NoProcess}
      BY <1>1, <1>2 DEF TypeOK
    <3> QED BY <2>4, <3>1, <3>3, <3>4 DEF TypeOK, Record
  <2>7. \A q \in Processes : client'[q].pc \notin Working
    BY <1>1, <1>2, <2>1, <2>3, SharedSessionAssumption DEF LockInv, Working
  <2>8. LockInv' /\ LoginOnlyWithoutSession'
    BY <2>7 DEF LockInv, LoginOnlyWithoutSession, Working
  <2>9. FiledInv' /\ LostInv'
    BY <1>1, <1>2, <2>1, <2>3, <2>4 DEF FiledInv, LostInv
  <2> QED BY <1>3, <2>5, <2>6, <2>8, <2>9 DEF IInv
<1> QED BY <1>4, <1>5 DEF MarksIneffective

(* The environment: the clock, the cookies, the server. *)
LEMMA EnvironmentStep ==
    ASSUME IInv,
           Tick \/ CookiesExpire \/ (\E s \in 1 .. MaxSession : ServerForgets(s))
    PROVE  IInv'
<1>1. /\ TypeOK /\ LockInv /\ NameInv /\ FiledInv /\ LostInv /\ PromiseInv
      /\ LoginOnlyWithoutSession
  BY DEF IInv
<1>2. /\ UNCHANGED <<flock, marker, client, issued, promised>>
      /\ alive' \subseteq alive /\ entry'.generation = entry.generation
      /\ now' \in Nat \ {0} /\ now' >= now
      /\ entry' \in [generation : Nat, session : Nat, retry : Nat,
                     cookies : {"none", "live", "expired"}]
      /\ entry'.session = entry.session
      /\ entry'.cookies = entry.cookies \/ (entry.cookies = "live" /\ entry'.cookies = "expired")
  BY <1>1 DEF Tick, CookiesExpire, ServerForgets, TypeOK
<1>3. NameInv'
  <2>1. \A q \in Processes, g, s \in Nat : Names(q, g, s)' => Names(q, g, s)
    BY <1>2 DEF Names
  <2>2. \A g, s \in Nat : Filed(g, s)' => Filed(g, s)
    BY <1>2 DEF Filed
  <2>3. issued' \in Nat /\ issued' >= issued
    BY <1>1, <1>2 DEF TypeOK
  <2> QED BY <1>1, <1>2, <2>1, <2>2, <2>3, NamesStay
<1>4. TypeOK'
  BY <1>1, <1>2 DEF TypeOK
<1>5. LockInv' /\ FiledInv' /\ LostInv'
  BY <1>1, <1>2 DEF LockInv, FiledInv, LostInv
<1>6. PromiseInv'
  <2>1. \A q \in Processes : Told(q)' <=> Told(q)
    BY <1>2 DEF Told
  <2>2. now \in Nat /\ promised \in Nat
    BY <1>1 DEF TypeOK
  <2> QED BY <1>1, <1>2, <2>1, <2>2 DEF PromiseInv
<1>7. LoginOnlyWithoutSession'
  BY <1>1, <1>2 DEF LoginOnlyWithoutSession
<1> QED BY <1>3, <1>4, <1>5, <1>6, <1>7 DEF IInv

(* A process dies, with a deadline it was told and nobody else was. *)
LEMMA CrashStep == ASSUME IInv, NEW p \in Processes, Crash(p) PROVE IInv'
<1>1. client[p] \in Record /\ TypeOK /\ LockInv /\ PromiseInv
  BY DEF IInv, TypeOK, Record
<1>2. Off \in Record /\ Off.pc = "off" /\ Off.generation = 0
  BY DEF Off, Record, PCs
<1>3. client' = [client EXCEPT ![p] = Off] /\ UNCHANGED <<now, entry, marker, issued, alive>>
  BY DEF Crash
<1>4. flock' = flock \/ (flock = p /\ flock' = NoProcess)
  BY DEF Crash
<1>5. promised' \in Nat /\ marker' \in Nat
  BY <1>1, <1>3 DEF Crash, TypeOK
<1>6. PromiseInv'
  <2>1. CASE client[p].pc \in {"sleep", "limited"}
    <3>1. promised' = 0 /\ now' \in Nat
      BY <1>1, <1>3, <2>1 DEF Crash, TypeOK
    <3>2. \A q \in Processes : q # p => ~Told(q)
      BY <1>1, <2>1, Alone DEF Told, Working
    <3>3. \A q \in Processes : ~Told(q)'
      BY <1>1, <1>2, <1>3, <3>2 DEF Told, TypeOK
    <3> QED BY <3>1, <3>3 DEF PromiseInv
  <2>2. CASE client[p].pc \notin {"sleep", "limited"}
    <3>1. promised' = promised
      BY <2>2 DEF Crash
    <3> QED BY <1>1, <1>2, <1>3, <2>2, <3>1, PromiseStays
  <2> QED BY <2>1, <2>2
<1>7. \A g, s \in Nat : g # 0 => ~Knows(Off, g, s)
  BY <1>2 DEF Knows
<1> QED BY <1>2, <1>3, <1>4, <1>5, <1>6, <1>7, MoveStep DEF Working

----------------------------------------------------------------------------
(* Every step keeps the invariant. *)
LEMMA NextInv == IInv /\ [Next]_vars => IInv'
<1> SUFFICES ASSUME IInv, [Next]_vars PROVE IInv'
  OBVIOUS
<1>1. ASSUME NEW p \in Processes, ClientSteps(p) PROVE IInv'
  <2>1. CASE GivesUp(p) \/ Refused(p) \/ LoginFails(p) \/ MarkSkipped(p)
    BY <2>1, QuietReturns
  <2>2. CASE InitAdopts(p) \/ RecoverAdopts(p) \/ Publish(p)
    BY <2>2, AdoptStep
  <2>3. CASE StartsLogin(p)
    BY <2>3, StartsLoginStep
  <2>4. CASE LoginOK(p)
    BY <2>4, LoginOKStep
  <2>5. CASE \E d \in Delays : LoginLimited(p, d)
    BY <2>5, LimitedStep
  <2>6. CASE SleepReturns(p)
    BY <2>6, SleepReturnsStep
  <2>7. CASE SaveRateLimit(p) \/ SaveRateLimitFails(p)
    BY <2>7, SaveRateLimitStep
  <2>8. CASE SaveRecord(p) \/ SaveFails(p)
    BY <2>8, SaveStep
  <2>9. CASE MarksIneffective(p)
    BY <2>9, MarksStep
  <2> QED BY <1>1, <2>1, <2>2, <2>3, <2>4, <2>5, <2>6, <2>7, <2>8, <2>9 DEF ClientSteps
<1>2. ASSUME NEW p \in Processes, NEW work \in {"recover", "note"}, SessionLost(p, work)
      PROVE  IInv'
  BY <1>2, SessionLostStep
<1>3. ASSUME NEW p \in Processes, New(p) \/ LockAccount(p) \/ Crash(p) PROVE IInv'
  BY <1>3, NewStep, LockAccountStep, CrashStep
<1>4. CASE Tick \/ CookiesExpire \/ \E s \in 1 .. MaxSession : ServerForgets(s)
  BY <1>4, EnvironmentStep
<1>5. CASE UNCHANGED vars
  BY <1>5 DEF vars, IInv, TypeOK, LockInv, NameInv, Names, Filed, FiledInv, LostInv,
              PromiseInv, Told, LoginOnlyWithoutSession
<1> QED BY <1>1, <1>2, <1>3, <1>4, <1>5 DEF Next

(* Hence the invariant always holds. *)
LEMMA Invariance == Spec => []IInv
<1> QED BY InitInv, NextInv, PTL DEF Spec

(* Types, and a client that is up has a session the server granted. *)
THEOREM TypeCorrectness == Spec => []TypeOK
<1>1. IInv => TypeOK
  BY DEF IInv
<1> QED BY <1>1, Invariance, PTL

(* A generation is the name of a session for every process and for the store:
   what recover() and persistIneffective() compare tells sessions apart. *)
THEOREM GenerationsNameSessions == Spec => []GenerationNamesSession
<1>1. IInv => GenerationNamesSession
  <2> SUFFICES ASSUME IInv, NEW p \in Processes, client[p].generation # 0
               PROVE  /\ \A q \in Processes :
                            client[q].generation = client[p].generation =>
                                client[q].session = client[p].session
                      /\ entry.cookies # "none"
                            /\ entry.generation = client[p].generation =>
                                entry.session = client[p].session
    BY DEF GenerationNamesSession
  <2>1. TypeOK /\ NameInv
    BY DEF IInv
  <2>2. \A q \in Processes : /\ client[q].generation \in Nat /\ client[q].session \in Nat
                             /\ Names(q, client[q].generation, client[q].session)
    BY <2>1 DEF TypeOK, Names, Knows
  <2>3. entry.session \in Nat
    BY <2>1 DEF TypeOK
  <2> QED BY <2>1, <2>2, <2>3 DEF NameInv, Filed
<1> QED BY <1>1, Invariance, PTL

(* While a process logs in, under the lock file, the store holds no session
   that the server honours. *)
THEOREM NoNeedlessLogin == Spec => []LoginOnlyWithoutSession
<1>1. IInv => LoginOnlyWithoutSession
  BY DEF IInv
<1> QED BY <1>1, Invariance, PTL

(* persistIneffective() takes out of the store only a session that is lost:
   the generation it compares names the session of the failed replay. *)
THEOREM OnlyDeadSessionsInvalidated == Spec => InvalidatesOnlyDeadSessions
<1>1. ASSUME IInv, [Next]_vars, entry.cookies = "live", entry'.cookies = "none"
      PROVE  entry.session \notin alive
  <2>1. TypeOK /\ NameInv /\ LostInv
    BY <1>1 DEF IInv
  <2>2. PICK p \in Processes : MarksIneffective(p)
    <3>1. CASE \E p \in Processes : SaveRecord(p) \/ SaveFails(p)
      BY <1>1, <3>1 DEF SaveRecord, SaveFails, SavedEntry
    <3>2. CASE CookiesExpire
      BY <1>1, <2>1, <3>2 DEF CookiesExpire, TypeOK
    <3>3. CASE UNCHANGED entry
      BY <1>1, <3>3
    <3> QED BY <1>1, <3>1, <3>2, <3>3 DEF Next, ClientSteps, vars, New, SessionLost,
                LockAccount, GivesUp, InitAdopts, Refused, StartsLogin, RecoverAdopts,
                LoginOK, LoginFails, LoginLimited, SleepReturns, SaveRateLimit,
                SaveRateLimitFails, Publish, MarkSkipped, Tick, ServerForgets, Crash
  <2> DEFINE g == client[p].generation
             s == client[p].session
  <2>3. g = entry.generation /\ g # 0 /\ s \notin alive
    BY <2>1, <2>2 DEF MarksIneffective, Locked, SameGeneration, LostInv
  <2>4. g \in Nat /\ s \in Nat /\ entry.session \in Nat
    BY <2>1 DEF TypeOK
  <2>5. Names(p, g, s) /\ Filed(g, entry.session)
    BY <1>1, <2>3 DEF Names, Knows, Filed
  <2>6. s = entry.session
    BY <2>1, <2>3, <2>4, <2>5 DEF NameInv
  <2> QED BY <2>3, <2>6
<1>2. IInv /\ [Next]_vars =>
        [/\ entry.cookies = "live" /\ entry'.cookies = "none"
         => entry.session \notin alive]_vars
  BY <1>1
<1> QED BY <1>2, Invariance, PTL DEF Spec, InvalidatesOnlyDeadSessions

(* The store's generation never goes back: a save brings a later one, also
   when it fails, and an invalidation keeps it. *)
THEOREM GenerationGrows == Spec => StoreGenerationGrows
<1>1. ASSUME IInv, [Next]_vars PROVE entry'.generation >= entry.generation
  <2>1. TypeOK /\ LockInv /\ entry.generation \in Nat
    BY <1>1 DEF IInv, TypeOK
  <2>2. ASSUME NEW p \in Processes, SaveRecord(p) \/ SaveFails(p)
        PROVE  entry'.generation >= entry.generation
    <3>1. client[p].gotGeneration > entry.generation /\ client[p].gotGeneration \in Nat
      BY <2>1, <2>2 DEF SaveRecord, SaveFails, LockInv, Working, TypeOK
    <3>2. CASE entry' = SavedEntry(p)
      BY <2>1, <3>1, <3>2 DEF SavedEntry
    <3>3. CASE entry' = entry
      BY <2>1, <3>3
    <3> QED BY <2>2, <3>2, <3>3 DEF SaveRecord, SaveFails
  <2>3. ASSUME NEW p \in Processes, MarksIneffective(p)
        PROVE  entry'.generation >= entry.generation
    <3>1. entry'.generation = entry.generation
      BY <2>1, <2>3 DEF MarksIneffective, Invalidated, TypeOK
    <3> QED BY <2>1, <3>1
  <2>4. CASE CookiesExpire
    <3>1. entry'.generation = entry.generation
      BY <2>1, <2>4 DEF CookiesExpire, TypeOK
    <3> QED BY <2>1, <3>1
  <2>5. CASE UNCHANGED entry
    BY <2>1, <2>5
  <2> QED BY <1>1, <2>2, <2>3, <2>4, <2>5 DEF Next, ClientSteps, vars, New,
              SessionLost, LockAccount, GivesUp, InitAdopts, Refused, StartsLogin,
              RecoverAdopts, LoginOK, LoginFails, LoginLimited, SleepReturns,
              SaveRateLimit, SaveRateLimitFails, Publish, MarkSkipped, Tick,
              ServerForgets, Crash
<1>2. IInv /\ [Next]_vars => [entry'.generation >= entry.generation]_vars
  BY <1>1
<1> QED BY <1>2, Invariance, PTL DEF Spec, StoreGenerationGrows

(* A login attempt begins at the start of the login or after a sleep. *)
LEMMA LogsInSteps ==
    ASSUME TypeOK, [Next]_vars, NEW p \in Processes, LogsIn(p)
    PROVE  StartsLogin(p) \/ SleepReturns(p)
<1>0. ASSUME NEW q \in Processes, client'[q].pc # "login",
             \A r \in Processes : r # q => client'[r] = client[r]
      PROVE  FALSE
  BY <1>0 DEF LogsIn
<1>1. ASSUME NEW q \in Processes, NEW new, client' = [client EXCEPT ![q] = new],
             new.pc # "login"
      PROVE  FALSE
  BY <1>1 DEF LogsIn, TypeOK
<1>2. ASSUME NEW q \in Processes, Rests(q) PROVE FALSE
  <2>1. Resting(q).pc # "login"
    BY RestingPC
  <2> QED BY <1>1, <1>2, <2>1 DEF Rests
<1>3. ASSUME UNCHANGED client PROVE FALSE
  BY <1>3 DEF LogsIn
<1>4. ASSUME NEW q \in Processes, client[q] \in Record,
             \/ New(q) \/ InitAdopts(q) \/ RecoverAdopts(q) \/ LoginOK(q) \/ Publish(q)
             \/ \E work \in {"recover", "note"} : SessionLost(q, work)
             \/ \E d \in Delays : LoginLimited(q, d)
             \/ Crash(q)
      PROVE  FALSE
  <2> USE DEF Record
  <2>1. CASE New(q)
    <3> DEFINE new == [client[q] EXCEPT !.pc = "init"]
    <3>1. client' = [client EXCEPT ![q] = new] /\ new.pc # "login"
      BY <1>4, <2>1 DEF New, GoesTo, TypeOK
    <3> HIDE DEF new
    <3> QED BY <1>1, <3>1
  <2>2. CASE InitAdopts(q) \/ Publish(q) \/ Crash(q)
    <3>1. CASE InitAdopts(q)
      <4>1. client'[q].pc = "up" /\ \A r \in Processes : r # q => client'[r] = client[r]
        BY <3>1 DEF InitAdopts, Off, TypeOK
      <4> QED BY <1>0, <4>1
    <3>2. CASE Publish(q)
      <4>1. client'[q].pc = "up" /\ \A r \in Processes : r # q => client'[r] = client[r]
        BY <3>2 DEF Publish, Off, TypeOK
      <4> QED BY <1>0, <4>1
    <3>3. CASE Crash(q)
      <4>1. client' = [client EXCEPT ![q] = Off] /\ Off.pc # "login"
        BY <3>3 DEF Crash, Off
      <4> QED BY <1>1, <4>1
    <3> QED BY <2>2, <3>1, <3>2, <3>3
  <2>3. CASE RecoverAdopts(q) \/ LoginOK(q)
    <3>1. client'[q].pc # "login" /\ \A r \in Processes : r # q => client'[r] = client[r]
      BY <1>4, <2>3 DEF RecoverAdopts, LoginOK, TypeOK
    <3> QED BY <1>0, <3>1
  <2>4. ASSUME NEW work \in {"recover", "note"}, SessionLost(q, work) PROVE FALSE
    <3>1. client'[q].pc # "login" /\ \A r \in Processes : r # q => client'[r] = client[r]
      BY <1>4, <2>4 DEF SessionLost, TypeOK
    <3> QED BY <1>0, <3>1
  <2>5. ASSUME NEW d \in Delays, LoginLimited(q, d) PROVE FALSE
    <3>1. PICK pc \in {"sleep", "limited"} :
                client' = [client EXCEPT ![q].pc = pc, ![q].deadline = now + d]
      BY <2>5 DEF LoginLimited
    <3>2. client'[q].pc # "login" /\ \A r \in Processes : r # q => client'[r] = client[r]
      BY <1>4, <3>1 DEF TypeOK
    <3> QED BY <1>0, <3>2
  <2> QED BY <1>4, <2>1, <2>2, <2>3, <2>4, <2>5
<1>5. ASSUME NEW q \in Processes, client[q] \in Record, SaveRecord(q) PROVE FALSE
  <2>1. CASE client[q].work = "init"
    <3>1. client'[q].pc # "login" /\ \A r \in Processes : r # q => client'[r] = client[r]
      BY <1>5, <2>1 DEF SaveRecord, Won, Off, TypeOK
    <3> QED BY <1>0, <3>1
  <2>2. CASE client[q].work # "init"
    <3>1. client' = [client EXCEPT ![q] = [client[q] EXCEPT !.pc = "publish", !.work = "none"]]
      BY <1>5, <2>2 DEF SaveRecord, Won
    <3>2. client'[q].pc # "login" /\ \A r \in Processes : r # q => client'[r] = client[r]
      BY <1>5, <3>1 DEF TypeOK, Record
    <3> QED BY <1>0, <3>2
  <2> QED BY <2>1, <2>2
<1>6. ASSUME NEW q \in Processes, StartsLogin(q) \/ SleepReturns(q)
      PROVE  q = p
  BY <1>6 DEF StartsLogin, SleepReturns, LogsIn, TypeOK
<1>7. \A q \in Processes : client[q] \in Record
  BY DEF TypeOK, Record
<1>8. ASSUME NEW q \in Processes, ClientSteps(q) PROVE StartsLogin(p) \/ SleepReturns(p)
  <2>1. CASE \/ GivesUp(q) \/ Refused(q) \/ LoginFails(q) \/ SaveRateLimit(q)
             \/ SaveRateLimitFails(q) \/ SaveFails(q) \/ MarksIneffective(q)
             \/ MarkSkipped(q)
    BY <1>2, <2>1 DEF GivesUp, Refused, LoginFails, SaveRateLimit, SaveRateLimitFails,
                      SaveFails, MarksIneffective, MarkSkipped
  <2> QED BY <1>4, <1>5, <1>6, <1>7, <1>8, <2>1 DEF ClientSteps
<1>9. CASE Tick \/ CookiesExpire \/ (\E s \in 1 .. MaxSession : ServerForgets(s))
            \/ (\E q \in Processes : LockAccount(q)) \/ UNCHANGED vars
  BY <1>3, <1>9 DEF Tick, CookiesExpire, ServerForgets, LockAccount, vars
<1> QED BY <1>4, <1>7, <1>8, <1>9 DEF Next

(* No process starts a login attempt before the server's last deadline, which
   the marker or the holder of the lock file keeps for all of them. *)
THEOREM SharedDeadlineKept == Spec => NoLoginBeforeSharedDeadline
<1>1. ASSUME IInv, [Next]_vars, NEW p \in Processes, LogsIn(p)
      PROVE  now >= promised
  <2>1. TypeOK /\ LockInv /\ PromiseInv
    BY <1>1 DEF IInv
  <2>2. /\ now \in Nat /\ marker \in Nat /\ promised \in Nat
        /\ \A q \in Processes : client[q].deadline \in Nat
    BY <2>1 DEF TypeOK
  <2>3. StartsLogin(p) \/ SleepReturns(p)
    BY <1>1, <2>1, LogsInSteps
  <2>4. CASE StartsLogin(p)
    <3>1. now >= marker /\ flock = p /\ client[p].pc \in {"init", "recover"}
      BY <2>2, <2>4 DEF StartsLogin, DeadlinePending, MustLogin, Locked
    <3>2. \A q \in Processes : ~Told(q)
      BY <2>1, <3>1 DEF Told, LockInv, Working
    <3> QED BY <2>1, <2>2, <3>1, <3>2 DEF PromiseInv
  <2>5. CASE SleepReturns(p)
    <3>1. client[p].pc = "sleep" /\ now >= client[p].deadline
      <4>1. client'[p].pc = IF now >= client[p].deadline THEN "login" ELSE "limited"
        BY <2>1, <2>5 DEF SleepReturns, TypeOK
      <4> QED BY <1>1, <2>5, <4>1 DEF LogsIn, SleepReturns
    <3>2. promised <= client[p].deadline
      BY <2>1, <3>1 DEF PromiseInv, Told
    <3> QED BY <2>2, <3>1, <3>2
  <2> QED BY <2>3, <2>4, <2>5
<1>2. IInv /\ [Next]_vars => [\A p \in Processes : LogsIn(p) => now >= promised]_vars
  BY <1>1
<1> QED BY <1>2, Invariance, PTL DEF Spec, NoLoginBeforeSharedDeadline

=============================================================================
